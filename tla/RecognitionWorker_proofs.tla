---------------------- MODULE RecognitionWorker_proofs ----------------------
(***************************************************************************)
(* What holds of the recognition worker for every number of cameras, slots *)
(* and visits, with streams that may be lost.                              *)
(***************************************************************************)
EXTENDS RecognitionWorker, SequenceTheorems, FiniteSetTheorems, TLAPS

(* A lane knows of a visit exactly when it is not idle, and its gate holds *)
(* only in a visit.                                                        *)
GoodLane(l) ==
  /\ l \in Lane
  /\ l.visit.state = "IDLE" <=> l.visit.id = 0
  /\ l.visit.published => l.visit.id # 0
  /\ l.settled => l.visit.id # 0

(* The look at a frame publishes nothing. *)
KeepsEvents(l, m) ==
  m.visit.published => l.visit.published /\ m.visit.id = l.visit.id

VisitInv ==
  \A c \in Cameras :
    /\ GoodLane(lane[c])
    /\ task[c].pc \in {"ocr", "publish"} => lane[c].visit.id # 0

(* The slots are those of the running calls, and the other way round for   *)
(* the calls that are still awaited.                                       *)
SlotInv ==
  /\ SlotHasCall
  /\ \A c \in Cameras : task[c].pc \in InCall /\ ~task[c].retired => c \in held
  /\ Cardinality(held) <= MaxConcurrency

EventInv == OneEventPerVisit /\ MarkedIsQueued

IInv == TypeOK /\ VisitInv /\ SlotInv /\ EventInv

-----------------------------------------------------------------------------
(* Lemmas about the operators *)

(* Leaving the line leaves a line of cameras. *)
LEMMA WithoutType ==
  ASSUME NEW queue \in Seq(Cameras), NEW c \in Cameras
  PROVE  Without(queue, c) \in Seq(Cameras)
<1>1. CASE \E i \in DOMAIN queue : queue[i] = c
  <2> DEFINE k == CHOOSE i \in DOMAIN queue : queue[i] = c
  <2>1. k \in 1..Len(queue)
    BY <1>1, LenProperties
  <2>2. \A i \in 1..(k-1) : queue[i] \in Cameras
    BY <2>1, ElementOfSeq, LenProperties
  <2>3. \A i \in (k+1)..Len(queue) : queue[i] \in Cameras
    BY <2>1, ElementOfSeq, LenProperties
  <2>4. k - 1 \in Int /\ k + 1 \in Int /\ Len(queue) \in Int
    BY <2>1, LenProperties
  <2>5. SubSeq(queue, 1, k-1) \in Seq(Cameras) /\ SubSeq(queue, k+1, Len(queue)) \in Seq(Cameras)
    <3> HIDE DEF k
    <3> QED BY <2>2, <2>3, <2>4, SubSeqProperties
  <2>6. RemoveAt(queue, k) \in Seq(Cameras)
    <3> HIDE DEF k
    <3> QED BY <2>5, ConcatProperties DEF RemoveAt
  <2> QED BY <1>1, <2>6 DEF Without
<1>2. CASE ~\E i \in DOMAIN queue : queue[i] = c
  BY <1>2 DEF Without
<1> QED BY <1>1, <1>2

(* Asking for a slot, and being served. *)
LEMMA AskedType ==
  ASSUME TypeOK, NEW c \in Cameras
  PROVE  /\ Asked(c) \in Seq(Cameras)
         /\ c \notin held => Tail(Asked(c)) \in Seq(Cameras)
<1>1. waiting \in Seq(Cameras)
  BY DEF TypeOK
<1>2. Asked(c) \in Seq(Cameras)
  BY <1>1, AppendProperties DEF Asked
<1>3. c \notin held => Asked(c) # <<>>
  BY <1>1, LenProperties, AppendProperties DEF Asked, ToSet
<1> QED BY <1>2, <1>3, HeadTailProperties

LEMMA SeenGood ==
  ASSUME NEW l, GoodLane(l), NEW plate \in BOOLEAN
  PROVE  /\ GoodLane(Seen(l, plate))
         /\ KeepsEvents(l, Seen(l, plate))
         /\ Seen(l, plate).visit.id # 0
<1> DEFINE v == l.visit
           before == IF v.state \in {"IDLE", "VEHICLE_PRESENT", "VEHICLE_DEPARTING"}
                     THEN "RECOGNIZING" ELSE v.state
           state == CASE v.published -> "EVENT_PUBLISHED"
                      [] ~v.published /\ plate /\ before = "RECOGNIZING" -> "PLATE_CONFIRMED"
                      [] OTHER -> before
           born == IF v.state = "IDLE" THEN l.born + 1 ELSE l.born
           id == IF v.state = "IDLE" THEN l.born + 1 ELSE v.id
           w == [v EXCEPT !.state = state, !.id = id, !.empty = FALSE]
           m == Seen(l, plate)
<1>1. l \in Lane /\ v \in Visit /\ l.born \in Nat
  BY DEF GoodLane, Lane
<1>2. m = [l EXCEPT !.born = born, !.visit = w]
  BY DEF Seen
<1>3. before \in VisitStates \ {"IDLE"}
  BY <1>1 DEF Visit, VisitStates
<1>4. state \in VisitStates /\ state # "IDLE"
  <2> HIDE DEF before
  <2> QED BY <1>3 DEF VisitStates
<1>5. id \in Nat /\ id # 0 /\ born \in Nat
  BY <1>1 DEF GoodLane, Visit
<1>6. v.published => id = v.id
  BY DEF GoodLane
<1> HIDE DEF state, id, born, v, m
<1>7. w \in Visit /\ w.state = state /\ w.id = id /\ w.published = v.published
  BY <1>1, <1>4, <1>5 DEF Visit
<1> HIDE DEF w
<1>8. m \in Lane /\ m.settled = l.settled /\ m.visit = w
  BY <1>1, <1>2, <1>5, <1>7 DEF Lane
<1>9. GoodLane(m) /\ KeepsEvents(l, m) /\ m.visit.id # 0
  BY <1>4, <1>5, <1>6, <1>7, <1>8 DEF GoodLane, KeepsEvents, v
<1> QED BY <1>9 DEF m

LEMMA UnseenGood ==
  ASSUME NEW l, GoodLane(l), NEW long \in BOOLEAN
  PROVE  /\ GoodLane(Rearmed(Unseen(l, long)))
         /\ KeepsEvents(l, Rearmed(Unseen(l, long)))
BY DEF GoodLane, KeepsEvents, Rearmed, Unseen, NoVisit, Lane, Visit, VisitStates

LEMMA UnsettledGood ==
  ASSUME NEW l, GoodLane(l)
  PROVE  /\ GoodLane([l EXCEPT !.settled = FALSE])
         /\ KeepsEvents(l, [l EXCEPT !.settled = FALSE])
BY DEF GoodLane, KeepsEvents, Lane

(* Queueing an event keeps what is queued and adds it once. *)
LEMMA QueuedEvent ==
  ASSUME NEW event \in Event, outbox \in Seq(Event), OneEventPerVisit
  PROVE  /\ Queued(event) \in Seq(Event)
         /\ ToSet(outbox) \subseteq ToSet(Queued(event))
         /\ event \in ToSet(Queued(event))
         /\ \A i, j \in DOMAIN Queued(event) : Queued(event)[i] = Queued(event)[j] => i = j
<1>1. CASE event \in ToSet(outbox)
  BY <1>1 DEF Queued, OneEventPerVisit
<1>2. CASE event \notin ToSet(outbox)
  <2>1. Queued(event) = Append(outbox, event)
    BY <1>2 DEF Queued
  <2>2. /\ Append(outbox, event) \in Seq(Event)
        /\ Len(Append(outbox, event)) = Len(outbox) + 1
        /\ \A i \in 1..Len(outbox) : Append(outbox, event)[i] = outbox[i]
        /\ Append(outbox, event)[Len(outbox) + 1] = event
    BY AppendProperties
  <2>3. Len(outbox) \in Nat /\ DOMAIN outbox = 1..Len(outbox)
        /\ DOMAIN Append(outbox, event) = 1..(Len(outbox) + 1)
    BY <2>2, LenProperties
  <2>4. \A i \in 1..Len(outbox) : outbox[i] # event
    BY <1>2, <2>3 DEF ToSet
  <2>5. \A i, j \in 1..Len(outbox) : outbox[i] = outbox[j] => i = j
    BY <2>3 DEF OneEventPerVisit
  <2> HIDE DEF OneEventPerVisit
  <2>6. \A i, j \in 1..(Len(outbox) + 1) : Append(outbox, event)[i] = Append(outbox, event)[j] => i = j
    BY <2>2, <2>3, <2>4, <2>5
  <2>7. ToSet(outbox) \subseteq ToSet(Append(outbox, event)) /\ event \in ToSet(Append(outbox, event))
    BY <2>2, <2>3 DEF ToSet
  <2> QED BY <2>1, <2>2, <2>3, <2>6, <2>7
<1> QED BY <1>1, <1>2

-----------------------------------------------------------------------------
(* The shape of a step of one camera's task: the others are left alone.    *)

Others(c) == \A d \in Cameras \ {c} : task'[d] = task[d] /\ lane'[d] = lane[d]

Typed ==
  /\ task' \in [Cameras -> Task]
  /\ lane' \in [Cameras -> Lane]
  /\ held' \subseteq Cameras
  /\ waiting' \in Seq(Cameras)
  /\ stray' \in [Cameras -> Nat]
  /\ alive' \subseteq Cameras
  /\ disturbed' \in Nat

(* What becomes of the slots. *)
SlotsOf(c) ==
  /\ \/ held' \in {held, held \ {c}}
     \/ held' = held \cup {c} /\ Cardinality(held) < MaxConcurrency
  /\ task'[c].pc \in InCall /\ ~task'[c].retired => c \in held'
  /\ c \in held' => task'[c].pc \in InCall

LEMMA StepKeepsSlots ==
  ASSUME TypeOK, SlotInv, NEW c \in Cameras, Typed, Others(c), SlotsOf(c)
  PROVE  SlotInv'
<1>1. IsFiniteSet(held) /\ MaxConcurrency \in Nat
  BY CamerasAssumption, BoundsAssumption, FS_Subset DEF TypeOK
<1>2. Cardinality(held) \in Nat /\ Cardinality(held) <= MaxConcurrency
  BY <1>1, FS_CardinalityType DEF SlotInv
<1>3. Cardinality(held \ {c}) = IF c \in held THEN Cardinality(held) - 1 ELSE Cardinality(held)
  BY <1>1, FS_RemoveElement
<1>7. Cardinality(held \cup {c}) = IF c \in held THEN Cardinality(held) ELSE Cardinality(held) + 1
  BY <1>1, FS_AddElement
<1>4. Cardinality(held') <= MaxConcurrency
  <2>1. CASE held' = held
    BY <2>1, <1>2
  <2>2. CASE held' = held \ {c}
    BY <2>2, <1>1, <1>2, <1>3
  <2>3. CASE held' = held \cup {c} /\ Cardinality(held) < MaxConcurrency
    BY <2>3, <1>1, <1>2, <1>7
  <2> QED BY <2>1, <2>2, <2>3 DEF SlotsOf
<1>5. \A d \in held' : task'[d].pc \in InCall
  <2> TAKE d \in held'
  <2>1. CASE d = c
    BY <2>1 DEF SlotsOf
  <2>2. CASE d # c
    <3>1. d \in held /\ d \in Cameras \ {c}
      BY <2>2 DEF SlotsOf, TypeOK
    <3> QED BY <3>1 DEF SlotInv, SlotHasCall, Others
  <2> QED BY <2>1, <2>2
<1>6. \A d \in Cameras : task'[d].pc \in InCall /\ ~task'[d].retired => d \in held'
  <2> TAKE d \in Cameras
  <2>1. CASE d = c
    BY <2>1 DEF SlotsOf
  <2>2. CASE d # c
    BY <2>2 DEF SlotInv, Others, SlotsOf
  <2> QED BY <2>1, <2>2
<1> QED BY <1>4, <1>5, <1>6 DEF SlotInv, SlotHasCall

LEMMA StepKeepsVisits ==
  ASSUME VisitInv, NEW c \in Cameras, Others(c), GoodLane(lane'[c]),
         task'[c].pc \in {"ocr", "publish"} => lane'[c].visit.id # 0
  PROVE  VisitInv'
<1> SUFFICES ASSUME NEW d \in Cameras
             PROVE  /\ GoodLane(lane'[d])
                    /\ task'[d].pc \in {"ocr", "publish"} => lane'[d].visit.id # 0
  BY DEF VisitInv, GoodLane
<1>1. CASE d = c
  BY <1>1
<1>2. CASE d # c
  BY <1>2 DEF VisitInv, Others
<1> QED BY <1>1, <1>2

LEMMA StepKeepsEvents ==
  ASSUME TypeOK, EventInv, NEW c \in Cameras, Others(c), KeepsEvents(lane[c], lane'[c]),
         outbox' = outbox
  PROVE  EventInv'
<1>1. OneEventPerVisit'
  BY DEF EventInv, OneEventPerVisit
<1>2. ASSUME NEW d \in Cameras, lane'[d].visit.published
      PROVE  [camera |-> d, visit |-> lane'[d].visit.id] \in ToSet(outbox')
  <2>1. lane[d].visit.published /\ lane'[d].visit.id = lane[d].visit.id
    BY <1>2 DEF KeepsEvents, Others
  <2> QED BY <2>1 DEF EventInv, MarkedIsQueued, EventOf
<1> QED BY <1>1, <1>2 DEF EventInv, MarkedIsQueued, EventOf

(* One conclusion for all the steps that queue no event. *)
LEMMA QuietStep ==
  ASSUME IInv, NEW c \in Cameras, Typed, Others(c), SlotsOf(c), GoodLane(lane'[c]),
         task'[c].pc \in {"ocr", "publish"} => lane'[c].visit.id # 0,
         KeepsEvents(lane[c], lane'[c]), outbox' = outbox
  PROVE  IInv'
<1>1. TypeOK'
  BY DEF IInv, TypeOK, Typed
<1>2. VisitInv'
  BY StepKeepsVisits DEF IInv
<1>3. SlotInv'
  BY StepKeepsSlots DEF IInv
<1>4. EventInv'
  BY StepKeepsEvents DEF IInv
<1> QED BY <1>1, <1>2, <1>3, <1>4 DEF IInv

LEMMA ReleaseType ==
  ASSUME TypeOK, NEW c \in Cameras, Release(c)
  PROVE  held' = held \ {c} /\ held' \subseteq Cameras /\ waiting' \in Seq(Cameras)
BY WithoutType DEF Release, TypeOK

(* A look that ends. *)
LEMMA LookedStep ==
  ASSUME IInv, NEW c \in Cameras, NEW recent \in BOOLEAN, NEW confirmed \in Nat,
         NEW l, GoodLane(l), KeepsEvents(lane[c], l), task[c].pc \in InCall,
         Looked(c, recent, confirmed, l)
  PROVE  IInv'
<1>1. TypeOK /\ task \in [Cameras -> Task] /\ lane \in [Cameras -> Lane]
  BY DEF IInv, TypeOK
<1>2. held' = held \ {c} /\ held' \subseteq Cameras /\ waiting' \in Seq(Cameras)
  BY <1>1, ReleaseType DEF Looked
<1>3. lane' \in [Cameras -> Lane] /\ lane'[c] = l
  BY <1>1 DEF Looked, GoodLane
<1>4. task' \in [Cameras -> Task] /\ task'[c].pc = "idle"
  BY <1>1 DEF Looked, Task, Places
<1>5. Typed
  BY <1>1, <1>2, <1>3, <1>4 DEF Typed, TypeOK, Looked
<1>6. Others(c)
  BY <1>1 DEF Others, Looked
<1>7. SlotsOf(c)
  BY <1>2, <1>4 DEF SlotsOf, InCall
<1>8. outbox' = outbox
  BY DEF Looked
<1> QED BY <1>3, <1>4, <1>5, <1>6, <1>7, <1>8, QuietStep

-----------------------------------------------------------------------------
(* One lemma for each group of actions *)

LEMMA StepFacts ==
  ASSUME IInv, NEW c \in Cameras
  PROVE  /\ TypeOK
         /\ task \in [Cameras -> Task] /\ task[c] \in Task
         /\ lane \in [Cameras -> Lane] /\ GoodLane(lane[c]) /\ KeepsEvents(lane[c], lane[c])
         /\ held \subseteq Cameras /\ waiting \in Seq(Cameras)
         /\ c \in held => task[c].pc \in InCall
         /\ task[c].pc \in InCall /\ ~task[c].retired => c \in held
         /\ task[c].pc \in {"ocr", "publish"} => lane[c].visit.id # 0
BY DEF IInv, TypeOK, VisitInv, SlotInv, SlotHasCall, KeepsEvents

(* The actions that change the task of the camera and nothing of its lane. *)
LEMMA TaskStep ==
  ASSUME IInv, NEW c \in Cameras, NEW t \in Task, task' = [task EXCEPT ![c] = t],
         lane' = lane, held' \in {held, held \ {c}}, waiting' \in Seq(Cameras),
         t.pc \in InCall /\ ~t.retired => c \in held',
         c \in held' => t.pc \in InCall,
         t.pc \in {"ocr", "publish"} => task[c].pc \in {"ocr", "publish"},
         UNCHANGED <<outbox, alive>>, stray' \in [Cameras -> Nat], disturbed' \in Nat
  PROVE  IInv'
<1>1. task' \in [Cameras -> Task] /\ task'[c] = t /\ \A d \in Cameras \ {c} : task'[d] = task[d]
  BY StepFacts
<1>2. Typed
  BY <1>1, StepFacts DEF Typed, TypeOK
<1>3. Others(c)
  BY <1>1 DEF Others
<1>4. SlotsOf(c)
  BY <1>1 DEF SlotsOf
<1>5. GoodLane(lane'[c]) /\ KeepsEvents(lane[c], lane'[c])
      /\ (task'[c].pc \in {"ocr", "publish"} => lane'[c].visit.id # 0)
  BY <1>1, StepFacts
<1> QED BY <1>2, <1>3, <1>4, <1>5, QuietStep

LEMMA StartStep ==
  ASSUME IInv, NEW c \in Cameras, Start(c)
  PROVE  IInv'
<1>1. TypeOK /\ task[c] \in Task /\ lane[c] \in Lane
  BY StepFacts
<1> DEFINE v == lane[c].visit
           t == [NoTask EXCEPT !.pc = "idle", !.recent = TRUE,
                               !.confirmed = IF v.state = "EVENT_PUBLISHED" THEN v.id ELSE 0]
<1>2. t \in Task /\ t.pc = "idle"
  BY <1>1 DEF Task, NoTask, Places, Lane, Visit
<1>3. held' = held \ {c} /\ waiting' \in Seq(Cameras)
  BY <1>1, ReleaseType DEF Start
<1>4. /\ task' = [task EXCEPT ![c] = t] /\ lane' = lane
      /\ UNCHANGED <<outbox, alive>> /\ stray' = stray /\ disturbed' = disturbed
  BY DEF Start
<1>5. stray \in [Cameras -> Nat] /\ disturbed \in Nat
  BY <1>1 DEF TypeOK
<1> HIDE DEF t
<1> QED BY <1>2, <1>3, <1>4, <1>5, TaskStep DEF InCall

LEMMA FrameStep ==
  ASSUME IInv, NEW c \in Cameras, Frame(c)
  PROVE  IInv'
<1>1. /\ task' \in [Cameras -> Task] /\ task'[c].pc = task[c].pc
      /\ task'[c].retired = task[c].retired
  BY StepFacts DEF Frame, Task
<1>2. lane' \in [Cameras -> Lane] /\ lane'[c].visit = lane[c].visit
      /\ lane'[c].settled = lane[c].settled
  BY StepFacts DEF Frame, Offered, Lane
<1>3. Typed
  BY <1>1, <1>2, StepFacts DEF Frame, Typed, TypeOK
<1>4. Others(c)
  BY StepFacts DEF Others, Frame
<1>5. SlotsOf(c)
  BY <1>1, StepFacts DEF SlotsOf, Frame
<1>6. GoodLane(lane'[c]) /\ KeepsEvents(lane[c], lane'[c])
  BY <1>2, StepFacts DEF GoodLane, KeepsEvents
<1>7. outbox' = outbox /\ (task'[c].pc \in {"ocr", "publish"} => lane'[c].visit.id # 0)
  BY <1>1, <1>2, StepFacts DEF Frame
<1> QED BY <1>3, <1>4, <1>5, <1>6, <1>7, QuietStep

LEMMA PollQueuedStep ==
  ASSUME IInv, NEW c \in Cameras, PollQueued(c)
  PROVE  IInv'
<1>1. TypeOK /\ task[c] \in Task /\ task[c].pc = "idle"
  BY StepFacts DEF PollQueued, Working
<1> DEFINE t == [task[c] EXCEPT !.ready = FALSE]
<1>2. t \in Task /\ t.pc = "idle"
  BY <1>1 DEF Task
<1>3. /\ task' = [task EXCEPT ![c] = t] /\ lane' = lane /\ held' = held
      /\ waiting' = Asked(c)
      /\ UNCHANGED <<outbox, alive>> /\ stray' = stray /\ disturbed' = disturbed
  BY DEF PollQueued
<1>4. waiting' \in Seq(Cameras) /\ stray \in [Cameras -> Nat] /\ disturbed \in Nat
  BY <1>1, <1>3, AskedType DEF TypeOK
<1>5. c \notin held
  BY <1>1, StepFacts DEF InCall
<1> HIDE DEF t
<1> QED BY <1>2, <1>3, <1>4, <1>5, TaskStep DEF InCall

(* A look that takes the frame: the camera is served. *)
LEMMA PollServedStep ==
  ASSUME IInv, NEW c \in Cameras, PollStale(c) \/ PollAdmit(c)
  PROVE  IInv'
<1>1. task[c].pc = "idle" /\ ~task[c].retired /\ c \notin held /\ Cardinality(held) < MaxConcurrency
  BY DEF PollStale, PollAdmit, Working, Admits
<1>2. waiting' \in Seq(Cameras)
  <2>1. waiting' = Tail(Asked(c))
    BY DEF PollStale, PollAdmit
  <2> QED BY <1>1, <2>1, AskedType, StepFacts
<1>3. /\ task' \in [Cameras -> Task]
      /\ task'[c].pc \in {"idle", "probe", "locate"}
      /\ held' = IF task'[c].pc = "idle" THEN held ELSE held \cup {c}
  <2> DEFINE known == task[c].confirmed # 0 /\ task[c].confirmed = lane[c].visit.id
             pc == IF known THEN "probe" ELSE "locate"
  <2>1. CASE PollStale(c)
    BY <1>1, <2>1, StepFacts DEF PollStale, Task
  <2>2. CASE PollAdmit(c)
    <3>1. pc \in {"probe", "locate"}
      OBVIOUS
    <3>2. task' = [task EXCEPT ![c] = [task[c] EXCEPT !.ready = FALSE, !.pc = pc]]
          /\ held' = held \cup {c}
      BY <2>2, StepFacts DEF PollAdmit
    <3> HIDE DEF pc
    <3>3. [task[c] EXCEPT !.ready = FALSE, !.pc = pc] \in Task
          /\ [task[c] EXCEPT !.ready = FALSE, !.pc = pc].pc = pc
      BY <3>1, StepFacts DEF Task, Places, InCall
    <3> QED BY <3>1, <3>2, <3>3, StepFacts
  <2> QED BY <2>1, <2>2
<1>4. /\ lane' \in [Cameras -> Lane] /\ lane'[c].settled = lane[c].settled
      /\ lane'[c].visit.id = lane[c].visit.id
      /\ lane'[c].visit.published = lane[c].visit.published
      /\ lane'[c].visit.state = "IDLE" <=> lane[c].visit.state = "IDLE"
  <2>1. CASE PollStale(c)
    BY <2>1, StepFacts DEF PollStale, Taken, Lane
  <2>2. CASE PollAdmit(c)
    <3> DEFINE l == lane[c]
               state == IF l.visit.state = "VEHICLE_PRESENT" THEN "RECOGNIZING" ELSE l.visit.state
               v == [l.visit EXCEPT !.state = state]
               m == [l EXCEPT !.frame = FALSE, !.visit = v]
    <3>1. lane' = [lane EXCEPT ![c] = m]
      BY <2>2, StepFacts DEF PollAdmit, Begun, Taken
    <3>2. l \in Lane /\ l.visit \in Visit
      BY StepFacts DEF Lane
    <3>3. state \in VisitStates /\ (state = "IDLE" <=> l.visit.state = "IDLE")
      BY <3>2 DEF Visit, VisitStates
    <3> HIDE DEF state
    <3>4. v \in Visit /\ v.state = state /\ v.id = l.visit.id /\ v.published = l.visit.published
      BY <3>2, <3>3 DEF Visit
    <3> HIDE DEF v
    <3>5. m \in Lane /\ m.visit = v /\ m.settled = l.settled
      BY <3>2, <3>4 DEF Lane
    <3> HIDE DEF m
    <3>6. lane' \in [Cameras -> Lane] /\ lane'[c] = m
      BY <3>1, <3>5, StepFacts
    <3> QED BY <3>3, <3>4, <3>5, <3>6
  <2> QED BY <2>1, <2>2
<1>5. Typed
  BY <1>2, <1>3, <1>4, StepFacts DEF PollStale, PollAdmit, Typed, TypeOK
<1>6. Others(c)
  BY StepFacts DEF Others, PollStale, PollAdmit
<1>7. SlotsOf(c)
  BY <1>1, <1>3 DEF SlotsOf, InCall
<1>8. GoodLane(lane'[c]) /\ KeepsEvents(lane[c], lane'[c])
  BY <1>4, StepFacts DEF GoodLane, KeepsEvents
<1>9. outbox' = outbox
  BY DEF PollStale, PollAdmit
<1> QED BY <1>3, <1>5, <1>6, <1>7, <1>8, <1>9, QuietStep

LEMMA ProbeStep ==
  ASSUME IInv, NEW c \in Cameras,
         LookFails(c) \/ ProbeUnavailable(c) \/ ProbePresent(c) \/ ProbeAbsent(c)
  PROVE  IInv'
<1>1. /\ task[c].pc \in InCall /\ task[c].recent \in BOOLEAN /\ task[c].confirmed \in Nat
      /\ GoodLane(lane[c]) /\ KeepsEvents(lane[c], lane[c])
  BY StepFacts DEF LookFails, ProbeUnavailable, ProbePresent, ProbeAbsent, Working, InCall, Task
<1>2. CASE LookFails(c)
  BY <1>1, <1>2, LookedStep DEF LookFails
<1>3. CASE ProbeUnavailable(c)
  BY <1>1, <1>3, LookedStep, UnsettledGood DEF ProbeUnavailable
<1>4. CASE ProbePresent(c)
  BY <1>1, <1>4, LookedStep, SeenGood DEF ProbePresent
<1>5. CASE ProbeAbsent(c)
  <2>1. PICK long \in BOOLEAN :
          Looked(c, TRUE, task[c].confirmed, Rearmed(Unseen(lane[c], long)))
    BY <1>5 DEF ProbeAbsent
  <2> QED BY <1>1, <2>1, LookedStep, UnseenGood
<1> QED BY <1>2, <1>3, <1>4, <1>5

LEMMA LocateStep ==
  ASSUME IInv, NEW c \in Cameras, LocateUseless(c) \/ LocateAbsent(c) \/ LocateHeld(c)
  PROVE  IInv'
<1>1. /\ task[c].pc \in InCall /\ task[c].confirmed \in Nat
      /\ GoodLane(lane[c]) /\ KeepsEvents(lane[c], lane[c])
  BY StepFacts DEF LocateUseless, LocateAbsent, LocateHeld, Working, InCall, Task
<1>2. CASE LocateUseless(c)
  BY <1>1, <1>2, LookedStep DEF LocateUseless
<1>3. CASE LocateAbsent(c)
  <2> DEFINE l == [lane[c] EXCEPT !.settled = FALSE]
  <2>1. GoodLane(l) /\ KeepsEvents(lane[c], l)
    BY <1>1, UnsettledGood
  <2>2. PICK long \in BOOLEAN : Looked(c, TRUE, task[c].confirmed, Rearmed(Unseen(l, long)))
    BY <1>3 DEF LocateAbsent
  <2> HIDE DEF l
  <2> DEFINE m == Rearmed(Unseen(l, long))
  <2>3. GoodLane(m) /\ KeepsEvents(l, m)
    BY <2>1, UnseenGood
  <2>4. KeepsEvents(lane[c], m)
    BY <2>1, <2>3 DEF KeepsEvents
  <2> HIDE DEF m
  <2>5. Looked(c, TRUE, task[c].confirmed, m)
    BY <2>2 DEF m
  <2> QED BY <1>1, <2>3, <2>4, <2>5, LookedStep
<1>4. CASE LocateHeld(c)
  <2>1. PICK settled \in BOOLEAN :
          Looked(c, TRUE, task[c].confirmed, [Seen(lane[c], FALSE) EXCEPT !.settled = settled])
    BY <1>4 DEF LocateHeld
  <2> DEFINE s == Seen(lane[c], FALSE)
             l == [s EXCEPT !.settled = settled]
  <2>2. GoodLane(s) /\ KeepsEvents(lane[c], s) /\ s.visit.id # 0
    BY <1>1, SeenGood
  <2> HIDE DEF s
  <2>4. GoodLane(l) /\ KeepsEvents(lane[c], l)
    BY <2>2 DEF GoodLane, KeepsEvents, Lane
  <2>5. Looked(c, TRUE, task[c].confirmed, l)
    BY <2>1 DEF s
  <2> HIDE DEF l
  <2> QED BY <1>1, <2>4, <2>5, LookedStep
<1> QED BY <1>2, <1>3, <1>4

LEMMA OcrEndStep ==
  ASSUME IInv, NEW c \in Cameras, OcrUnread(c) \/ OcrRead(c)
  PROVE  IInv'
<1>1. /\ task[c].pc \in InCall /\ task[c].confirmed \in Nat
      /\ GoodLane(lane[c]) /\ KeepsEvents(lane[c], lane[c])
  BY StepFacts DEF OcrUnread, OcrRead, Working, InCall, Task
<1>2. CASE OcrUnread(c)
  <2>1. PICK l \in {lane[c], Seen(lane[c], FALSE)} : Looked(c, TRUE, task[c].confirmed, l)
    BY <1>2 DEF OcrUnread
  <2>2. GoodLane(l) /\ KeepsEvents(lane[c], l)
    BY <1>1, SeenGood
  <2> QED BY <1>1, <2>1, <2>2, LookedStep
<1>3. CASE OcrRead(c)
  <2> DEFINE l == Seen(lane[c], TRUE)
  <2>1. GoodLane(l) /\ KeepsEvents(lane[c], l)
    BY <1>1, SeenGood
  <2>2. l.visit.id \in Nat
    BY <2>1 DEF GoodLane, Lane, Visit
  <2> HIDE DEF l
  <2>3. PICK confirmed \in Nat : Looked(c, TRUE, confirmed, l)
    BY <1>1, <1>3, <2>2 DEF OcrRead, l
  <2> QED BY <1>1, <2>1, <2>3, LookedStep
<1> QED BY <1>2, <1>3

(* A reading begins, or its event is to be written. *)
LEMMA OcrBeginStep ==
  ASSUME IInv, NEW c \in Cameras, LocateReady(c) \/ OcrDecided(c)
  PROVE  IInv'
<1>1. PICK plate \in BOOLEAN : lane' = [lane EXCEPT ![c] = Seen(lane[c], plate)]
  BY DEF LocateReady, OcrDecided
<1> DEFINE l == Seen(lane[c], plate)
<1>2. GoodLane(l) /\ KeepsEvents(lane[c], l) /\ l.visit.id # 0
  BY SeenGood, StepFacts
<1> HIDE DEF l
<1>3. lane' \in [Cameras -> Lane] /\ lane'[c] = l /\ \A d \in Cameras \ {c} : lane'[d] = lane[d]
  BY <1>1, <1>2, StepFacts DEF GoodLane, l
<1>4. CASE LocateReady(c)
  <2>1. task' \in [Cameras -> Task] /\ task'[c].pc = "ocr" /\ c \in held
        /\ \A d \in Cameras \ {c} : task'[d] = task[d]
    BY <1>4, StepFacts DEF LocateReady, Working, Task, Places, InCall
  <2>2. Typed
    BY <1>3, <1>4, <2>1, StepFacts DEF LocateReady, Typed, TypeOK
  <2>3. SlotsOf(c) /\ Others(c)
    BY <1>3, <1>4, <2>1 DEF SlotsOf, InCall, LocateReady, Others
  <2> QED BY <1>2, <1>3, <1>4, <2>2, <2>3, QuietStep DEF LocateReady
<1>5. CASE OcrDecided(c)
  <2>1. task' \in [Cameras -> Task] /\ task'[c].pc = "publish"
        /\ \A d \in Cameras \ {c} : task'[d] = task[d]
    <3>1. /\ task \in [Cameras -> Task] /\ task[c] \in Task
          /\ task' = [task EXCEPT ![c].pc = "publish", ![c].recent = TRUE]
      BY <1>5, StepFacts DEF OcrDecided
    <3>2. [task[c] EXCEPT !.pc = "publish", !.recent = TRUE] \in Task
      BY <3>1 DEF Task, Places
    <3> QED BY <3>1, <3>2
  <2>2. held' = held \ {c} /\ waiting' \in Seq(Cameras)
    BY <1>5, ReleaseType, StepFacts DEF OcrDecided
  <2>3. Typed
    BY <1>3, <1>5, <2>1, <2>2, StepFacts DEF OcrDecided, Typed, TypeOK
  <2>4. SlotsOf(c) /\ Others(c)
    BY <1>3, <2>1, <2>2 DEF SlotsOf, InCall, Others
  <2> QED BY <1>2, <1>3, <1>5, <2>3, <2>4, QuietStep DEF OcrDecided
<1> QED BY <1>4, <1>5

(* The stall time, its consequences, and the end of a drained call. *)
LEMMA StallStep ==
  ASSUME IInv, NEW c \in Cameras,
         \/ PublishFails(c) \/ Elapse(c) \/ OcrTimeout(c) \/ DrainDone(c)
         \/ RetireStalled(c) \/ RetireEdited(c)
  PROVE  IInv'
<1>1. /\ TypeOK /\ task \in [Cameras -> Task] /\ task[c] \in Task /\ waiting \in Seq(Cameras)
      /\ stray \in [Cameras -> Nat] /\ disturbed \in Nat
  BY StepFacts DEF TypeOK
<1>2. CASE PublishFails(c) \/ DrainDone(c)
  <2> DEFINE t == [task[c] EXCEPT !.pc = "idle"]
  <2>1. t \in Task /\ t.pc = "idle" /\ c \notin held
    BY <1>1, <1>2, StepFacts DEF PublishFails, DrainDone, Working, Task, Places, InCall
  <2>2. task' = [task EXCEPT ![c] = t]
    BY <1>1, <1>2 DEF PublishFails, DrainDone
  <2> HIDE DEF t
  <2> QED BY <1>1, <1>2, <2>1, <2>2, TaskStep DEF PublishFails, DrainDone, InCall
<1>3. CASE Elapse(c)
  <2> DEFINE t == [task[c] EXCEPT !.recent = FALSE]
  <2>1. t \in Task /\ t.pc = task[c].pc /\ t.retired = task[c].retired
    BY <1>1 DEF Task
  <2>2. task' = [task EXCEPT ![c] = t]
    BY <1>1, <1>3 DEF Elapse
  <2> HIDE DEF t
  <2> QED BY <1>1, <1>3, <2>1, <2>2, TaskStep, StepFacts DEF Elapse
<1>4. CASE OcrTimeout(c)
  <2> DEFINE t == [task[c] EXCEPT !.pc = "drain"]
  <2>1. t \in Task /\ t.pc = "drain"
    BY <1>1 DEF Task, Places
  <2>2. task' = [task EXCEPT ![c] = t] /\ held' = held \ {c} /\ waiting' \in Seq(Cameras)
    BY <1>1, <1>4, ReleaseType DEF OcrTimeout
  <2> HIDE DEF t
  <2> QED BY <1>1, <1>4, <2>1, <2>2, TaskStep DEF OcrTimeout, InCall
<1>5. CASE RetireStalled(c)
  <2> DEFINE t == [task[c] EXCEPT !.retired = TRUE]
  <2>1. t \in Task /\ t.pc = task[c].pc /\ t.retired
    BY <1>1 DEF Task
  <2>2. task' = [task EXCEPT ![c] = t] /\ held' = held \ {c} /\ waiting' \in Seq(Cameras)
    BY <1>1, <1>5, ReleaseType DEF RetireStalled
  <2> HIDE DEF t
  <2> QED BY <1>1, <1>5, <2>1, <2>2, TaskStep DEF RetireStalled
<1>6. CASE RetireEdited(c)
  <2> DEFINE t == [task[c] EXCEPT !.retired = TRUE]
  <2>1. t \in Task /\ t.pc = task[c].pc /\ t.retired
    BY <1>1 DEF Task
  <2>2. task' = [task EXCEPT ![c] = t] /\ disturbed' \in Nat
    BY <1>1, <1>6 DEF RetireEdited
  <2> HIDE DEF t
  <2> QED BY <1>1, <1>6, <2>1, <2>2, TaskStep, StepFacts DEF RetireEdited
<1> QED BY <1>2, <1>3, <1>4, <1>5, <1>6

(* The event is queued, by a task that goes on or by one that is replaced. *)
LEMMA EventQueued ==
  ASSUME IInv, NEW c \in Cameras, Others(c), outbox' = Queued(EventOf(c)),
         lane'[c].visit.id = lane[c].visit.id
  PROVE  EventInv' /\ outbox' \in Seq(Event)
<1>1. EventOf(c) \in Event
  BY StepFacts DEF EventOf, Event, GoodLane, Lane, Visit
<1>2. outbox \in Seq(Event) /\ OneEventPerVisit /\ MarkedIsQueued
  BY DEF IInv, TypeOK, EventInv
<1>3. /\ outbox' \in Seq(Event) /\ ToSet(outbox) \subseteq ToSet(outbox')
      /\ EventOf(c) \in ToSet(outbox')
      /\ \A i, j \in DOMAIN outbox' : outbox'[i] = outbox'[j] => i = j
  <2> HIDE DEF OneEventPerVisit
  <2> QED BY <1>1, <1>2, QueuedEvent
<1>4. ASSUME NEW d \in Cameras, lane'[d].visit.published
      PROVE  [camera |-> d, visit |-> lane'[d].visit.id] \in ToSet(outbox')
  <2>1. CASE d = c
    BY <1>3, <2>1 DEF EventOf
  <2>2. CASE d # c
    <3>1. lane'[d] = lane[d]
      BY <2>2 DEF Others
    <3> QED BY <1>2, <1>3, <1>4, <3>1 DEF MarkedIsQueued, EventOf
  <2> QED BY <2>1, <2>2
<1> QED BY <1>3, <1>4 DEF EventInv, OneEventPerVisit, MarkedIsQueued, EventOf

LEMMA PublishStep ==
  ASSUME IInv, NEW c \in Cameras, Publish(c)
  PROVE  IInv'
<1>1. task[c].pc = "publish" /\ c \notin held /\ lane[c].visit.id # 0
  BY StepFacts DEF Publish, Working, InCall
<1> DEFINE l == lane[c]
           v == [l.visit EXCEPT !.state = "EVENT_PUBLISHED", !.published = TRUE]
           m == [l EXCEPT !.visit = v, !.settled = TRUE]
<1>2. l \in Lane /\ l.visit \in Visit
  BY StepFacts DEF Lane
<1>3. lane' = [lane EXCEPT ![c] = m]
  BY <1>2, StepFacts DEF Publish, MarkPublished
<1>4. v \in Visit /\ v.id = l.visit.id /\ v.state = "EVENT_PUBLISHED"
  BY <1>2 DEF Visit, VisitStates
<1> HIDE DEF v
<1>5. m \in Lane /\ m.visit = v
  BY <1>2, <1>4 DEF Lane
<1>6. GoodLane(m) /\ m.visit.id = l.visit.id
  BY <1>1, <1>4, <1>5 DEF GoodLane
<1> HIDE DEF m
<1>7. /\ lane' \in [Cameras -> Lane] /\ lane'[c] = m
      /\ \A d \in Cameras \ {c} : lane'[d] = lane[d]
  BY <1>3, <1>5, StepFacts
<1>8. /\ task' \in [Cameras -> Task] /\ task'[c].pc = "idle"
      /\ \A d \in Cameras \ {c} : task'[d] = task[d]
  BY <1>2, StepFacts DEF Publish, Task, Places, Visit
<1>9. Others(c)
  BY <1>7, <1>8 DEF Others
<1>10. EventInv' /\ outbox' \in Seq(Event)
  BY <1>6, <1>7, <1>9, EventQueued DEF Publish
<1>11. Typed
  BY <1>7, <1>8, StepFacts DEF Publish, Typed, TypeOK
<1>12. SlotInv'
  BY <1>1, <1>8, <1>9, <1>11, StepFacts, StepKeepsSlots DEF Publish, SlotsOf, InCall, IInv
<1>13. VisitInv'
  BY <1>6, <1>7, <1>8, <1>9, StepKeepsVisits DEF IInv
<1>14. TypeOK'
  BY <1>10, <1>11 DEF Typed, TypeOK
<1> QED BY <1>10, <1>12, <1>13, <1>14 DEF IInv

LEMMA CloseStep ==
  ASSUME IInv, NEW c \in Cameras, Close(c)
  PROVE  IInv'
<1>1. NoTask \in Task /\ NoTask.pc = "none"
  BY DEF NoTask, Task, Places
<1>2. /\ task' \in [Cameras -> Task] /\ task'[c].pc = "none"
      /\ \A d \in Cameras \ {c} : task'[d] = task[d]
  BY <1>1, StepFacts DEF Close
<1>3. Others(c) /\ lane' = lane
  BY <1>2 DEF Others, Close
<1>4. held' = held \ {c} /\ waiting' \in Seq(Cameras)
  BY ReleaseType, StepFacts DEF Close
<1>5. stray' \in [Cameras -> Nat]
  BY StepFacts DEF Close, TypeOK
<1>6. Typed
  BY <1>2, <1>3, <1>4, <1>5, StepFacts DEF Close, Typed, TypeOK
<1>7. SlotsOf(c)
  BY <1>2, <1>4 DEF SlotsOf, InCall
<1>8. CASE outbox' = outbox
  BY <1>2, <1>3, <1>6, <1>7, <1>8, QuietStep, StepFacts
<1>9. CASE outbox' = Queued(EventOf(c))
  <2>1. EventInv' /\ outbox' \in Seq(Event)
    BY <1>3, <1>9, EventQueued
  <2>2. TypeOK'
    BY <1>6, <2>1 DEF Typed, TypeOK
  <2>3. SlotInv'
    BY <1>3, <1>6, <1>7, StepFacts, StepKeepsSlots DEF IInv
  <2>4. VisitInv'
    BY <1>2, <1>3, StepFacts, StepKeepsVisits DEF IInv
  <2> QED BY <2>1, <2>2, <2>3, <2>4 DEF IInv
<1> QED BY <1>8, <1>9 DEF Close

(* The outside: abandoned calls and lost streams. *)
LEMMA OutsideStep ==
  ASSUME IInv, NEW c \in Cameras, StrayReturns(c) \/ DecoderDies(c)
  PROVE  IInv'
<1>1. UNCHANGED <<task, lane, held, waiting, outbox>>
  BY DEF StrayReturns, DecoderDies
<1>2. stray' \in [Cameras -> Nat] /\ alive' \subseteq Cameras /\ disturbed' \in Nat
  <2>1. stray \in [Cameras -> Nat] /\ alive \subseteq Cameras /\ disturbed \in Nat
    BY StepFacts DEF TypeOK
  <2>2. CASE StrayReturns(c)
    BY <2>1, <2>2 DEF StrayReturns
  <2>3. CASE DecoderDies(c)
    BY <2>1, <2>3 DEF DecoderDies
  <2> QED BY <2>2, <2>3
<1>3. TypeOK'
  BY <1>1, <1>2 DEF IInv, TypeOK
<1>4. VisitInv' /\ SlotInv' /\ EventInv'
  BY <1>1 DEF IInv, VisitInv, SlotInv, SlotHasCall, EventInv, OneEventPerVisit, MarkedIsQueued, EventOf
<1> QED BY <1>3, <1>4 DEF IInv

LEMMA NewLaneGood ==
  \A n \in Nat : GoodLane(NewLane(n)) /\ ~NewLane(n).visit.published
BY DEF GoodLane, NewLane, NoVisit, Lane, Visit, VisitStates

LEMMA CrashStep ==
  ASSUME IInv, Crash
  PROVE  IInv'
<1>1. \A c \in Cameras : lane[c].born \in Nat
  BY DEF IInv, TypeOK, Lane
<1>2. \A c \in Cameras : lane'[c] = NewLane(lane[c].born) /\ task'[c] = NoTask
  BY DEF Crash
<1>3. NoTask \in Task /\ NoTask.pc = "none"
  BY DEF NoTask, Task, Places
<1>4. VisitInv'
  BY <1>1, <1>2, <1>3, NewLaneGood DEF VisitInv
<1>5. TypeOK'
  <2>1. lane' \in [Cameras -> Lane] /\ task' \in [Cameras -> Task]
    BY <1>1, <1>3, NewLaneGood DEF Crash, GoodLane
  <2>2. waiting' \in Seq(Cameras) /\ disturbed' \in Nat
    BY EmptySeq, BoundsAssumption DEF Crash, IInv, TypeOK
  <2> QED BY <2>1, <2>2 DEF Crash, IInv, TypeOK
<1>6. SlotInv'
  BY <1>2, <1>3, FS_EmptySet, BoundsAssumption DEF Crash, SlotInv, SlotHasCall, InCall
<1>7. EventInv'
  <2>1. \A c \in Cameras : ~lane'[c].visit.published
    BY <1>1, <1>2, NewLaneGood
  <2> QED BY <2>1 DEF Crash, IInv, EventInv, OneEventPerVisit, MarkedIsQueued
<1> QED BY <1>4, <1>5, <1>6, <1>7 DEF IInv

-----------------------------------------------------------------------------
(* The invariant *)

LEMMA InitInv == Init => IInv
<1> SUFFICES ASSUME Init PROVE IInv
  OBVIOUS
<1>1. NoTask \in Task /\ NoTask.pc = "none"
  BY DEF NoTask, Task, Places
<1>2. VisitInv
  BY <1>1, NewLaneGood DEF Init, VisitInv
<1>3. TypeOK
  BY <1>1, NewLaneGood, EmptySeq DEF Init, TypeOK, GoodLane
<1>4. SlotInv
  BY <1>1, FS_EmptySet, BoundsAssumption DEF Init, SlotInv, SlotHasCall, InCall
<1>5. EventInv
  BY NewLaneGood DEF Init, EventInv, OneEventPerVisit, MarkedIsQueued
<1> QED BY <1>2, <1>3, <1>4, <1>5 DEF IInv

LEMMA NextInv == IInv /\ [Next]_vars => IInv'
<1> SUFFICES ASSUME IInv, [Next]_vars PROVE IInv'
  OBVIOUS
<1>1. CASE UNCHANGED vars
  BY <1>1 DEF vars, IInv, TypeOK, VisitInv, SlotInv, SlotHasCall, EventInv,
              OneEventPerVisit, MarkedIsQueued, EventOf
<1>2. CASE Crash
  BY <1>2, CrashStep
<1>3. ASSUME NEW c \in Cameras,
             \/ Frame(c) \/ Poll(c) \/ CallReturns(c) \/ Publishes(c)
             \/ Elapse(c) \/ OcrTimeout(c) \/ Supervise(c) \/ RetireEdited(c)
             \/ Close(c) \/ StrayReturns(c) \/ DecoderDies(c)
      PROVE  IInv'
  BY <1>3, FrameStep, PollQueuedStep, PollServedStep, ProbeStep, LocateStep, OcrEndStep,
     OcrBeginStep, StallStep, PublishStep, CloseStep, OutsideStep, StartStep
     DEF Poll, CallReturns, Publishes, Supervise
<1> QED BY <1>1, <1>2, <1>3 DEF Next

LEMMA Invariance == Spec => []IInv
BY InitInv, NextInv, PTL DEF Spec

(* The worker's state is well typed.                                       *)
THEOREM TypeCorrect == Spec => []TypeOK
<1>1. IInv => TypeOK
  BY DEF IInv
<1> QED BY <1>1, Invariance, PTL

(* No slot leaks: a camera that holds one has a call running, whatever     *)
(* timed out, raised or was replaced before.                               *)
THEOREM NoSlotLeaks == Spec => []SlotHasCall
<1>1. IInv => SlotHasCall
  BY DEF IInv, SlotInv
<1> QED BY <1>1, Invariance, PTL

(* The calls that tasks wait for never exceed the scheduler's limit.       *)
THEOREM CallsWithinLimit == Spec => []AwaitedWithinLimit
<1>1. ASSUME IInv PROVE AwaitedWithinLimit
  <2> DEFINE S == {c \in Cameras : task[c].pc \in InCall /\ ~task[c].retired}
  <2>1. S \subseteq held /\ IsFiniteSet(held)
    BY <1>1, CamerasAssumption, FS_Subset DEF IInv, TypeOK, SlotInv
  <2>2. Cardinality(S) <= Cardinality(held) /\ Cardinality(S) \in Nat /\ Cardinality(held) \in Nat
    BY <2>1, FS_Subset, FS_CardinalityType
  <2>3. Cardinality(held) <= MaxConcurrency /\ MaxConcurrency \in Nat
    BY <1>1, BoundsAssumption DEF IInv, SlotInv
  <2> QED BY <2>2, <2>3 DEF AwaitedWithinLimit
<1> QED BY <1>1, Invariance, PTL

(* A visit yields at most one event, across replaced tasks and crashes.    *)
THEOREM EventOnce == Spec => []OneEventPerVisit
<1>1. IInv => OneEventPerVisit
  BY DEF IInv, EventInv
<1> QED BY <1>1, Invariance, PTL

(* A visit that counts as published has its event in the queue.            *)
THEOREM PublishedIsQueued == Spec => []MarkedIsQueued
<1>1. IInv => MarkedIsQueued
  BY DEF IInv, EventInv
<1> QED BY <1>1, Invariance, PTL

(* The arrival gate holds only while there is a visit.                     *)
THEOREM SettledVisit == Spec => []SettledHasVisit
<1>1. IInv => SettledHasVisit
  BY DEF IInv, VisitInv, GoodLane, SettledHasVisit
<1> QED BY <1>1, Invariance, PTL
=============================================================================

------------------------ MODULE MediaGateway_proofs ------------------------
(***************************************************************************)
(* What the live video of a camera keeps, for any panes, time limits and   *)
(* reconnect delays, any camera and any order of the tasks and watchers.   *)
(***************************************************************************)
EXTENDS MediaGateway, FiniteSetTheorems, TLAPS

-----------------------------------------------------------------------------
(* Times and counts *)

LEMMA OldestIsLargest ==
  ASSUME NEW S, \A x \in S : x \in Nat, \E x \in S : \A y \in S : y <= x
  PROVE  Oldest(S) \in Nat /\ \A y \in S : y \in 0 .. Oldest(S)
BY DEF Oldest

LEMMA Times ==
  /\ Stale \in Nat /\ Dead \in Nat /\ Idle \in Nat /\ Never \in Nat /\ Patience \in Nat
  /\ Dead < Never
  /\ \A w \in Waits : w \in 0 .. Oldest(Waits)
  /\ Oldest(Waits) \in Nat
<1>1. Oldest(Waits) \in Nat /\ \A w \in Waits : w \in 0 .. Oldest(Waits)
  BY TimesAssumption, OldestIsLargest
<1> DEFINE S == {Stale, OpenLimit, ReadTimeout}
<1>2. \E x \in S : \A y \in S : y <= x
  BY TimesAssumption
<1>3. \A x \in S : x \in Nat
  BY TimesAssumption
<1>4. Patience \in Nat
  <2> HIDE DEF S
  <2>1. Oldest(S) \in Nat
    BY <1>2, <1>3, OldestIsLargest
  <2> QED BY <2>1 DEF Patience, S
<1> QED BY <1>1, <1>4, TimesAssumption DEF Never

LEMMA PanesCounted ==
  ASSUME NEW panes
  PROVE  Viewers(panes) \in 0 .. Cardinality(Clients)
<1> DEFINE here == {c \in Clients : panes[c] # "away"}
<1>1. IsFiniteSet(Clients) /\ here \subseteq Clients
  BY ModesAssumption
<1>2. IsFiniteSet(here) /\ Cardinality(here) <= Cardinality(Clients)
  BY <1>1, FS_Subset
<1>3. Cardinality(here) \in Nat /\ Cardinality(Clients) \in Nat
  BY <1>1, <1>2, FS_CardinalityType
<1> QED BY <1>2, <1>3 DEF Viewers

-----------------------------------------------------------------------------
(* The session and the producer tasks *)

Works(j, t) == j[t].at \notin {"none", "closing"}
Runs(j, t) == Works(j, t) /\ ~j[t].astray

(* The task that runs, and is not astray, is the one the session has registered. *)
GoodPair(g, j) ==
  /\ g \in Session /\ j \in [Tasks -> Job]
  /\ \A t \in Tasks : Runs(j, t) => g.producer = t

SurroundingsOK ==
  /\ kind \in Kinds /\ ocr \in BOOLEAN /\ http \in BOOLEAN /\ mtx \in BOOLEAN
  /\ camera \in {"up", "still", "down"}
  /\ ocr \in OcrModes
  /\ client \in [Clients -> Panes]
  /\ route \in [Clients -> Route]
  /\ reader \in Consumer /\ sampler \in Consumer
  /\ due \subseteq {"stale", "poll"}
  /\ arrivals \in 0 .. MaxArrivals /\ changes \in 0 .. MaxChanges

IInv == SurroundingsOK /\ GoodPair(gw, job)

LEMMA IInvIsBoth == IInv <=> TypeOK /\ OneProducer
BY ModesAssumption DEF IInv, SurroundingsOK, GoodPair, TypeOK, OneProducer, Running, Runs, Works

Specs == [need : BOOLEAN, role : Roles]

LEMMA SpecType ==
  ASSUME NEW need \in BOOLEAN, NEW role \in Roles
  PROVE  Spec(need, role) \in Specs /\ Spec(need, role).need = need
BY DEF Spec, Specs

LEMMA SessionForType ==
  ASSUME NEW g \in Session, NEW spec \in Specs
  PROVE  /\ SessionFor(g, spec) \in Session
         /\ SessionFor(g, spec).producer = g.producer
         /\ SessionFor(g, spec).viewers = g.viewers
         /\ SessionFor(g, spec).detect = g.detect
<1> DEFINE a == [g EXCEPT !.open = TRUE]
           b == [a EXCEPT !.need = spec.need]
           d == [b EXCEPT !.role = spec.role]
<1>1. spec.need \in BOOLEAN /\ spec.role \in Roles
  BY DEF Specs
<1>2. /\ a \in Session /\ a.producer = g.producer
      /\ a.viewers = g.viewers /\ a.detect = g.detect
  BY DEF Session
<1> HIDE DEF a
<1>3. /\ b \in Session /\ b.producer = g.producer
      /\ b.viewers = g.viewers /\ b.detect = g.detect
  BY <1>1, <1>2 DEF Session
<1> HIDE DEF b
<1>4. /\ d \in Session /\ d.producer = g.producer
      /\ d.viewers = g.viewers /\ d.detect = g.detect
  BY <1>1, <1>3 DEF Session
<1>5. SessionFor(g, spec) = d
  BY Zenon DEF SessionFor, d, b, a
<1> QED BY <1>4, <1>5

LEMMA NewTasks ==
  /\ NoTask \notin Tasks
  /\ NoJob \in Job /\ NoJob.at = "none"
  /\ \A stage \in Stages :
       /\ Begun(stage) \in Job /\ Begun(stage).at = stage /\ ~Begun(stage).astray
<1>1. 0 \in 0 .. Patience /\ 0 \notin 1 .. 2 + MaxArrivals
  BY Times, BoundsAssumption
<1>2. \A stage \in Stages :
        /\ Begun(stage) \in Job /\ Begun(stage).at = stage /\ ~Begun(stage).astray
  BY <1>1 DEF Begun, Job
<1>3. "none" \in Stages
  BY DEF Stages
<1> QED BY <1>1, <1>2, <1>3 DEF NoTask, Tasks, NoJob

(* Cancelling a task leaves the others as they are. *)
LEMMA CancelledType ==
  ASSUME NEW j \in [Tasks -> Job], NEW p \in Tasks \cup {NoTask}
  PROVE  /\ Cancelled(j, p) \in [Tasks -> Job]
         /\ \A t \in Tasks : Runs(Cancelled(j, p), t) => Runs(j, t) /\ t # p
<1> DEFINE n == IF j[p].at = "ready" THEN NoJob ELSE Begun("closing")
<1>1. n \in Job /\ n.at \in {"none", "closing"}
  BY NewTasks DEF Stages
<1>2. Cancelled(j, p) = IF p = NoTask \/ j[p].at = "none" THEN j ELSE [j EXCEPT ![p] = n]
  BY Zenon DEF Cancelled
<1> HIDE DEF n
<1>3. CASE p = NoTask \/ j[p].at = "none"
  <2>1. Cancelled(j, p) = j
    BY <1>2, <1>3
  <2>2. ASSUME NEW t \in Tasks, Runs(j, t)
        PROVE  t # p
    BY <1>3, <2>2, NewTasks DEF Runs, Works
  <2> QED BY <2>1, <2>2
<1>4. CASE ~(p = NoTask \/ j[p].at = "none")
  <2>1. p \in Tasks /\ Cancelled(j, p) = [j EXCEPT ![p] = n]
    BY <1>2, <1>4
  <2> DEFINE k == [j EXCEPT ![p] = n]
  <2>2. /\ k \in [Tasks -> Job] /\ k[p] = n
        /\ \A t \in Tasks : t # p => k[t] = j[t]
    BY <1>1, <2>1
  <2> HIDE DEF k
  <2>3. ASSUME NEW t \in Tasks, Runs(k, t)
        PROVE  Runs(j, t) /\ t # p
    BY <1>1, <2>2, <2>3 DEF Runs, Works
  <2> QED BY <2>1, <2>2, <2>3 DEF k
<1> QED BY <1>3, <1>4

(* The registered task is cancelled: none but those astray runs any more. *)
LEMMA CancelledGood ==
  ASSUME NEW g, NEW j, GoodPair(g, j)
  PROVE  /\ Cancelled(j, g.producer) \in [Tasks -> Job]
         /\ \A t \in Tasks : ~Runs(Cancelled(j, g.producer), t)
<1>1. g.producer \in Tasks \cup {NoTask} /\ j \in [Tasks -> Job]
  BY DEF GoodPair, Session
<1>2. \A t \in Tasks : Runs(j, t) => t = g.producer
  BY DEF GoodPair
<1> QED BY <1>1, <1>2, CancelledType

LEMMA InterruptedType ==
  ASSUME NEW j \in [Tasks -> Job]
  PROVE  /\ Interrupted(j) \in [Tasks -> Job]
         /\ \A t \in Tasks : Runs(Interrupted(j), t) => Runs(j, t)
<1>1. ASSUME NEW t \in Tasks
      PROVE  /\ Interrupted(j)[t] \in Job
             /\ Runs(Interrupted(j), t) => Runs(j, t)
  <2> DEFINE a == [j[t] EXCEPT !.at = "opening"]
             b == [a EXCEPT !.since = 0]
  <2>1. Interrupted(j)[t] = IF kind = "rtsp" /\ j[t].at = "live" THEN b ELSE j[t]
    BY Zenon DEF Interrupted, a, b
  <2>2. j[t] \in Job /\ "opening" \in Stages /\ 0 \in 0 .. Patience
    BY Times DEF Stages
  <2>3. a \in Job /\ a.astray = j[t].astray
    BY <2>2 DEF Job
  <2> HIDE DEF a
  <2>4. b \in Job /\ b.astray = j[t].astray
    BY <2>2, <2>3 DEF Job
  <2> HIDE DEF b
  <2> QED BY <2>1, <2>2, <2>4 DEF Runs, Works
<1>2. Interrupted(j) \in [Tasks -> Job]
  BY <1>1 DEF Interrupted
<1> QED BY <1>1, <1>2

LEMMA StopProducerIsGood ==
  ASSUME NEW g, GoodPair(g, job), StopProducer(g)
  PROVE  GoodPair(gw', job')
<1> DEFINE h == [g EXCEPT !.producer = NoTask]
           j == Cancelled(job, g.producer)
<1>1. g \in Session /\ gw' = h /\ job' = Interrupted(j)
  BY DEF GoodPair, StopProducer
<1>2. h \in Session
  BY <1>1 DEF Session
<1>3. j \in [Tasks -> Job] /\ \A t \in Tasks : ~Runs(j, t)
  BY CancelledGood
<1> HIDE DEF h, j
<1>4. Interrupted(j) \in [Tasks -> Job] /\ \A t \in Tasks : ~Runs(Interrupted(j), t)
  BY <1>3, InterruptedType
<1> QED BY <1>1, <1>2, <1>4 DEF GoodPair

LEMMA EnsureProducerIsGood ==
  ASSUME NEW g, GoodPair(g, job), NEW spec \in Specs, EnsureProducer(g, spec)
  PROVE  GoodPair(gw', job')
<1> DEFINE h == SessionFor(g, spec)
<1>1. h \in Session /\ h.producer = g.producer
  BY SessionForType DEF GoodPair
<1>2. CASE KeepsProducer(g, spec)
  <2>1. gw' = h /\ job' = job
    BY <1>2 DEF EnsureProducer
  <2> HIDE DEF h
  <2> QED BY <1>1, <2>1 DEF GoodPair
<1>3. CASE ~KeepsProducer(g, spec)
  <2> DEFINE j == Cancelled(job, g.producer)
             t == Unused(j)
             ready == Begun("ready")
             a == [h EXCEPT !.runs = spec.role]
             b == [a EXCEPT !.producer = t]
  <2>1. /\ Room(j) /\ job' = [j EXCEPT ![t] = ready]
        /\ gw' = [h EXCEPT !.runs = spec.role, !.producer = t]
    BY <1>3 DEF EnsureProducer
  <2>2. j \in [Tasks -> Job] /\ \A u \in Tasks : ~Runs(j, u)
    BY CancelledGood
  <2> HIDE DEF h, j
  <2>3. t \in Tasks
    BY <2>1 DEF Room, Unused, Free
  <2> HIDE DEF t
  <2>4. ready \in Job
    BY NewTasks DEF Stages
  <2>5. spec.role \in Roles
    BY DEF Specs
  <2>6. a \in Session
    BY <1>1, <2>5 DEF Session
  <2>7. gw' = b
    BY <2>1, Zenon
  <2> HIDE DEF a
  <2>8. b \in Session /\ b.producer = t
    BY <2>3, <2>6 DEF Session
  <2> HIDE DEF b, ready
  <2>9. job' \in [Tasks -> Job] /\ \A u \in Tasks : u # t => job'[u] = j[u]
    BY <2>1, <2>2, <2>4
  <2> QED BY <2>2, <2>7, <2>8, <2>9 DEF GoodPair, Runs, Works
<1> QED BY <1>2, <1>3

-----------------------------------------------------------------------------
(* The session's other fields *)

LEMMA SameProducer ==
  ASSUME NEW g, NEW j, GoodPair(g, j), NEW h \in Session, h.producer = g.producer
  PROVE  GoodPair(h, j)
BY DEF GoodPair

LEMMA ViewedType ==
  ASSUME NEW g \in Session, NEW n \in 0 .. Cardinality(Clients)
  PROVE  Viewed(g, n) \in Session /\ Viewed(g, n).producer = g.producer
<1> DEFINE a == [g EXCEPT !.viewers = n]
           b == [a EXCEPT !.view = 0]
<1>1. a \in Session /\ a.producer = g.producer
  BY DEF Session
<1> HIDE DEF a
<1>2. b \in Session /\ b.producer = g.producer
  BY <1>1, Times DEF Session
<1>3. Viewed(g, n) = b
  BY Zenon DEF Viewed, b, a
<1> QED BY <1>2, <1>3

LEMMA DetectType ==
  ASSUME NEW g \in Session, NEW d \in 0 .. 1
  PROVE  [g EXCEPT !.detect = d] \in Session /\ [g EXCEPT !.detect = d].producer = g.producer
BY DEF Session

LEMMA WaitType ==
  ASSUME NEW g \in Session, NEW w \in Waits
  PROVE  [g EXCEPT !.wait = w] \in Session /\ [g EXCEPT !.wait = w].producer = g.producer
BY Times DEF Session

LEMMA ReleasedDetectType ==
  ASSUME NEW g \in Session
  PROVE  ReleasedDetect(g) \in Session /\ ReleasedDetect(g).producer = g.producer
<1> DEFINE a == [g EXCEPT !.detect = 0]
           b == [a EXCEPT !.need = FALSE]
<1>1. a \in Session /\ a.producer = g.producer
  BY DEF Session
<1> HIDE DEF a
<1>2. b \in Session /\ b.producer = g.producer
  BY <1>1 DEF Session
<1>3. ReleasedDetect(g) = b
  BY Zenon DEF ReleasedDetect, b, a
<1> QED BY <1>2, <1>3

LEMMA ConsumerType ==
  ASSUME NEW k \in Consumer, NEW role \in Roles
  PROVE  Killed(k) \in Consumer /\ Starting(k, role) \in Consumer /\ NoConsumer \in Consumer
BY DEF Killed, Starting, NoConsumer, Consumer, Roles

LEMMA LargerType ==
  ASSUME NEW m \in 0 .. Cardinality(Clients), NEW n \in 0 .. Cardinality(Clients)
  PROVE  Larger(m, n) \in 0 .. Cardinality(Clients)
BY DEF Larger

LEMMA ReleaseDetectIsGood ==
  ASSUME GoodPair(gw, job), ReleaseDetect(gw)
  PROVE  GoodPair(gw', job')
<1> DEFINE h == ReleasedDetect(gw)
<1>1. GoodPair(h, job)
  BY ReleasedDetectType, SameProducer DEF GoodPair
<1>2. CASE StopsOnRelease(gw)
  <2>1. StopProducer(h)
    BY <1>2 DEF ReleaseDetect
  <2> HIDE DEF h
  <2> QED BY <1>1, <2>1, StopProducerIsGood
<1>3. CASE ~StopsOnRelease(gw)
  <2>1. job' = job /\ (gw' = h \/ gw' = gw)
    BY <1>3 DEF ReleaseDetect
  <2> HIDE DEF h
  <2> QED BY <1>1, <2>1
<1> QED BY <1>2, <1>3

LEMMA RestartDecoderIsGood ==
  ASSUME NEW g, GoodPair(g, job), reader \in Consumer, sampler \in Consumer, RestartDecoder(g)
  PROVE  GoodPair(gw', job') /\ reader' \in Consumer /\ sampler' \in Consumer
<1>1. CASE ~g.open \/ g.wait > 0
  <2>1. gw' = g /\ UNCHANGED <<job, reader, sampler>>
    BY <1>1 DEF RestartDecoder
  <2> QED BY <2>1
<1>2. CASE ~(~g.open \/ g.wait > 0)
  <2>1. /\ \E w \in Waits : StopProducer([g EXCEPT !.wait = w])
        /\ reader' = Killed(reader) /\ sampler' = Killed(sampler)
    BY <1>2 DEF RestartDecoder
  <2>2. PICK w \in Waits : StopProducer([g EXCEPT !.wait = w])
    BY <2>1
  <2> DEFINE h == [g EXCEPT !.wait = w]
  <2>3. GoodPair(h, job)
    BY WaitType, SameProducer DEF GoodPair
  <2>4. StopProducer(h)
    BY <2>2
  <2> HIDE DEF h
  <2>5. GoodPair(gw', job')
    BY <2>3, <2>4, StopProducerIsGood
  <2>6. "LIVE" \in Roles
    BY DEF Roles
  <2> QED BY <2>1, <2>5, <2>6, ConsumerType
<1> QED BY <1>1, <1>2

-----------------------------------------------------------------------------
(* The operators' panes *)

LEMMA PumpedIsGood ==
  ASSUME GoodPair(gw, job), NEW spec \in Specs, NEW n \in 0 .. Cardinality(Clients)
  PROVE  GoodPair(Pumped(spec, n), job)
<1> DEFINE a == SessionFor(gw, spec)
           m == Larger(gw.viewers, n)
           b == Viewed(a, m)
           d == IF spec.need THEN 1 ELSE b.detect
           e == [b EXCEPT !.detect = d]
<1>1. gw \in Session
  BY DEF GoodPair
<1>2. m \in 0 .. Cardinality(Clients)
  BY <1>1, LargerType DEF Session
<1>3. a \in Session /\ a.producer = gw.producer
  BY <1>1, SessionForType
<1>4. Pumped(spec, n) = e
  BY Zenon DEF Pumped, a, m, b, d, e
<1> HIDE DEF a, m
<1>5. b \in Session /\ b.producer = gw.producer
  BY <1>2, <1>3, ViewedType
<1> HIDE DEF b
<1>6. d \in 0 .. 1
  BY <1>5 DEF Session
<1> HIDE DEF d
<1>7. GoodPair(e, job)
  BY <1>5, <1>6, DetectType, SameProducer
<1> HIDE DEF e
<1> QED BY <1>4, <1>7

LEMMA StartLivePumpIsGood ==
  ASSUME GoodPair(gw, job), NEW spec \in Specs, NEW n \in 0 .. Cardinality(Clients),
         StartLivePump(spec, n)
  PROVE  GoodPair(gw', job')
BY PumpedIsGood, EnsureProducerIsGood DEF StartLivePump

LEMMA EnsureMjpegSourceIsGood ==
  ASSUME GoodPair(gw, job), reader \in Consumer, sampler \in Consumer, kind \in {"sdk", "rtsp"},
         mtx \in BOOLEAN,
         NEW spec \in Specs, NEW n \in 0 .. Cardinality(Clients), EnsureMjpegSource(spec, n)
  PROVE  GoodPair(gw', job') /\ reader' \in Consumer /\ sampler' \in Consumer
<1>0. gw \in Session /\ spec.role \in Roles
  BY DEF GoodPair, Specs
<1>1. CASE kind = "sdk"
  <2> DEFINE a == SessionFor(gw, spec)
             m == Larger(gw.viewers, n)
             b == Viewed(a, m)
  <2>1. EnsureProducer(b, spec) /\ UNCHANGED <<reader, sampler>>
    BY <1>1 DEF EnsureMjpegSource
  <2>2. m \in 0 .. Cardinality(Clients)
    BY <1>0, LargerType DEF Session
  <2>3. a \in Session /\ a.producer = gw.producer
    BY <1>0, SessionForType
  <2> HIDE DEF a, m
  <2>4. GoodPair(b, job)
    BY <2>2, <2>3, ViewedType, SameProducer
  <2> HIDE DEF b
  <2> QED BY <2>1, <2>4, EnsureProducerIsGood
<1>2. CASE kind = "rtsp" /\ Alive(gw)
  <2>1. gw' = Viewed(gw, n) /\ UNCHANGED <<job, reader, sampler>>
    BY <1>2 DEF EnsureMjpegSource
  <2> QED BY <1>0, <2>1, ViewedType, SameProducer
<1>3. CASE kind = "rtsp" /\ ~Alive(gw) /\ mtx
  <2>1. reader' = Starting(reader, spec.role) /\ UNCHANGED <<gw, job, sampler>>
    BY <1>3 DEF EnsureMjpegSource
  <2> QED BY <1>0, <2>1, ConsumerType
<1>4. CASE kind = "rtsp" /\ ~Alive(gw) /\ ~mtx
  <2>1. StartLivePump(spec, n) /\ UNCHANGED <<reader, sampler>>
    BY <1>4 DEF EnsureMjpegSource
  <2> QED BY <2>1, StartLivePumpIsGood
<1> QED BY <1>1, <1>2, <1>3, <1>4

LEMMA PaneSpec ==
  ASSUME IInv, NEW c \in Clients
  PROVE  Spec(ocr, RoleOf[c]) \in Specs /\ RoleOf[c] \in Roles /\ kind \in {"sdk", "rtsp"}
<1>1. RoleOf[c] \in Roles /\ kind \in {"sdk", "rtsp"} /\ ocr \in BOOLEAN
  BY ModesAssumption DEF IInv, SurroundingsOK, Roles
<1> QED BY <1>1, SpecType

(* What a step of a pane leaves to show: the session and the consumers. *)
LEMMA PaneStep ==
  ASSUME IInv, UNCHANGED <<surroundings, due>>,
         client' \in [Clients -> Panes], arrivals' \in 0 .. MaxArrivals,
         route' \in [Clients -> Route],
         GoodPair(gw', job'), reader' \in Consumer, sampler' \in Consumer
  PROVE  IInv'
BY DEF IInv, SurroundingsOK, GoodPair, surroundings, Runs, Works

LEMMA OpenHolds ==
  ASSUME IInv, NEW c \in Clients, Open(c)
  PROVE  IInv'
<1>1. /\ UNCHANGED <<surroundings, due>>
      /\ client' \in [Clients -> Panes] /\ arrivals' \in 0 .. MaxArrivals
      /\ route' \in [Clients -> Route]
  BY BoundsAssumption DEF Open, Arrives, IInv, SurroundingsOK, Panes
<1>2. EnsureMjpegSource(Spec(ocr, RoleOf[c]), Viewers(client'))
  BY DEF Open
<1>3. /\ GoodPair(gw, job) /\ reader \in Consumer /\ sampler \in Consumer
      /\ mtx \in BOOLEAN
  BY DEF IInv, SurroundingsOK
<1>4. Viewers(client') \in 0 .. Cardinality(Clients)
  BY PanesCounted
<1>5. GoodPair(gw', job') /\ reader' \in Consumer /\ sampler' \in Consumer
  BY <1>2, <1>3, <1>4, PaneSpec, EnsureMjpegSourceIsGood
<1> QED BY <1>1, <1>5, PaneStep

LEMMA RouteType ==
  /\ NoRoute \in Route /\ Past \in Route
  /\ \A t \in Tasks \cup {NoTask} : [at |-> "found", existing |-> t] \in Route
BY DEF NoRoute, Past, Route

LEMMA WatchHolds ==
  ASSUME IInv, NEW c \in Clients, Watch(c)
  PROVE  IInv'
<1>1. /\ UNCHANGED <<surroundings, due, job>>
      /\ client' \in [Clients -> Panes] /\ arrivals' \in 0 .. MaxArrivals
      /\ reader' \in Consumer /\ sampler' \in Consumer
  BY BoundsAssumption DEF Watch, Arrives, IInv, SurroundingsOK, Panes
<1>2. GoodPair(gw, job) /\ gw.producer \in Tasks \cup {NoTask} /\ route \in [Clients -> Route]
  BY DEF IInv, SurroundingsOK, GoodPair, Session
<1> DEFINE spec == Spec(ocr, RoleOf[c])
           found == [at |-> "found", existing |-> gw.producer]
           g == Pumped(spec, Viewers(client'))
<1>3. GoodPair(g, job)
  BY <1>2, PanesCounted, PaneSpec, PumpedIsGood
<1>4. gw' \in {gw, g} /\ route' \in {route, [route EXCEPT ![c] = found], [route EXCEPT ![c] = Past]}
  BY Zenon DEF Watch, g, found, spec
<1>5. found \in Route
  BY <1>2, RouteType
<1> HIDE DEF found, g, spec
<1>6. route' \in [Clients -> Route]
  BY <1>2, <1>4, <1>5, RouteType
<1>7. GoodPair(gw', job')
  BY <1>1, <1>2, <1>3, <1>4
<1> QED BY <1>1, <1>6, <1>7, PaneStep

LEMMA CancelExistingHolds ==
  ASSUME IInv, NEW c \in Clients, CancelExisting(c)
  PROVE  IInv'
<1>1. /\ UNCHANGED <<surroundings, due, gw>>
      /\ client' \in [Clients -> Panes] /\ arrivals' \in 0 .. MaxArrivals
      /\ reader' \in Consumer /\ sampler' \in Consumer
      /\ GoodPair(gw, job) /\ route \in [Clients -> Route]
      /\ job' = Cancelled(job, route[c].existing)
  BY DEF CancelExisting, IInv, SurroundingsOK
<1>2. route' \in [Clients -> Route]
  BY <1>1, RouteType DEF CancelExisting
<1> DEFINE p == route[c].existing
<1>3. p \in Tasks \cup {NoTask} /\ job \in [Tasks -> Job]
  BY <1>1 DEF Route, GoodPair
<1>4. job' = Cancelled(job, p)
  BY <1>1
<1> HIDE DEF p
<1>5. job' \in [Tasks -> Job] /\ \A t \in Tasks : Runs(job', t) => Runs(job, t)
  BY <1>3, <1>4, CancelledType
<1>6. GoodPair(gw', job')
  BY <1>1, <1>5 DEF GoodPair
<1> QED BY <1>1, <1>2, <1>6, PaneStep

(* The task that is cleared is astray from here on. *)
LEMMA UnregisterHolds ==
  ASSUME IInv, NEW c \in Clients, Unregister(c)
  PROVE  IInv'
<1>1. /\ UNCHANGED <<surroundings, due>>
      /\ client' \in [Clients -> Panes] /\ arrivals' \in 0 .. MaxArrivals
      /\ reader' \in Consumer /\ sampler' \in Consumer
      /\ GoodPair(gw, job) /\ route \in [Clients -> Route]
  BY DEF Unregister, IInv, SurroundingsOK
<1>2. route' \in [Clients -> Route]
  BY <1>1, RouteType DEF Unregister
<1> DEFINE a == SessionFor(gw, Spec(ocr, RoleOf[c]))
           b == [a EXCEPT !.runs = RoleOf[c]]
           h == [b EXCEPT !.producer = NoTask]
<1>3. RoleOf[c] \in Roles /\ a \in Session
  BY <1>1, PaneSpec, SessionForType DEF GoodPair
<1>4. gw' = h
  BY Zenon DEF Unregister, a, b, h
<1> HIDE DEF a
<1>5. b \in Session
  BY <1>3 DEF Session
<1> HIDE DEF b
<1>6. h \in Session
  BY <1>5 DEF Session
<1> HIDE DEF h
<1>7. ASSUME NEW t \in Tasks
      PROVE  job'[t] \in Job /\ ~Runs(job', t)
  <2> DEFINE n == [job[t] EXCEPT !.astray = TRUE]
  <2>1. job[t] \in Job
    BY <1>1 DEF GoodPair
  <2>2. n \in Job /\ n.astray
    BY <2>1 DEF Job
  <2>3. job'[t] = IF t = gw.producer /\ Running(t) THEN n ELSE job[t]
    BY Zenon DEF Unregister, n
  <2> HIDE DEF n
  <2>4. CASE t = gw.producer /\ Running(t)
    BY <2>2, <2>3, <2>4 DEF Runs
  <2>5. CASE ~(t = gw.producer /\ Running(t))
    <3>1. job'[t] = job[t]
      BY <2>3, <2>5
    <3>2. ~Runs(job, t)
      BY <1>1, <2>5 DEF GoodPair, Runs, Works, Running
    <3> QED BY <2>1, <3>1, <3>2 DEF Runs, Works
  <2> QED BY <2>4, <2>5
<1>8. job' \in [Tasks -> Job]
  BY <1>7 DEF Unregister
<1>9. GoodPair(gw', job')
  BY <1>4, <1>6, <1>7, <1>8 DEF GoodPair
<1> QED BY <1>1, <1>2, <1>9, PaneStep

LEMMA PlayHolds ==
  ASSUME IInv, NEW c \in Clients, Play(c)
  PROVE  IInv'
BY DEF Play, IInv, SurroundingsOK, GoodPair, surroundings, Runs, Works, Panes

LEMMA FallbackHolds ==
  ASSUME IInv, NEW c \in Clients, Fallback(c)
  PROVE  IInv'
<1>1. /\ UNCHANGED <<surroundings, due>>
      /\ client' \in [Clients -> Panes] /\ arrivals' \in 0 .. MaxArrivals
      /\ route' \in [Clients -> Route]
      /\ reader' \in Consumer /\ sampler' \in Consumer
  BY DEF Fallback, IInv, SurroundingsOK, Panes, NoConsumer, Consumer, Roles
<1>2. GoodPair(gw, job) /\ EnsureProducer(gw, Spec(ocr, RoleOf[c]))
  BY DEF Fallback, IInv
<1>3. GoodPair(gw', job')
  BY <1>2, PaneSpec, EnsureProducerIsGood
<1> QED BY <1>1, <1>3, PaneStep

LEMMA ReleasedIsGood ==
  ASSUME GoodPair(gw, job), NEW panes
  PROVE  GoodPair(Released(panes), job)
<1>1. Viewers(panes) \in 0 .. Cardinality(Clients)
  BY PanesCounted
<1>2. GoodPair(Viewed(gw, Viewers(panes)), job)
  BY <1>1, ViewedType, SameProducer DEF GoodPair
<1>3. Released(panes) \in {gw, Viewed(gw, Viewers(panes))}
  BY DEF Released
<1> QED BY <1>2, <1>3

LEMMA LeaveHolds ==
  ASSUME IInv, NEW c \in Clients, Leave(c)
  PROVE  IInv'
<1>1. /\ UNCHANGED <<surroundings, due, job, reader, sampler>>
      /\ client' \in [Clients -> Panes] /\ arrivals' \in 0 .. MaxArrivals
      /\ route' \in [Clients -> Route]
      /\ reader' \in Consumer /\ sampler' \in Consumer
  BY DEF Leave, Without, IInv, SurroundingsOK, Panes
<1>2. GoodPair(gw, job) /\ gw' = Released(Without(c)) /\ job' = job
  BY <1>1 DEF Leave, IInv
<1>3. GoodPair(gw', job')
  BY <1>2, ReleasedIsGood
<1> QED BY <1>1, <1>3, PaneStep

LEMMA StallHolds ==
  ASSUME IInv, NEW c \in Clients, Stall(c)
  PROVE  IInv'
<1>1. /\ UNCHANGED <<surroundings, due>>
      /\ client' \in [Clients -> Panes] /\ arrivals' \in 0 .. MaxArrivals
      /\ route' \in [Clients -> Route]
      /\ reader \in Consumer /\ sampler \in Consumer
  BY DEF Stall, Without, IInv, SurroundingsOK, Panes
<1>2. GoodPair(Released(Without(c)), job) /\ RestartDecoder(Released(Without(c)))
  BY ReleasedIsGood DEF Stall, IInv
<1>3. GoodPair(gw', job') /\ reader' \in Consumer /\ sampler' \in Consumer
  BY <1>1, <1>2, RestartDecoderIsGood
<1> QED BY <1>1, <1>3, PaneStep

-----------------------------------------------------------------------------
(* The camera loop and the watchers *)

LEMMA WatcherStep ==
  ASSUME IInv, UNCHANGED <<kind, ocr, http, camera, mtx, client, route, arrivals>>,
         due' \subseteq due, changes' \in 0 .. MaxChanges,
         GoodPair(gw', job'), reader' \in Consumer, sampler' \in Consumer
  PROVE  IInv'
BY DEF IInv, SurroundingsOK, GoodPair, Runs, Works

LEMMA PollHolds ==
  ASSUME IInv, Poll
  PROVE  IInv'
<1>1. /\ UNCHANGED <<kind, ocr, http, camera, mtx, client, route, arrivals>>
      /\ due' \subseteq due /\ changes' \in 0 .. MaxChanges
      /\ reader \in Consumer /\ sampler \in Consumer /\ GoodPair(gw, job)
      /\ ocr \in BOOLEAN /\ mtx \in BOOLEAN /\ gw \in Session
  BY DEF Poll, Done, IInv, SurroundingsOK, surroundings, GoodPair
<1>r. "LIVE" \in Roles
  BY DEF Roles
<1>2. CASE ocr /\ mtx
  <2> DEFINE stops == StopsOnRelease(gw)
             woken == IF stops THEN Killed(sampler) ELSE sampler
  <2>1. /\ ReleaseDetect(gw)
        /\ reader' = IF stops THEN Killed(reader) ELSE reader
        /\ sampler' = Starting(woken, "LIVE")
    BY <1>2 DEF Poll
  <2> HIDE DEF stops
  <2>2. woken \in Consumer /\ reader' \in Consumer
    BY <1>1, <1>r, <2>1, ConsumerType
  <2> HIDE DEF woken
  <2>3. sampler' \in Consumer
    BY <1>r, <2>1, <2>2, ConsumerType
  <2>4. GoodPair(gw', job')
    BY <1>1, <2>1, ReleaseDetectIsGood
  <2> QED BY <1>1, <2>2, <2>3, <2>4, WatcherStep
<1>3. CASE ocr /\ ~mtx /\ ~Current(gw)
  <2> DEFINE spec == Spec(TRUE, "LIVE")
             a == SessionFor(gw, spec)
             b == [a EXCEPT !.detect = 1]
  <2>1. EnsureProducer(b, spec) /\ UNCHANGED <<reader, sampler>>
    BY <1>3 DEF Poll
  <2>2. spec \in Specs
    BY <1>r, SpecType
  <2> HIDE DEF spec
  <2>3. a \in Session /\ a.producer = gw.producer
    BY <1>1, <2>2, SessionForType
  <2> HIDE DEF a
  <2>d. 1 \in 0 .. 1
    OBVIOUS
  <2>4. GoodPair(b, job)
    BY <1>1, <2>3, <2>d, DetectType, SameProducer
  <2> HIDE DEF b
  <2>5. GoodPair(gw', job')
    BY <2>1, <2>2, <2>4, EnsureProducerIsGood
  <2> QED BY <1>1, <2>1, <2>5, WatcherStep
<1>4. CASE ~(ocr /\ mtx) /\ ~(ocr /\ ~mtx /\ ~Current(gw))
  <2>1. UNCHANGED <<gw, job, reader, sampler>>
    BY <1>1, <1>4 DEF Poll
  <2> QED BY <1>1, <2>1, WatcherStep
<1> QED BY <1>1, <1>2, <1>3, <1>4

LEMMA StaleWatchHolds ==
  ASSUME IInv, StaleWatch
  PROVE  IInv'
<1>1. /\ UNCHANGED <<kind, ocr, http, camera, mtx, client, route, arrivals>>
      /\ due' \subseteq due /\ changes' \in 0 .. MaxChanges
      /\ reader \in Consumer /\ sampler \in Consumer /\ GoodPair(gw, job)
      /\ gw.need \in BOOLEAN /\ gw.role \in Roles
  BY DEF StaleWatch, Done, IInv, SurroundingsOK, surroundings, GoodPair, Session
<1> DEFINE gone == gw.open /\ ~Alive(gw) /\ Wanted(gw) /\ gw.wait = 0
           silent == gw.open /\ Alive(gw) /\ Silent(gw)
<1>2. CASE gone
  <2>1. EnsureProducer(gw, Spec(gw.need, gw.role)) /\ UNCHANGED <<reader, sampler>>
    BY <1>2 DEF StaleWatch
  <2>2. GoodPair(gw', job')
    BY <1>1, <2>1, SpecType, EnsureProducerIsGood
  <2> QED BY <1>1, <2>1, <2>2, WatcherStep
<1>3. CASE silent
  <2>1. RestartDecoder(gw)
    BY <1>3 DEF StaleWatch
  <2>2. GoodPair(gw', job') /\ reader' \in Consumer /\ sampler' \in Consumer
    BY <1>1, <2>1, RestartDecoderIsGood
  <2> QED BY <1>1, <2>2, WatcherStep
<1>4. CASE ~gone /\ ~silent
  <2>1. UNCHANGED <<gw, job, reader, sampler>>
    BY <1>4 DEF StaleWatch
  <2> QED BY <1>1, <2>1, WatcherStep
<1> QED BY <1>2, <1>3, <1>4

LEMMA IdleWatchHolds ==
  ASSUME IInv, IdleWatch
  PROVE  IInv'
<1>1. /\ UNCHANGED <<kind, ocr, http, camera, mtx, client, route, arrivals>>
      /\ due' \subseteq due /\ changes' \in 0 .. MaxChanges
      /\ reader \in Consumer /\ sampler \in Consumer /\ GoodPair(gw, job)
      /\ StopProducer(gw) /\ reader' = Killed(reader) /\ sampler' = Killed(sampler)
      /\ "LIVE" \in Roles
  BY DEF IdleWatch, IInv, SurroundingsOK, surroundings, Roles
<1>2. GoodPair(gw', job')
  BY <1>1, StopProducerIsGood
<1>3. reader' \in Consumer /\ sampler' \in Consumer
  BY <1>1, ConsumerType
<1> QED BY <1>1, <1>2, <1>3, WatcherStep

LEMMA ClearInactiveHolds ==
  ASSUME IInv, ClearInactive
  PROVE  IInv'
<1>1. /\ UNCHANGED <<kind, ocr, http, camera, mtx, client, route, arrivals>>
      /\ due' \subseteq due /\ changes' \in 0 .. MaxChanges
      /\ GoodPair(gw, job) /\ gw \in Session
      /\ reader' \in Consumer /\ sampler' \in Consumer
  BY BoundsAssumption DEF ClearInactive, Done, IInv, SurroundingsOK, GoodPair,
     NoConsumer, Consumer, Roles
<1>2. CASE gw.open
  <2> DEFINE h == ReleasedDetect(gw)
  <2>1. StopProducer(h)
    BY <1>2 DEF ClearInactive
  <2>2. GoodPair(h, job)
    BY <1>1, ReleasedDetectType, SameProducer
  <2> HIDE DEF h
  <2>3. GoodPair(gw', job')
    BY <2>1, <2>2, StopProducerIsGood
  <2> QED BY <1>1, <2>3, WatcherStep
<1>3. CASE ~gw.open
  <2>1. UNCHANGED <<gw, job>>
    BY <1>3 DEF ClearInactive
  <2> QED BY <1>1, <2>1, WatcherStep
<1> QED BY <1>2, <1>3

-----------------------------------------------------------------------------
(* The producer *)

LEMMA ProducerStep ==
  ASSUME IInv, UNCHANGED <<surroundings, client, route, due, arrivals>>,
         GoodPair(gw', job'), reader' \in Consumer, sampler' \in Consumer
  PROVE  IInv'
BY DEF IInv, SurroundingsOK, GoodPair, surroundings, Runs, Works

LEMMA FinallyIsGood ==
  ASSUME GoodPair(gw, job), NEW t \in Tasks, Finally(t)
  PROVE  GoodPair(gw', job')
<1> DEFINE h == [gw EXCEPT !.producer = NoTask]
<1>1. h \in Session
  BY DEF GoodPair, Session
<1>2. gw' = IF gw.producer = t THEN h ELSE gw
  BY DEF Finally
<1> HIDE DEF h
<1>3. gw' \in Session /\ (gw.producer # t => gw' = gw)
  BY <1>1, <1>2 DEF GoodPair
<1>4. NoJob \in Job /\ NoJob.at = "none"
  BY NewTasks
<1>5. job \in [Tasks -> Job] /\ job' = [job EXCEPT ![t] = NoJob]
  BY DEF GoodPair, Finally
<1>6. job' \in [Tasks -> Job] /\ job'[t] = NoJob /\ \A u \in Tasks : u # t => job'[u] = job[u]
  BY <1>4, <1>5
<1>7. ASSUME NEW u \in Tasks, Runs(job', u)
      PROVE  gw'.producer = u
  <2>1. u # t /\ Runs(job, u)
    BY <1>4, <1>6, <1>7 DEF Runs, Works
  <2>2. gw.producer = u
    BY <2>1 DEF GoodPair
  <2> QED BY <1>3, <2>1, <2>2
<1> QED BY <1>3, <1>6, <1>7 DEF GoodPair

LEMMA CloseHolds ==
  ASSUME IInv, NEW t \in Tasks, Close(t)
  PROVE  IInv'
<1>1. /\ UNCHANGED <<surroundings, client, route, due, arrivals, reader, sampler>>
      /\ Finally(t) /\ GoodPair(gw, job) /\ reader \in Consumer /\ sampler \in Consumer
  BY DEF Close, IInv, SurroundingsOK
<1>2. GoodPair(gw', job')
  BY <1>1, FinallyIsGood
<1> QED BY <1>1, <1>2, ProducerStep

LEMMA NextStageType ==
  ASSUME GoodPair(gw, job), NEW t \in Tasks
  PROVE  NextStage(t) \in Stages /\ (Urgent(t) => Works(job, t))
<1>1. job[t].at \in Stages
  BY DEF GoodPair, Job
<1>2. /\ SdkStage(t) \in {"backoff", "ready", job[t].at}
      /\ RtspStage(t) \in {"stills", "ready", "opening", job[t].at}
      /\ HttpStage(t) \in {"backoff", "ready", job[t].at}
  BY Zenon DEF SdkStage, RtspStage, HttpStage
<1>3. NextStage(t) \in {"opening", "none", "ready", "backoff", HttpStage(t), SdkStage(t), RtspStage(t), job[t].at}
  BY Zenon DEF NextStage
<1>4. NextStage(t) \in Stages
  BY <1>1, <1>2, <1>3 DEF Stages
<1>5. job[t].at \in {"none", "closing"} => NextStage(t) = job[t].at
  BY DEF NextStage
<1> QED BY <1>4, <1>5 DEF Urgent, Works

(* A task that works goes on to another stage. *)
LEMMA MovedIsGood ==
  ASSUME NEW g, GoodPair(g, job), NEW t \in Tasks, Works(job, t), NEW stage \in Stages
  PROVE  GoodPair(g, Moved(t, stage))
<1> DEFINE a == [job[t] EXCEPT !.at = stage]
           n == [a EXCEPT !.since = 0]
           k == [job EXCEPT ![t] = n]
<1>1. job[t] \in Job /\ job \in [Tasks -> Job] /\ g \in Session /\ 0 \in 0 .. Patience
  BY Times DEF GoodPair
<1>2. a \in Job /\ a.astray = job[t].astray
  BY <1>1 DEF Job
<1>3. Moved(t, stage) = k
  BY Zenon DEF Moved, a, n, k
<1> HIDE DEF a
<1>4. n \in Job /\ n.astray = job[t].astray
  BY <1>1, <1>2 DEF Job
<1> HIDE DEF n
<1>5. k \in [Tasks -> Job] /\ k[t] = n /\ \A u \in Tasks : u # t => k[u] = job[u]
  BY <1>1, <1>4
<1> HIDE DEF k
<1>6. ASSUME NEW u \in Tasks, Runs(k, u)
      PROVE  Runs(job, u)
  BY <1>4, <1>5, <1>6 DEF Runs, Works
<1> QED BY <1>1, <1>3, <1>5, <1>6 DEF GoodPair

LEMMA ProduceHolds ==
  ASSUME IInv, NEW t \in Tasks, Produce(t)
  PROVE  IInv'
<1>1. /\ UNCHANGED <<surroundings, client, route, due, arrivals>>
      /\ GoodPair(gw, job) /\ gw \in Session
      /\ reader \in Consumer /\ sampler \in Consumer /\ Urgent(t)
  BY DEF Produce, IInv, SurroundingsOK, GoodPair
<1> DEFINE stage == NextStage(t)
<1>2. stage \in Stages /\ Works(job, t)
  BY <1>1, NextStageType
<1>3. CASE stage = "none"
  <2>1. Finally(t) /\ UNCHANGED <<reader, sampler>>
    BY <1>3 DEF Produce
  <2>2. GoodPair(gw', job')
    BY <1>1, <2>1, FinallyIsGood
  <2> QED BY <1>1, <2>1, <2>2, ProducerStep
<1>4. CASE stage = "backoff"
  <2>1. Backoff(t)
    BY <1>4 DEF Produce
  <2>2. PICK w \in Waits : gw' = [gw EXCEPT !.wait = w]
    BY <2>1 DEF Backoff
  <2>3. gw' \in Session /\ gw'.producer = gw.producer
    BY <1>1, <2>2, WaitType
  <2>4. job' = Interrupted(Moved(t, "backoff")) /\ "backoff" \in Stages
    BY <2>1 DEF Backoff, Stages
  <2>d. GoodPair(gw, Moved(t, "backoff"))
    BY <1>1, <1>2, <2>4, MovedIsGood
  <2> DEFINE k == Moved(t, "backoff")
  <2>e. k \in [Tasks -> Job] /\ \A u \in Tasks : Runs(k, u) => gw.producer = u
    BY <2>d DEF GoodPair
  <2>f. job' = Interrupted(k)
    BY <2>4
  <2> HIDE DEF k
  <2>5. GoodPair(gw', job')
    BY <2>3, <2>e, <2>f, InterruptedType DEF GoodPair
  <2>6. "LIVE" \in Roles /\ reader' = Killed(reader) /\ sampler' = Killed(sampler)
    BY <2>1 DEF Backoff, Roles
  <2>7. reader' \in Consumer /\ sampler' \in Consumer
    BY <1>1, <2>6, ConsumerType
  <2> QED BY <1>1, <2>5, <2>7, ProducerStep
<1>5. CASE stage \notin {"none", "backoff"}
  <2>1. job' = Moved(t, stage) /\ UNCHANGED <<gw, reader, sampler>>
    BY <1>5 DEF Produce
  <2> HIDE DEF stage
  <2>2. GoodPair(gw', job')
    BY <1>1, <1>2, <2>1, MovedIsGood
  <2> QED BY <1>1, <2>1, <2>2, ProducerStep
<1> QED BY <1>3, <1>4, <1>5

-----------------------------------------------------------------------------
(* The consumers of MediaMTX *)

LEMMA ReaderHolds ==
  ASSUME IInv, Reader
  PROVE  IInv'
<1>1. /\ UNCHANGED <<surroundings, client, job, route, sampler, due, arrivals>>
      /\ GoodPair(gw, job) /\ gw \in Session
      /\ reader \in Consumer /\ sampler \in Consumer
      /\ ocr \in BOOLEAN /\ reader.role \in Roles
  BY DEF Reader, IInv, SurroundingsOK, GoodPair, Consumer
<1> DEFINE h == SessionFor(gw, Spec(ocr, reader.role))
<1>2. GoodPair(h, job)
  BY <1>1, SpecType, SessionForType, SameProducer
<1>3. gw' \in {gw, h}
  BY DEF Reader
<1> HIDE DEF h
<1>4. GoodPair(gw', job')
  BY <1>1, <1>2, <1>3
<1>5. reader' \in {[reader EXCEPT !.at = "reading"], NoConsumer}
  BY DEF Reader
<1>6. reader' \in Consumer
  BY <1>1, <1>5 DEF Consumer, NoConsumer, Roles
<1> QED BY <1>1, <1>4, <1>6, ProducerStep

LEMMA LeasedType ==
  ASSUME NEW g \in Session
  PROVE  Leased(g) \in Session /\ Leased(g).producer = g.producer
<1> DEFINE a == SessionFor(g, Spec(TRUE, "LIVE"))
           b == [a EXCEPT !.detect = 1]
<1>1. "LIVE" \in Roles /\ 1 \in 0 .. 1
  BY DEF Roles
<1>2. a \in Session /\ a.producer = g.producer
  BY <1>1, SpecType, SessionForType
<1>3. Leased(g) = IF sampler.at = "ready" THEN b ELSE g
  BY Zenon DEF Leased, b, a
<1> HIDE DEF a
<1>4. b \in Session /\ b.producer = g.producer
  BY <1>1, <1>2, DetectType
<1> QED BY <1>3, <1>4

LEMMA UnleasedType ==
  ASSUME NEW g \in Session
  PROVE  Unleased(g) \in Session /\ Unleased(g).producer = g.producer
<1> DEFINE d == IF g.detect > 0 THEN g.detect - 1 ELSE 0
<1>1. d \in 0 .. 1
  BY DEF Session
<1>2. Unleased(g) = [g EXCEPT !.detect = d]
  BY Zenon DEF Unleased, d
<1> HIDE DEF d
<1> QED BY <1>1, <1>2, DetectType

LEMMA SamplerHolds ==
  ASSUME IInv, Sampler
  PROVE  IInv'
<1>1. /\ UNCHANGED <<surroundings, client, job, route, reader, due, arrivals>>
      /\ GoodPair(gw, job) /\ gw \in Session
      /\ reader \in Consumer /\ sampler \in Consumer
  BY DEF Sampler, IInv, SurroundingsOK, GoodPair
<1> DEFINE h == Leased(gw)
<1>2. h \in Session /\ h.producer = gw.producer
  BY <1>1, LeasedType
<1>3. gw' \in {h, Unleased(h)} /\ sampler' \in {[sampler EXCEPT !.at = "reading"], NoConsumer}
  BY DEF Sampler
<1> HIDE DEF h
<1>4. GoodPair(gw', job')
  BY <1>1, <1>2, <1>3, UnleasedType, SameProducer
<1>5. sampler' \in Consumer
  BY <1>1, <1>3 DEF Consumer, NoConsumer, Roles
<1> QED BY <1>1, <1>4, <1>5, ProducerStep

-----------------------------------------------------------------------------
(* Time and the surroundings *)

LEMMA AdvancedType ==
  ASSUME NEW t \in Tasks, job[t] \in Job
  PROVE  /\ Advanced(t) \in Job /\ Advanced(t).astray = job[t].astray
         /\ Advanced(t).at \in {"none", "closing"} <=> job[t].at \in {"none", "closing"}
<1>1. CASE Delivers(t)
  <2> DEFINE stage == CASE job[t].at = "opening" -> "live"
                        [] job[t].at = "stills" -> "slides"
                        [] OTHER -> job[t].at
             a == [job[t] EXCEPT !.at = stage]
             n == [a EXCEPT !.since = 0]
  <2>1. Advanced(t) = n
    BY <1>1, Zenon DEF Advanced, stage, a, n
  <2>2. /\ stage \in Stages
        /\ stage \in {"none", "closing"} <=> job[t].at \in {"none", "closing"}
    BY DEF Stages, Job
  <2> HIDE DEF stage
  <2>3. a \in Job /\ a.at = stage /\ a.astray = job[t].astray
    BY <2>2 DEF Job
  <2> HIDE DEF a
  <2>4. n \in Job /\ n.at = stage /\ n.astray = job[t].astray
    BY <2>3, Times DEF Job
  <2> HIDE DEF n
  <2> QED BY <2>1, <2>2, <2>4
<1>2. CASE ~Delivers(t) /\ job[t].at \in {"opening", "live", "stills", "slides"}
  <2> DEFINE n == IF job[t].since < Patience THEN job[t].since + 1 ELSE job[t].since
  <2>1. Advanced(t) = [job[t] EXCEPT !.since = n]
    BY <1>2, Zenon DEF Advanced, n
  <2>2. n \in 0 .. Patience
    BY Times DEF Job
  <2> HIDE DEF n
  <2> QED BY <2>1, <2>2 DEF Job
<1>3. CASE ~Delivers(t) /\ job[t].at \notin {"opening", "live", "stills", "slides"}
  <2>1. Advanced(t) = job[t]
    BY <1>3 DEF Advanced
  <2> QED BY <2>1
<1> QED BY <1>1, <1>2, <1>3

LEMMA AgesStayBounded ==
  ASSUME NEW limit \in Nat, NEW age \in 0 .. limit
  PROVE  Older(age, limit) \in 0 .. limit /\ Sooner(age) \in 0 .. limit
BY DEF Older, Sooner

LEMMA TickHolds ==
  ASSUME IInv, Tick
  PROVE  IInv'
<1>1. /\ UNCHANGED <<surroundings, client, route, arrivals>>
      /\ reader' \in Consumer /\ sampler' \in Consumer
      /\ due' \subseteq {"stale", "poll"} /\ gw \in Session
      /\ job' = [t \in Tasks |-> Advanced(t)]
      /\ job \in [Tasks -> Job] /\ GoodPair(gw, job)
  BY DEF Tick, IInv, SurroundingsOK, GoodPair
<1>2. /\ job' \in [Tasks -> Job]
      /\ \A t \in Tasks : Runs(job', t) => Runs(job, t)
  BY <1>1, AdvancedType DEF Runs, Works
<1>3. PICK bytes, changed :
        gw' = [gw EXCEPT
                 !.fresh = IF changed \/ (bytes /\ @ = Never) THEN 0
                           ELSE IF @ = Never THEN Never ELSE Older(@, Dead),
                 !.heard = IF bytes THEN 0 ELSE Older(@, Stale),
                 !.view = Older(@, Idle),
                 !.wait = Sooner(@)]
  BY DEF Tick
<1> DEFINE f == IF changed \/ (bytes /\ gw.fresh = Never) THEN 0
                ELSE IF gw.fresh = Never THEN Never ELSE Older(gw.fresh, Dead)
           h == IF bytes THEN 0 ELSE Older(gw.heard, Stale)
           v == Older(gw.view, Idle)
           w == Sooner(gw.wait)
           a == [gw EXCEPT !.fresh = f]
           b == [a EXCEPT !.heard = h]
           d == [b EXCEPT !.view = v]
           e == [d EXCEPT !.wait = w]
<1>4. /\ gw.fresh \in 0 .. Never /\ gw.heard \in 0 .. Stale
      /\ gw.view \in 0 .. Idle /\ gw.wait \in 0 .. Oldest(Waits)
  BY <1>1 DEF Session
<1>5. f \in 0 .. Never
  BY <1>4, Times DEF Older, Never
<1>6. h \in 0 .. Stale /\ v \in 0 .. Idle /\ w \in 0 .. Oldest(Waits)
  <2>0. 0 \in 0 .. Stale
    BY Times
  <2>1. Older(gw.heard, Stale) \in 0 .. Stale
    BY <1>4, Times, AgesStayBounded
  <2>2. v \in 0 .. Idle
    BY <1>4, Times, AgesStayBounded
  <2>3. w \in 0 .. Oldest(Waits)
    BY <1>4, Times, AgesStayBounded
  <2>4. h \in {0, Older(gw.heard, Stale)}
    BY Zenon DEF h
  <2> QED BY <2>0, <2>1, <2>2, <2>3, <2>4
<1>7. gw' = [gw EXCEPT !.fresh = f, !.heard = h, !.view = v, !.wait = w]
  BY <1>3, Zenon DEF f, h, v, w
<1> HIDE DEF f, h, v, w
<1>8. gw' = e
  BY <1>7, Zenon DEF a, b, d, e
<1>9. a \in Session /\ a.producer = gw.producer
  BY <1>1, <1>5 DEF Session
<1> HIDE DEF a
<1>10. b \in Session /\ b.producer = gw.producer
  BY <1>9, <1>6 DEF Session
<1> HIDE DEF b
<1>11. d \in Session /\ d.producer = gw.producer
  BY <1>10, <1>6 DEF Session
<1> HIDE DEF d
<1>12. e \in Session /\ e.producer = gw.producer
  BY <1>11, <1>6 DEF Session
<1>13. GoodPair(gw', job')
  BY <1>1, <1>2, <1>8, <1>12 DEF GoodPair
<1> QED BY <1>1, <1>13 DEF IInv, SurroundingsOK, surroundings

LEMMA SurroundingsHold ==
  ASSUME IInv, CameraChanges \/ SidecarChanges
  PROVE  IInv'
<1>1. /\ UNCHANGED <<kind, ocr, http, client, gw, job, route, reader, sampler, due, arrivals>>
      /\ camera' \in {"up", "still", "down"} /\ changes' \in 0 .. MaxChanges
  BY BoundsAssumption DEF CameraChanges, SidecarChanges, IInv, SurroundingsOK
<1>2. mtx' \in BOOLEAN
  BY Zenon DEF CameraChanges, SidecarChanges, IInv, SurroundingsOK
<1> QED BY <1>1, <1>2 DEF IInv, SurroundingsOK, GoodPair, Runs, Works

-----------------------------------------------------------------------------
(* The session *)

LEMMA InitHolds == Init => IInv
<1> SUFFICES ASSUME Init PROVE IInv
  OBVIOUS
<1>1. SurroundingsOK
  BY ModesAssumption, BoundsAssumption
     DEF Init, SurroundingsOK, Panes, NoConsumer, Consumer, Roles, NoRoute, Route
<1>2. NoJob \in Job /\ NoJob.at = "none"
  BY NewTasks
<1>3. \A n \in Nat : 0 \in 0 .. n /\ n \in 0 .. n
  OBVIOUS
<1>4. 0 \in 0 .. Cardinality(Clients)
  <2>1. Cardinality(Clients) \in Nat
    BY ModesAssumption, FS_CardinalityType
  <2> QED BY <1>3, <2>1
<1>5. NoSession \in Session
  BY <1>3, <1>4, Times DEF NoSession, Session, Roles
<1>6. GoodPair(gw, job)
  BY <1>2, <1>5 DEF Init, GoodPair, Runs, Works
<1> QED BY <1>1, <1>6 DEF IInv

LEMMA NextHolds == IInv /\ [Next]_vars => IInv'
<1> SUFFICES ASSUME IInv, [Next]_vars PROVE IInv'
  OBVIOUS
<1>1. ASSUME NEW c \in Clients,
             Open(c) \/ Watch(c) \/ Play(c) \/ Fallback(c) \/ Leave(c) \/ Stall(c)
      PROVE  IInv'
  BY <1>1, OpenHolds, WatchHolds, PlayHolds, FallbackHolds, LeaveHolds, StallHolds
<1>r. CASE RouteStep
  BY <1>r, CancelExistingHolds, UnregisterHolds DEF RouteStep
<1>2. CASE Poll
  BY <1>2, PollHolds
<1>3. CASE StaleWatch
  BY <1>3, StaleWatchHolds
<1>4. CASE IdleWatch
  BY <1>4, IdleWatchHolds
<1>5. CASE ClearInactive
  BY <1>5, ClearInactiveHolds
<1>6. ASSUME NEW t \in Tasks, Produce(t) \/ Close(t)
      PROVE  IInv'
  BY <1>6, ProduceHolds, CloseHolds
<1>7. CASE Reader
  BY <1>7, ReaderHolds
<1>8. CASE Sampler
  BY <1>8, SamplerHolds
<1>9. CASE Tick
  BY <1>9, TickHolds
<1>10. CASE CameraChanges \/ SidecarChanges
  BY <1>10, SurroundingsHold
<1>11. CASE UNCHANGED vars
  BY <1>11 DEF vars, surroundings, IInv, SurroundingsOK, GoodPair, Runs, Works
<1> QED BY <1>1, <1>r, <1>2, <1>3, <1>4, <1>5, <1>6, <1>7, <1>8, <1>9, <1>10, <1>11 DEF Next

LEMMA Inductive == MediaSpec => []IInv
<1> QED BY InitHolds, NextHolds, PTL DEF MediaSpec

(* The fields of the session, the stages of its producer tasks, the ages   *)
(* and the leases stay within their types and limits                       *)
(* (services/media_gateway.py, services/preview.py).                       *)
THEOREM TypeCorrect == MediaSpec => []TypeOK
<1>1. IInv => TypeOK
  BY IInvIsBoth
<1> QED BY <1>1, Inductive, PTL

(* However requests, watchers, the camera loop and late finallys           *)
(* interleave, the only task that reads the camera is the one its session  *)
(* has registered, beside those that a live/watch request has taken off    *)
(* the session while they ran (ensure_producer, _produce).                 *)
THEOREM OnlyTheRegisteredProduces == MediaSpec => []OneProducer
<1>1. IInv => OneProducer
  BY IInvIsBoth
<1> QED BY <1>1, Inductive, PTL
=============================================================================

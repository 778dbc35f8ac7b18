---------------------------- MODULE MediaGateway ----------------------------
(***************************************************************************)
(* The live video of one camera inside the site service                    *)
(* (services/media_gateway.py, the leases of services/preview.py, the      *)
(* local readers of services/mediamtx_live.py and mediamtx_detect.py, and  *)
(* the endpoints and the camera loop of api_main.py that use them).        *)
(*                                                                         *)
(* A producer task feeds the picture straight from the camera.  When the   *)
(* MediaMTX sidecar serves the camera, a reader (for the operators) and a  *)
(* sampler (for recognition) take it from there instead.  Two watchers     *)
(* look after the session: one stops what nobody wants, one restarts what  *)
(* brings no picture.  A tick is the 0.5 s of the stale watch; within a    *)
(* tick every watcher and the camera loop run once, in any order.          *)
(***************************************************************************)
EXTENDS Integers, FiniteSets

CONSTANTS
  Clients,       \* operators' panes
  RoleOf,        \* live_role each pane asks for: "LIVE" or "MAIN"
  Kinds,         \* "sdk": the native host owns the video, "rtsp": FFmpeg does
  OcrModes,      \* may software recognition read the camera?  subset of BOOLEAN
  Stale,         \* ticks until a picture is stale, stale_stream_seconds
  Dead,          \* ticks until a decoder without a picture is restarted, 6 * stale
  FirstFrame,    \* ticks an RTSP stream takes to its first picture
  OpenLimit,     \* ticks until every RTSP candidate has been tried
  ReadTimeout,   \* ticks without a byte that end a stream
  Waits,         \* ticks a reconnect may be held back, ReconnectPolicy
  Idle,          \* ticks after the last view, live_idle_seconds
  MaxArrivals,   \* bound: requests of all panes
  MaxChanges     \* bound: changes of the camera, of the sidecar and of the scope

ASSUME ModesAssumption ==
  /\ IsFiniteSet(Clients)
  /\ RoleOf \in [Clients -> {"LIVE", "MAIN"}]
  /\ Kinds \subseteq {"sdk", "rtsp"}
  /\ OcrModes \subseteq BOOLEAN
ASSUME TimesAssumption ==
  /\ Stale \in Nat \ {0}
  /\ Dead \in Nat /\ Dead > 2 * Stale
  /\ FirstFrame \in Nat \ {0}
  /\ OpenLimit \in Nat /\ FirstFrame <= OpenLimit
  /\ ReadTimeout \in Nat \ {0}
  /\ \A w \in Waits : w \in Nat \ {0}
  /\ \E longest \in Waits : \A w \in Waits : w <= longest
  /\ Idle \in Nat \ {0}
ASSUME BoundsAssumption == MaxArrivals \in Nat /\ MaxChanges \in Nat

VARIABLES
  kind,      \* how the camera is connected
  ocr,       \* software_ocr_enabled of the camera
  http,      \* the camera also answers HTTP snapshots
  camera,    \* "up", "still" (bytes come, the picture hardly changes), "down"
  mtx,       \* MediaMTX serves this camera
  client,    \* what each pane is doing
  gw,        \* the StreamSession
  job,       \* the producer tasks
  route,     \* what the live/watch request of each pane is doing
  reader,    \* the MediaMTX live consumer
  sampler,   \* the MediaMTX detect consumer
  due,       \* what still has to run in this tick
  arrivals,  \* requests so far
  changes    \* changes of the surroundings so far

vars == <<kind, ocr, http, camera, mtx, client, gw, job, route, reader, sampler, due,
          arrivals, changes>>
surroundings == <<kind, ocr, http, camera, mtx, changes>>

-----------------------------------------------------------------------------
(* Data *)

(* One registered producer, at most one per request that runs astray, and  *)
(* a cancelled one that cleans up.                                         *)
Tasks == 1 .. 2 + MaxArrivals
NoTask == 0

(* Ages are counted up to where nothing depends on them any more.          *)
Never == Dead + 1
Oldest(S) == CHOOSE n \in S : \A m \in S : m <= n
Patience == Oldest({Stale, OpenLimit, ReadTimeout})

(* viewers, detect: the leases.  need, role: of the session's spec.  runs: *)
(* the role of producer_spec.  view: ticks since last_view_at.  fresh,     *)
(* heard: ticks since the picture changed and since any bytes came.        *)
(* wait: ticks until _restart_not_before.                                  *)
Roles == {"LIVE", "MAIN"}
Session ==
  [open : BOOLEAN, viewers : 0 .. Cardinality(Clients), detect : 0 .. 1,
   need : BOOLEAN, role : Roles, runs : Roles, view : 0 .. Idle,
   fresh : 0 .. Never, heard : 0 .. Stale, wait : 0 .. Oldest(Waits),
   producer : Tasks \cup {NoTask}]
NoSession ==
  [open |-> FALSE, viewers |-> 0, detect |-> 0, need |-> FALSE,
   role |-> "LIVE", runs |-> "LIVE", view |-> Idle, fresh |-> Never,
   heard |-> Stale, wait |-> 0, producer |-> NoTask]

(* "ready": at the top of _produce's loop.  "opening": no picture from the *)
(* camera yet.  "live": pictures came.  "stills", "slides": the same over  *)
(* HTTP snapshots.  "closing": cancelled, not yet through its finally.     *)
(* astray: it runs, and a live/watch request has taken it off the session. *)
Stages ==
  {"none", "ready", "opening", "live", "stills", "slides", "backoff", "closing"}
Job == [at : Stages, since : 0 .. Patience, astray : BOOLEAN]
Begun(stage) == [at |-> stage, since |-> 0, astray |-> FALSE]
NoJob == Begun("none")

(* "waiting": in the four seconds before the first part, "retried": after  *)
(* its fallback, "playing": parts are sent, "watching": live/watch.        *)
Panes == {"away", "waiting", "retried", "playing", "watching"}

(* "pause": the second a consumer sleeps after its stream broke.  role: of *)
(* the request that started it.                                            *)
Consumer == [at : {"none", "ready", "reading", "pause"}, role : Roles]
NoConsumer == [at |-> "none", role |-> "LIVE"]

(* live/watch runs on a thread of the pool, beside the event loop.         *)
(* "found": it has read that existing is the session's producer, "past":   *)
(* it has cancelled that one and not yet cleared the session's.            *)
Route == [at : {"idle", "found", "past"}, existing : Tasks \cup {NoTask}]
NoRoute == [at |-> "idle", existing |-> NoTask]
Past == [at |-> "past", existing |-> NoTask]

Spec(need, role) == [need |-> need, role |-> role]
Viewers(panes) == Cardinality({c \in Clients : panes[c] # "away"})

Wanted(g) == g.viewers > 0 \/ g.detect > 0 \/ g.need
Current(g) == g.open /\ g.fresh <= Stale
Running(t) == job[t].at \notin {"none", "closing"}
Alive(g) == g.producer # NoTask /\ job[g.producer].at # "none"      \* not done()

-----------------------------------------------------------------------------
(* The methods of the gateway.  g is the session, j the producer tasks.    *)

SessionFor(g, spec) ==
  [g EXCEPT !.open = TRUE, !.need = spec.need, !.role = spec.role]

(* A task that was never scheduled leaves without its finally.             *)
Cancelled(j, t) ==
  IF t = NoTask \/ j[t].at = "none" THEN j
  ELSE [j EXCEPT ![t] = IF @.at = "ready" THEN NoJob ELSE Begun("closing")]

(* A number is given again when nobody knows the task that had it.         *)
Free(j) == {t \in Tasks : j[t].at = "none" /\ \A c \in Clients : route[c].existing # t}
Unused(j) == CHOOSE t \in Free(j) : TRUE
Room(j) == Free(j) # {}

(* Mutant: nothing is started before the reconnect delay is over.          *)
KeepsWhileHeldBack(g, spec) == (Alive(g) /\ g.runs = spec.role) \/ g.wait > 0

(* A running producer of the same spec is kept; another one is cancelled   *)
(* and replaced.                                                           *)
KeepsProducer(g, spec) == Alive(g) /\ g.runs = spec.role

EnsureProducer(g, spec) ==
  IF KeepsProducer(g, spec)
  THEN /\ gw' = SessionFor(g, spec)
       /\ job' = job
  ELSE \E j \in {Cancelled(job, g.producer)} :
         /\ Room(j)
         /\ gw' = [SessionFor(g, spec) EXCEPT !.runs = spec.role, !.producer = Unused(j)]
         /\ job' = [j EXCEPT ![Unused(j)] = Begun("ready")]

(* Every FFmpeg the session has registered is killed, whoever started it:  *)
(* a producer that goes on tries the next candidate.                       *)
Interrupted(j) ==
  [t \in Tasks |->
     IF kind = "rtsp" /\ j[t].at = "live" THEN [j[t] EXCEPT !.at = "opening", !.since = 0] ELSE j[t]]
Killed(consumer) == IF consumer.at = "reading" THEN [consumer EXCEPT !.at = "pause"] ELSE consumer
Starting(consumer, role) ==
  IF consumer.at = "none" THEN [at |-> "ready", role |-> role] ELSE consumer

StopProducer(g) ==
  /\ gw' = [g EXCEPT !.producer = NoTask]
  /\ job' = Interrupted(Cancelled(job, g.producer))

ReleasedDetect(g) == [g EXCEPT !.detect = 0, !.need = FALSE]
StopsOnRelease(g) == g.open /\ g.producer # NoTask /\ ~Wanted(ReleasedDetect(g))

ReleaseDetect(g) ==
  IF StopsOnRelease(g) THEN StopProducer(ReleasedDetect(g))
  ELSE gw' = (IF g.open THEN ReleasedDetect(g) ELSE g) /\ UNCHANGED job

(* A restart is held back; asking again before that time does nothing.     *)
RestartDecoder(g) ==
  IF ~g.open \/ g.wait > 0
  THEN gw' = g /\ UNCHANGED <<job, reader, sampler>>
  ELSE /\ \E w \in Waits : StopProducer([g EXCEPT !.wait = w])
       /\ reader' = Killed(reader)
       /\ sampler' = Killed(sampler)

-----------------------------------------------------------------------------
(* The operators' panes                                                    *)

Larger(m, n) == IF m < n THEN n ELSE m
Viewed(g, n) == [g EXCEPT !.viewers = n, !.view = 0]

Pumped(spec, n) ==
  [Viewed(SessionFor(gw, spec), Larger(gw.viewers, n)) EXCEPT
     !.detect = IF spec.need THEN 1 ELSE @]
StartLivePump(spec, n) == EnsureProducer(Pumped(spec, n), spec)

(* A native camera always has its own producer; otherwise a producer that  *)
(* runs is shared, then MediaMTX is asked, then a producer is started.     *)
EnsureMjpegSource(spec, n) ==
  CASE kind = "sdk" ->
         /\ EnsureProducer(Viewed(SessionFor(gw, spec), Larger(gw.viewers, n)), spec)
         /\ UNCHANGED <<reader, sampler>>
    [] kind = "rtsp" /\ Alive(gw) ->
         /\ gw' = Viewed(gw, n)
         /\ UNCHANGED <<job, reader, sampler>>
    [] kind = "rtsp" /\ ~Alive(gw) /\ mtx ->
         /\ reader' = Starting(reader, spec.role)
         /\ UNCHANGED <<gw, job, sampler>>
    [] OTHER -> StartLivePump(spec, n) /\ UNCHANGED <<reader, sampler>>

Arrives(c, pane) ==
  /\ client[c] = "away"
  /\ arrivals < MaxArrivals
  /\ arrivals' = arrivals + 1
  /\ client' = [client EXCEPT ![c] = pane]
  /\ UNCHANGED <<surroundings, due>>

(* GET live.mjpeg, or a snapshot, which is a short lease of the same kind. *)
Open(c) ==
  /\ Arrives(c, "waiting")
  /\ EnsureMjpegSource(Spec(ocr, RoleOf[c]), Viewers(client'))
  /\ UNCHANGED route

(* POST live/watch.  Its thread has no event loop: no consumer and no task *)
(* is started there.  ensure_producer keeps a producer of the same spec,   *)
(* else goes on to the two steps below while the loop runs.                *)
Watch(c) ==
  /\ Arrives(c, "watching")
  /\ UNCHANGED <<job, reader, sampler>>
  /\ gw' = IF mtx THEN gw ELSE Pumped(Spec(ocr, RoleOf[c]), Viewers(client'))
  /\ route' =
       IF mtx \/ KeepsProducer(gw, Spec(ocr, RoleOf[c])) THEN route
       ELSE [route EXCEPT ![c] = IF Alive(gw) THEN [at |-> "found", existing |-> gw.producer]
                                 ELSE Past]

CancelExisting(c) ==
  /\ route[c].at = "found"
  /\ route' = [route EXCEPT ![c] = Past]
  /\ job' = Cancelled(job, route[c].existing)
  /\ UNCHANGED <<surroundings, client, gw, reader, sampler, due, arrivals>>

(* create_task fails there, and whatever the session's producer is by now, *)
(* it is cleared.                                                          *)
Unregister(c) ==
  /\ route[c].at = "past"
  /\ route' = [route EXCEPT ![c] = NoRoute]
  /\ gw' = [SessionFor(gw, Spec(ocr, RoleOf[c])) EXCEPT !.runs = RoleOf[c], !.producer = NoTask]
  /\ job' = [t \in Tasks |->
               IF t = gw.producer /\ Running(t) THEN [job[t] EXCEPT !.astray = TRUE] ELSE job[t]]
  /\ UNCHANGED <<surroundings, client, reader, sampler, due, arrivals>>

RouteStep == \E c \in Clients : CancelExisting(c) \/ Unregister(c)

Play(c) ==
  /\ client[c] \in {"waiting", "retried"}
  /\ Current(gw)
  /\ client' = [client EXCEPT ![c] = "playing"]
  /\ UNCHANGED <<surroundings, gw, job, route, reader, sampler, due, arrivals>>

(* After three seconds the pane takes the picture from the camera itself:  *)
(* the MediaMTX reader is stopped first.                                   *)
Fallback(c) ==
  /\ client[c] = "waiting"
  /\ ~Current(gw)
  /\ client' = [client EXCEPT ![c] = "retried"]
  /\ reader' = NoConsumer
  /\ EnsureProducer(gw, Spec(ocr, RoleOf[c]))
  /\ UNCHANGED <<surroundings, route, sampler, due, arrivals>>

Without(c) == [client EXCEPT ![c] = "away"]
(* Mutant: the session's own count of viewers is not brought up to date.   *)
ReleasedLate(panes) == IF gw.open THEN [gw EXCEPT !.view = 0] ELSE gw

Released(panes) == IF gw.open THEN Viewed(gw, Viewers(panes)) ELSE gw

(* The pane closes, or gave up waiting (409): release_live, unwatch.       *)
Leave(c) ==
  /\ client[c] # "away"
  /\ route[c].at = "idle"
  /\ client' = Without(c)
  /\ gw' = Released(Without(c))
  /\ UNCHANGED <<surroundings, job, route, reader, sampler, due, arrivals>>

(* A pane whose picture went stale has the decoder restarted and ends; the *)
(* browser comes back as a new request.                                    *)
Stall(c) ==
  /\ client[c] = "playing"
  /\ ~Current(gw)
  /\ client' = Without(c)
  /\ RestartDecoder(Released(Without(c)))
  /\ UNCHANGED <<surroundings, route, due, arrivals>>

-----------------------------------------------------------------------------
(* The camera loop, every tick, when software recognition reads the camera *)

Done(name) == name \in due /\ due' = due \ {name}

(* With MediaMTX the direct lease is dropped and the sampler started;      *)
(* without it, a camera that has no current picture gets a producer.       *)
Poll ==
  /\ Done("poll")
  /\ UNCHANGED <<surroundings, client, route, arrivals>>
  /\ CASE ocr /\ mtx ->
            /\ ReleaseDetect(gw)
            /\ reader' = IF StopsOnRelease(gw) THEN Killed(reader) ELSE reader
            /\ sampler' = Starting(IF StopsOnRelease(gw) THEN Killed(sampler) ELSE sampler, "LIVE")
       [] ocr /\ ~mtx /\ ~Current(gw) ->
            /\ EnsureProducer([SessionFor(gw, Spec(TRUE, "LIVE")) EXCEPT !.detect = 1],
                              Spec(TRUE, "LIVE"))
            /\ UNCHANGED <<reader, sampler>>
       [] OTHER -> UNCHANGED <<gw, job, reader, sampler>>

-----------------------------------------------------------------------------
(* The watchers                                                            *)

(* A producer that runs but whose session has seen no bytes for long.      *)
Silent(g) == g.fresh # Never /\ g.fresh >= Dead /\ g.heard >= Stale

StaleWatch ==
  /\ Done("stale")
  /\ UNCHANGED <<surroundings, client, route, arrivals>>
  /\ CASE gw.open /\ ~Alive(gw) /\ Wanted(gw) /\ gw.wait = 0 ->
            /\ EnsureProducer(gw, Spec(gw.need, gw.role))
            /\ UNCHANGED <<reader, sampler>>
       [] gw.open /\ Alive(gw) /\ Silent(gw) -> RestartDecoder(gw)
       [] OTHER -> UNCHANGED <<gw, job, reader, sampler>>

IdleWatch ==
  /\ gw.open
  /\ ~Wanted(gw)
  /\ gw.view >= Idle
  /\ gw.producer # NoTask \/ reader.at = "reading" \/ sampler.at = "reading"
  /\ StopProducer(gw)
  /\ reader' = Killed(reader)
  /\ sampler' = Killed(sampler)
  /\ UNCHANGED <<surroundings, client, route, due, arrivals>>

(* The camera loop finds that the camera left this node's scope: it stops  *)
(* everything local instead.                                               *)
ClearInactive ==
  /\ Done("poll")
  /\ changes < MaxChanges
  /\ changes' = changes + 1
  /\ reader' = NoConsumer
  /\ sampler' = NoConsumer
  /\ IF gw.open THEN StopProducer(ReleasedDetect(gw)) ELSE UNCHANGED <<gw, job>>
  /\ UNCHANGED <<kind, ocr, http, camera, mtx, client, route, arrivals>>

-----------------------------------------------------------------------------
(* The producer.  Its steps between two ticks are the points where         *)
(* _produce and the loops it calls look at the session.                    *)

Moved(t, stage) == [job EXCEPT ![t] = [@ EXCEPT !.at = stage, !.since = 0]]

(* Mutant: whichever task ends clears the session's producer.              *)
FinallyAnyone(t) ==
  /\ job' = [job EXCEPT ![t] = NoJob]
  /\ gw' = [gw EXCEPT !.producer = NoTask]

(* The finally of _produce: only the registered task takes itself off.     *)
Finally(t) ==
  /\ job' = [job EXCEPT ![t] = NoJob]
  /\ gw' = IF gw.producer = t THEN [gw EXCEPT !.producer = NoTask] ELSE gw

Close(t) ==
  /\ job[t].at = "closing"
  /\ Finally(t)
  /\ UNCHANGED <<surroundings, client, route, reader, sampler, due, arrivals>>

Picture(t) == job[t].since = 0       \* bytes came in this tick
Frozen == gw.fresh >= 2 * Stale

(* The next stage of a task that has something to decide, else its own.    *)
SdkStage(t) ==
  CASE job[t].at = "opening" /\ (~Wanted(gw) \/ job[t].since >= ReadTimeout) -> "backoff"
    [] job[t].at = "live" /\ ~Wanted(gw) -> "ready"
    [] job[t].at = "live" /\ Wanted(gw) /\ ~Picture(t)
         /\ (gw.fresh >= Stale \/ job[t].since >= ReadTimeout) -> "backoff"
    [] OTHER -> job[t].at

RtspStage(t) ==
  CASE job[t].at = "opening" /\ job[t].since >= OpenLimit -> "stills"
    [] job[t].at = "live" /\ Picture(t) /\ ~Wanted(gw) -> "ready"
    [] job[t].at = "live" /\ Picture(t) /\ Wanted(gw) /\ Frozen -> "stills"
    [] job[t].at = "live" /\ job[t].since >= ReadTimeout -> "opening"
    [] OTHER -> job[t].at

(* Snapshots are polled for as long as they have not brought a picture.    *)
HttpStage(t) ==
  CASE job[t].at = "stills" /\ ~Wanted(gw) -> "backoff"
    [] job[t].at = "slides" /\ ~Wanted(gw) -> "ready"
    [] job[t].at = "slides" /\ Wanted(gw)
         /\ IF Picture(t) THEN Frozen ELSE gw.fresh >= Stale -> "backoff"
    [] OTHER -> job[t].at

NextStage(t) ==
  CASE job[t].at = "ready" -> IF Wanted(gw) THEN "opening" ELSE "none"
    [] job[t].at = "backoff" -> IF gw.wait = 0 THEN "ready" ELSE "backoff"
    [] job[t].at \in {"stills", "slides"} -> HttpStage(t)
    [] job[t].at \in {"opening", "live"} -> IF kind = "sdk" THEN SdkStage(t) ELSE RtspStage(t)
    [] OTHER -> job[t].at

Urgent(t) == NextStage(t) # job[t].at

Backoff(t) ==
  /\ \E w \in Waits : gw' = [gw EXCEPT !.wait = w]
  /\ job' = Interrupted(Moved(t, "backoff"))
  /\ reader' = Killed(reader)
  /\ sampler' = Killed(sampler)

Produce(t) ==
  /\ Urgent(t)
  /\ CASE NextStage(t) = "none" -> Finally(t) /\ UNCHANGED <<reader, sampler>>
       [] NextStage(t) = "backoff" -> Backoff(t)
       [] OTHER -> job' = Moved(t, NextStage(t)) /\ UNCHANGED <<gw, reader, sampler>>
  /\ UNCHANGED <<surroundings, client, route, due, arrivals>>

-----------------------------------------------------------------------------
(* The consumers of MediaMTX                                               *)

ReaderWanted == mtx /\ Viewers(client) > 0

Reader ==
  /\ \/ /\ reader.at \in {"ready", "pause"}
        /\ reader' = IF ReaderWanted THEN [reader EXCEPT !.at = "reading"] ELSE NoConsumer
        /\ gw' = IF reader.at = "ready" THEN SessionFor(gw, Spec(ocr, reader.role)) ELSE gw
     \/ /\ reader.at = "reading"
        /\ ~ReaderWanted
        /\ reader' = NoConsumer
        /\ UNCHANGED gw
  /\ UNCHANGED <<surroundings, client, job, route, sampler, due, arrivals>>

(* The detect lease is what keeps the sampler going.                       *)
Leased(g) == IF sampler.at = "ready" THEN [SessionFor(g, Spec(TRUE, "LIVE")) EXCEPT !.detect = 1] ELSE g
Unleased(g) == [g EXCEPT !.detect = IF @ > 0 THEN @ - 1 ELSE 0]
SamplerWanted(g) == mtx /\ (g.detect > 0 \/ Viewers(client) > 0)

Sampler ==
  /\ sampler.at # "none"
  /\ sampler.at = "reading" => ~SamplerWanted(gw)
  /\ IF SamplerWanted(Leased(gw))
     THEN /\ sampler' = [sampler EXCEPT !.at = "reading"]
          /\ gw' = Leased(gw)
     ELSE /\ sampler' = NoConsumer
          /\ gw' = Unleased(Leased(gw))
  /\ UNCHANGED <<surroundings, client, job, route, reader, due, arrivals>>

-----------------------------------------------------------------------------
(* Time and the surroundings                                               *)

Delivers(t) ==
  /\ camera # "down"
  /\ \/ job[t].at = "live"
     \/ job[t].at = "opening" /\ (kind = "sdk" \/ job[t].since + 1 >= FirstFrame)
     \/ job[t].at \in {"stills", "slides"} /\ http

Advanced(t) ==
  CASE Delivers(t) ->
         [job[t] EXCEPT
            !.at = CASE @ = "opening" -> "live" [] @ = "stills" -> "slides" [] OTHER -> @,
            !.since = 0]
    [] ~Delivers(t) /\ job[t].at \in {"opening", "live", "stills", "slides"} ->
         [job[t] EXCEPT !.since = IF @ < Patience THEN @ + 1 ELSE @]
    [] OTHER -> job[t]

Older(age, limit) == IF age < limit THEN age + 1 ELSE age
Sooner(wait) == IF wait > 0 THEN wait - 1 ELSE 0

(* Half a second: everything that was due has run.  A cancelled task takes *)
(* up to three seconds to end its FFmpeg; all that is left to it is its    *)
(* finally, so the model lets it end before the tick, and a live/watch     *)
(* request be answered.  A camera with a still picture sends changed bytes *)
(* only now and then.                                                      *)
Tick ==
  /\ due = {}
  /\ \A t \in Tasks : ~Urgent(t)
  /\ \A t \in Tasks : job[t].at # "closing"
  /\ \A c \in Clients : route[c].at = "idle"
  /\ reader.at # "ready" /\ sampler.at # "ready"
  /\ due' = {"stale", "poll"}
  /\ job' = [t \in Tasks |-> Advanced(t)]
  /\ \E bytes \in {(\E t \in Tasks : Delivers(t)) \/ (reader.at = "reading" /\ camera # "down")} :
     \E changed \in {bytes /\ camera = "up"} \cup (IF bytes /\ camera = "still" THEN BOOLEAN ELSE {}) :
       gw' = [gw EXCEPT
                !.fresh = IF changed \/ (bytes /\ @ = Never) THEN 0
                          ELSE IF @ = Never THEN Never ELSE Older(@, Dead),
                !.heard = IF bytes THEN 0 ELSE Older(@, Stale),
                !.view = Older(@, Idle),
                !.wait = Sooner(@)]
  /\ UNCHANGED <<surroundings, client, route, reader, sampler, arrivals>>

(* Only a tick looks at the camera.                                        *)
CameraChanges ==
  /\ due = {}
  /\ changes < MaxChanges
  /\ changes' = changes + 1
  /\ camera' \in {"up", "still", "down"} \ {camera}
  /\ UNCHANGED <<kind, ocr, http, mtx, client, gw, job, route, reader, sampler, due, arrivals>>

(* A native camera has no MediaMTX path.                                   *)
SidecarChanges ==
  /\ kind = "rtsp"
  /\ changes < MaxChanges
  /\ changes' = changes + 1
  /\ mtx' = ~mtx
  /\ UNCHANGED <<kind, ocr, http, camera, client, gw, job, route, reader, sampler, due, arrivals>>

Init ==
  /\ kind \in Kinds
  /\ ocr \in OcrModes
  /\ http \in BOOLEAN /\ (kind = "sdk" => ~http)
  /\ camera \in {"up", "down"}
  /\ mtx \in BOOLEAN /\ (kind = "sdk" => ~mtx)
  /\ client = [c \in Clients |-> "away"]
  /\ gw = NoSession
  /\ job = [t \in Tasks |-> NoJob]
  /\ route = [c \in Clients |-> NoRoute]
  /\ reader = NoConsumer
  /\ sampler = NoConsumer
  /\ due = {}
  /\ arrivals = 0
  /\ changes = 0

Next ==
  \/ \E c \in Clients : Open(c) \/ Watch(c) \/ Play(c) \/ Fallback(c) \/ Leave(c) \/ Stall(c)
  \/ RouteStep
  \/ Poll
  \/ StaleWatch
  \/ IdleWatch
  \/ ClearInactive
  \/ \E t \in Tasks : Produce(t) \/ Close(t)
  \/ Reader
  \/ Sampler
  \/ Tick
  \/ CameraChanges
  \/ SidecarChanges

(* The event loop runs every task and timer that is ready; a request ends  *)
(* within its four seconds.  Nothing makes a pane come, go or change.      *)
Fairness ==
  /\ WF_vars(Tick)
  /\ WF_vars(Poll)
  /\ WF_vars(StaleWatch)
  /\ WF_vars(IdleWatch)
  /\ WF_vars(\E t \in Tasks : Produce(t) \/ Close(t))
  /\ WF_vars(RouteStep)
  /\ WF_vars(Reader)
  /\ WF_vars(Sampler)
  /\ \A c \in Clients : WF_vars(client[c] = "retried" /\ Leave(c))

MediaSpec == Init /\ [][Next]_vars
FairSpec == MediaSpec /\ Fairness

-----------------------------------------------------------------------------
(* Properties *)

TypeOK ==
  /\ kind \in Kinds /\ ocr \in OcrModes /\ http \in BOOLEAN /\ mtx \in BOOLEAN
  /\ camera \in {"up", "still", "down"}
  /\ client \in [Clients -> Panes]
  /\ gw \in Session
  /\ job \in [Tasks -> Job]
  /\ route \in [Clients -> Route]
  /\ reader \in Consumer /\ sampler \in Consumer
  /\ due \subseteq {"stale", "poll"}
  /\ arrivals \in 0 .. MaxArrivals /\ changes \in 0 .. MaxChanges

(* At most one producer reads the camera, and it is the registered one,    *)
(* beside those that live/watch, on its thread, takes off the session      *)
(* while they run: a replaced task that ends late does not take its        *)
(* successor off the session (_produce's finally, ensure_producer).        *)
OneProducer ==
  \A t \in Tasks : Running(t) /\ ~job[t].astray => gw.producer = t

(* A camera whose picture is back, and which recognition reads, shows a    *)
(* current picture again and again, however long it was dark (the stale    *)
(* watch, the reconnect delay and the camera loop together).  Left out is  *)
(* a camera that never had a picture and answers no snapshots.             *)
Trapped == \E t \in Tasks : job[t].at = "stills" /\ ~http /\ gw.fresh = Never
PictureReturns ==
  <>[](ocr /\ ~mtx /\ camera = "up" /\ ~Trapped) => []<>Current(gw)

(* Nothing reads a camera for good when no pane looks and no recognition   *)
(* reads it (release_live, the producer's own look at the leases, idle     *)
(* watch).                                                                 *)
StopsUnwatched ==
  <>[](~ocr /\ \A c \in Clients : client[c] = "away")
    => <>[](\A t \in Tasks : ~Running(t))
=============================================================================

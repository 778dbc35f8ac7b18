# SmartPark in TLA+

SmartPark runs a car park's gates: cameras read number plates, a session is
opened when a vehicle enters, a fee grows while it stays, it is paid in cash at
a kiosk or by mobile money on a phone, and the barrier lets the vehicle out when
nothing is owed. This directory specifies the parts of it where things happen at
the same time or late or twice: the parking session between the recognition
events of the lanes, the people who pay, the providers that answer late and the
barrier; the way of a plate from a camera to that session; and the tasks that keep
cameras and pictures going.

## Inventory

Everything that matters is under `src/app` and `src/tools/hvx_sdk_host`. A site
runs one Python process with one asyncio event loop, or
(docs/LANE-DEPLOYMENT.md) one process per gate and a server, sharing one
PostgreSQL database; beside each run a recognition worker process and a native
camera host. `async` handlers of one process are atomic between their awaits;
`def` routes (pay, close) run in a thread pool; processes interleave at every
transaction. Database sessions are made with `autoflush=False,
expire_on_commit=False` (db.py): a handler works on the copy of the row it loaded,
a commit writes the columns it changed, and only `refresh()` shows it what others
wrote.

| component (source) | state | operations | hard because | module |
|---|---|---|---|---|
| Lifecycle (domain/parking_engine.py) | none: a relation | allowed_targets, stored_status_for, infer_lifecycle | two encodings of one state (lifecycle, status) | ParkingLifecycle |
| Exit lane (application/exit_lane.py) | the row; a handler's copy | submit_plate, submit_qr, vehicle_passed | several events, one barrier, an await in the middle, crashes | ExitLane |
| Entry lane (application/entry_lane.py) | the row, the print job | submit, confirm_receipt_taken, retry_gate, vehicle_left | printer, taken sensor and barrier awaits, redelivered events | EntryLane |
| Session transactions (services/parking_sessions.py) | parking_sessions, parking_entry_claims | start_entry, start_exit, complete_authorized_exit, mark_vehicle_passed | one commit per lifecycle step, check on a copy | ExitLane, EntryLane; identity by visit in CapturePipeline |
| Receipt jobs (services/receipt_jobs.py) | print_job_status | print, taken, expire, override | duplicate taken events, a printer that lies | EntryLane (print, taken) |
| Ledger and cash (infrastructure/payments/ledger.py, services/simulation.py, services/public_pay.py) | payment_transactions, amount_due, status, grace | quote, mark_paid, record_succeeded_payment, receipt page | requote against a payment, idempotency keys | ExitLane, PaymentLedger |
| Mobile payments (services/mobile_payments.py, infrastructure/payments/*) | payment_intents | start, webhook, reconcile, expire | lost and late answers, redelivered webhooks, sweeps on old lists | MobilePayments |
| Recognition workers (recognition_worker.py, services/recognition_runtime.py, services/camera_framing.py) | lanes, scheduler slots, visits, arrival gates | look, read, publish, supervise | native calls nobody can stop, timeouts, replaced tasks | RecognitionWorker |
| Fusion (core/fusion.py, core/hybrid.py) | a lane: waiting readings, recent decisions | resolve_readings, offer, flush | late evidence | HybridFusion |
| Capture pipeline (services/queues.py, services/captures.py, loops of api_main.py) | SQLite queue, processed keys, captures, readings in memory | enqueue, deliver, persist, hand over, ack | crash between two databases, redelivery, switched modules | CapturePipeline |
| Capture evidence gate (services/captures.py, core/plate.py) | none | should_persist_vehicle_capture | nested thresholds on six kinds of evidence | CaptureGate |
| Tariff (services/fee_engine.py) | none | calculate_car1_fee | boundaries in time | Tariff |
| Media gateway (services/media_gateway.py, preview.py, mediamtx_*.py) | per camera: leases, producer task, last picture | ensure, release, produce, watch | replaced tasks, three watchers, reconnect delays | MediaGateway |
| Native camera host (tools/hvx_sdk_host, services/hvx_client.py, loops of api_main.py) | sessions by number, callback queues; cameras.sdk_handle | connect, disconnect, drain, restore | numbers that outlive what they name, lost answers, two PCs | NativeHost |
| Circuit breaker (services/circuit.py) | state, failures | allow, success, failure | half-open probes | not modelled (the fairness of NativeHost's Poll stands for it) |
| Gates, printers, cameras, desktop, settings, reports | devices, configuration | - | device I/O, user interface | not modelled |

`api_main.py` is the environment of all of them: its routes and loops
(`_persist_capture_event`, `_outbox_loop`, `_payments_reconcile_loop`,
`_camera_loop`, `_hvx_watch_loop`, `_camera_event_loop`) decide who calls what, and
how often.

How they meet: the worker queues one event for a visit (RecognitionWorker); the
site service takes it, with the readings of a camera that reads plates itself,
decides which plate it was (HybridFusion), keeps it or not (CaptureGate) and hands
it to a lane (CapturePipeline); the lane opens or ends a session and pulses a
barrier (EntryLane, ExitLane), which some cameras switch through their native
session (NativeHost); the fee (Tariff) is quoted at the exit and paid in cash or
by phone (MobilePayments). The row of parking_sessions is what lanes and payments
share, the queue what worker and service share, the number of a native session
what the service and its host share.

What makes the components correct:

- exit: one command per session; no pulse without a grant; no session closed on
  a barrier that did not open; what opened is recorded; one event owns an exit;
  a closed lifecycle is final; a granted vehicle gets out;
- entry: no pulse before the driver holds a required slip, whatever printer and
  sensor report; one pulse per visit although events are redelivered; no fee runs
  for a vehicle whose barrier did not open; what opened is recorded; an admitted
  vehicle gets in, printer or no printer;
- money: PAID has money behind it; a collection is credited once and only when
  the provider holds it; a confirmed collection is credited in the end; the fee is
  what the schedule says;
- worker: slots do not leak and are not overbooked, a visit gives one event and the
  event is not lost, reading never stops;
- pipeline: one accepted decision and one session for a visit, nothing
  acknowledged before it is stored, nothing left in the queue;
- pictures and sessions: one producer, a picture that comes back, nothing that runs
  for nobody; no native session of a camera lost for good, the one it has reached in the
  end under its own number.

## Modules

`ParkingLifecycle` is parking_engine.py as operators: the transition table, what
a policy removes (`HeldByReceipt`) and adds (`PassageShortcut`), the stored
status, and how SQLAlchemy writes a column (`Column`).

`ExitLane` is one session at the exit. `row` is the parking_sessions row; `att`
the calls of the controller, each with its program counter and the copy `seen` it
works on; `ledger` the SUCCEEDED transactions; `cash` the calls of mark_paid;
`intent` mobile payments in outline (MobilePayments has them in detail); `now` a
clock. One commit is one action and one refresh is one action (`Refresh`), so that
other processes, thread-pool routes and crashes fall between any two of them.
`MayRun` is the event loop: with `OneLoop` only handlers at an await are
interrupted by other handlers. `Fee` is the tariff as a function of time.
`Drive` is start_exit's walk, `ClaimCommand` the conditional UPDATE of
exit_open_command_uuid, `Pulse` the await on the barrier, `RequestOpen` and
`CountAsPassed` complete_authorized_exit.

`EntryLane` is one visit at the entry. `row` is the parking_sessions row with the
print job's state, `paper` the slip itself (in the printer, presented, in the
driver's hand), `call` the calls of the controller: recognition events (`Submits`,
redelivered ones included), confirmations, retries and departures. `ProcessOf` says
which process a call runs in; calls of one process interleave at awaits only.
`Submit`, `Identify` and `CreateSession` are start_entry's three commits;
`ClaimJob` to `Misprint` print_entry_receipt; `Confirm`, `Sense` and `MarkTaken`
confirm_receipt_taken with the taken sensor; `Authorize` to `Pulse`
_authorize_and_open; `RequestOpen`, `Pass` and `Activate` the transactions after
the pulse. The slip and the row are separate on purpose: a printer may report a
failure and present the slip all the same.

`PaymentLedger` is what mobile payments promise: entries only for confirmed
collections, at most one each. `MobilePayments` is the code: `intent` rows, the
`call` that made each, the collection at the `provider`, ledger `entries`, and
`job`s, which are webhook deliveries and sweeps. A handler is atomic between awaits;
the awaits are the answers of `initiate_collection` (`Answer`, written over
whatever is stored) and `query_status` (`Reply`). A sweep works through the list
it read at its start. `ImplementsLedger` is the refinement.

`RecognitionWorker` is the worker process. `lane` is a camera's mailbox, visit and
arrival gate, `task` its lane task with the native call it awaits, `held` and
`waiting` the scheduler, `stray` native calls whose task is gone. `Frame` is the
decoder, `PollQueued`, `PollStale` and `PollAdmit` the top of the loop, `Probe*`,
`Locate*` and `Ocr*` what a look finds (the environment's choice), `Publish` and
`PublishFails` the thread that writes the queue, `OcrTimeout` and `DrainDone` a
reading that is given up, `RetireStalled` and `RetireEdited` the supervisor, `Close`
the cancelled task's end. A lane's in-flight ticket and generation are left out: a
task's ticket is current whenever it comes back, because one task awaits one call.

`HybridFusion` holds operators only: resolve_readings in HYBRID mode with its
thresholds, and the coordinator of core/hybrid.py, which takes a lane (waiting
readings with ages, decided plates) to the next. `CapturePipeline` runs them: the
queue, the database (`captures`, `sessions`, `processed`), and three tasks of the
site service (`work`): the queue's loop, the drain of a camera's own callbacks and
the flush of readings whose counterpart did not come. `Persist` and `Handle` are the
two halves of _persist_capture_event, `Ack` the acknowledgement with its mark. One
outcome of `Persist` is that the capture gate refuses the reading (captures.py:599):
nothing is stored, the caller is not told and the item is acknowledged. `refused`
remembers such visits; which readings are refused is left open here and is the matter
of `CaptureGate`. `Fail` and `Crash` are what can happen between these steps, `Switch`
turns a module, camera or worker on or off. A visit is named by the process that saw it begin. Only the entry
side is there, the site's plate validation is the set `AutoOpen`, and the window of
events handled "a moment ago" is cleared by a tick.

`CaptureGate` is should_persist_vehicle_capture as a predicate, `Tariff`
calculate_car1_fee as functions of entry and exit, beside a schedule that counts
unbroken runs of day and night without walking along the stay. `MCAlgorithms` feeds
both.

`MediaGateway` is one camera's session in the media gateway. `gw` is the
StreamSession (registered producer, viewers, leases, age of the picture, reconnect
delay), `job` the producer tasks with their stage (native pictures, RTSP, HTTP
snapshots, waiting), `client` the panes, `reader` and `sampler` the MediaMTX
consumers. A tick is the 0.5 s of the stale watch; `due` makes the watch and the
camera loop run once in each. `Open`, `Play`, `Fallback` and `Leave` are the routes of
a pane on the event loop. `Watch` is POST live/watch, which runs on a thread: what it
reads, `CancelExisting` and `Unregister` are three steps beside the loop's, and `route`
says how far a request is. `Poll` the camera loop, `StaleWatch`, `IdleWatch` and
`ClearInactive` the watchers, `Produce` and `Close` a producer's stages and its
`finally`. The times are scaled; their order and the comparisons between them are
the code's.

`NativeHost` is two lane PCs. `row` is cameras.sdk_handle, which they share;
`session` what each host's SDK has under which number, with the address
_recognition_sessions lists for it; `kept` the host's _connection_results; `call` a
connect or disconnect that a loop or an operator waits for, or that nobody waits for any
more (`Stray`: `TimesOut` hands it over, the host goes on with it); `watch` a pass of
_hvx_watch_loop (`Look`, `ReleaseOne`, `Scan`, `RestoreOne`); `spec` the numbers the event
loop works with between two `Refresh`; `place` where a plate callback is. A host serves
its requests on a pool of threads. add_and_connect (`HostTakesIn`, `HostAdds`,
`HostKeeps`) holds the lock of the address from the first step to the last; disconnect
holds none, takes a number out of the books (`HostForgets`) and closes what the SDK then
has under it (`HostCloses`), also when add_and_connect itself calls it to replace a dead
session. Disturbances are a host that restarts, a camera away and back, a client that
gives up, a lost drain, an exception while callbacks are stored, a camera that moves to
another PC, an operator. `Look` is one step although the code asks its host twice, the
two pops of disconnect are one step and so are its two native calls; a PC has one stray
request at a time; the restore's 30 s pause after a failure, changed credentials, the
fallback to plain video, the failure of a registration and the callbacks that a full
deque drops (hvx_sdk.py:596) are left out.

The MC modules instantiate them for TLC; `*_proofs` hold the theorems.
Operators whose comment starts with "Mutant:" are plausible bugs, each of them the
reason why a property would fail; they are in no specification.

## Runs

| run | instance | shows |
|---|---|---|
| ExitLane_one_process | 2 events, a cashier, a mobile payment, one loop, 2 instants | all safety properties of the exit |
| ExitLane_leaves | 2 events and a redelivery, one loop, fairness | one pulse under redelivery; a granted vehicle leaves |
| EntryLane_visit | 2 events, a confirmation, a retry, a departure, one process, fairness | the slip before the barrier, one pulse, ACTIVE only after an opening, what opened is recorded; an admitted vehicle gets in |
| MobilePayments_ledger | 2 intents, a webhook, a sweep, fees up to 2 | the refinement and the books |
| MobilePayments_confirmed | 2 intents, one sweep, fairness | sweeps alone credit confirmed collections |
| RecognitionWorker_visits | 2 cameras, 1 slot, 2 vehicles, 1 disturbance, fairness | slots, one event per visit, no lost event, reading goes on |
| CapturePipeline_fusion | a camera that reads plates, 2 callbacks, a slight misreading, 1 fault, 1 switch | one accepted decision, one session per visit |
| CapturePipeline_queue | 2 vehicles, 2 faults, 2 switches, batches of 3, fairness | nothing acknowledged before it is stored or refused; without faults only the refused get no session and no operator; the queue drains |
| CapturePipeline_lost | 1 vehicle, 1 fault | violated: "parking events never silently drop" |
| MediaGateway_recovery | native or RTSP camera, 1 pane, 2 changes around it, fairness | one registered producer, and none beside it but those live/watch left astray; the picture comes back; nothing runs for nobody |
| NativeHost_sessions | 2 PCs, 2 cameras, 2 numbers, a callback, any 2 disturbances, fairness | of two sessions with one camera one is being closed; while the host's books are true, every camera is reached on its own PC in the end; callbacks are fetched |
| Algorithms | 12 times of entry, stays up to 2 days and more, every kind of capture | the fee follows the schedule; a better view is kept |

Bounds. At the exit two calls are enough for every race: what decides is whether
somebody else wrote between a call's load and its commit, and one other writer
gives every such interleaving; the third call of ExitLane_leaves adds redelivery.
Two instants give a fee that grew after it was quoted. At the entry a second event
is a redelivery, and confirmation, retry and departure are the three other ways to
touch the visit; REQUIRE_TAKEN_BEFORE_OPEN with every kind of parker also gives the
paths without a receipt. Two intents give a prompt that is repeated for a grown
fee; ages 0..3 are the four classes the code distinguishes (15 s, 90 s, expiry).

`MaxVisits`: two vehicles in a row before one camera, so that the gate and the visit
of the first may be mistaken for the second's, while the other camera competes for
the slot; `MaxDisturbances` 1: an edit, a lost stream or a crash at any moment;
`MaxStray` 1: the supervisor does not cancel a task again while a call of an earlier
one runs. `MaxNative` 2: the camera reads one vehicle twice, and the worker once;
plates pb and pc are alike above the threshold of a repeat. `Limit` 3 stands for the
20 items of a batch; the queue stays below it, as it must (below). `Wait` <
`PairWindow` < `Hold` are scaled and keep the defaults' order. `MaxArrivals` 1 and
`MaxChanges` 2: a pane comes once and the camera, the sidecar or the scope changes
twice: away and back; one live/watch request is enough to leave a producer astray.
`Numbers` 2: a number of a moved or restarted session is used
again for the other camera. Stays of 110 half hours cross every boundary of the day
twice; entries lie on, before and after each.

Deadlock is not checked: a session that is closed, or whose events are all
handled, a queue that is empty and a bound that is used up rightly stop.

Fairness. ExitLane: a handler that can run does (the event loop, the scheduler;
the barrier client has a timeout), and a passage call that stored its first state
stores its second. Nobody is forced to arrive or to pay. EntryLane: some call that
began goes on, as long as one can, and the printer, the sensor and the barrier answer
(their clients have timeouts); nobody has to arrive, confirm or take the slip.
AdmittedEnters speaks of behaviours without faults (no lost or failed pulse, no dead
handler) and without an operator. MobilePayments: time passes, the
reconciliation loop comes round (`_payments_reconcile_loop` never ends and survives
exceptions), an answer that arrived is handled, and a provider asked again and again
about one collection does not fail every time (strong fairness; HTTP errors are
transient). The liveness run assumes that jobs are not aborted for ever.
RecognitionWorker: a lane's task is scheduled, its native call returns or its
timeout fires, the supervisor comes round; a camera that is first in line again and
again when a slot is free takes it (strong fairness: the queue is first come first
served, and the slot may be taken between two polls). KeepsReading speaks of
behaviours whose streams deliver. CapturePipeline: the three loops come round; a
fault is not repeated for ever, because faults are bounded. MediaGateway: time
passes, the watchers, the camera loop and the consumers run in each tick, some producer
task that has something to do goes on, a thread that began a live/watch ends it. NativeHost: the loops come round, a host answers what it was asked, a
camera that is away comes back.

## What the runs found

- A crash, or an exception, between the commit of a capture and its session loses
  the vehicle: the redelivered event finds the capture, is a duplicate and is
  acknowledged (CapturePipeline_lost; queues.py:1 says "parking events never
  silently drop").
- Without any fault an event is lost in one way only: the capture gate refuses its
  reading, persist_event returns None (captures.py:599-606), _persist_capture_event
  returns (api_main.py:3497) and the loop marks the event processed (api_main.py:4068),
  with neither a capture nor a session nor anything for an operator to see.
  StoredBeforeAck and DroppedByFaultsOnly name this case (`WasRefused`).

Checked with TLC while modelling, and true of the code, but not kept as runs:

- start_exit's takeover test reads a copy loaded before the row lock
  (parking_sessions.py:551); in two processes an exit in flight changes hands. With
  `OneLoop = FALSE` `LifecycleClosedIsFinal` fails in the same way:
  `_commit_transition` writes an older lifecycle over CLOSED.
- exit_event_id and exit_open_command_uuid are never given back (exit_lane.py:271):
  after a failed pulse or a crash the vehicle at the barrier is told that another
  exit is in progress. The operator has to open by hand.
- a second press of pay in the grace period moves the price (simulation.py:593).
- mark_paid's settlement key is constant (simulation.py:606): a second cash
  settlement is taken for a redelivery and is not recorded.
- a charge request that timed out leaves FAILED behind although the driver was
  prompted; when he pays, the webhook is ignored and nobody asks the provider
  (mobile_payments.py:279).
- the drain loop does not wait for the call of a cancelled task
  (recognition_worker.py:454): for a while two native calls of one camera run.
- the first in line for a slot may be a camera whose stream has ended; it does not
  ask any more and the others starve (recognition_runtime.py:460).
- a late reading that is nothing like the first is accepted as a second arrival
  (core/hybrid.py:99), so AcceptedOnce is stated for readings alike enough to be
  repeats.
- with twenty kept items of a disabled module every batch of the outbox loop is
  full of them and the loop stands still (api_main.py:4029).
- release_detect is called on every pass of the camera loop and takes the lease of
  the sampler that is running (api_main.py:4307; mediamtx_detect.py:99 says not to):
  unless an operator watches, the sampler ends and starts anew with another FFmpeg.

Divergences that no run shows, met while modelling:

Lanes and payments:

- the grace period is set by the first, default call of
  apply_session_payment_state (ledger.py:72), so the configured one has no effect;
- a payment for a session closed by hand stores PAID, an open status;
- the reuse check of start_mobile_payment ignores CREATED intents: a second press
  while the first charge request is unanswered prompts the phone again (the
  ledger stays right);
- a confirmation that waited for the taken sensor stores RECEIPT_TAKEN from its old
  copy, over ENTRY_AUTHORIZED, ACTIVE or ENTRY_CANCELLED: with two confirmations, or
  one of a slip that nobody had to take. `OpenedIsRecorded` and `AdmittedEnters` of
  the entry therefore have the premise `Undisturbed`;
- a crash between the commits of start_entry leaves VEHICLE_DETECTED, and later
  events of the visit are answered "duplicate";
- retry_gate (entry_lane.py:249) pulses first and looks at the lifecycle
  afterwards; the operator is trusted, and the properties exempt `Retries`;
- vehicle_left may cancel an entry whose call is about to pulse: the barrier opens
  for it, and the session refuses to follow;
- after a failed pulse or a crash the entry, too, answers that a gate command is in
  progress; only retry_gate goes on;
- retry_gate, vehicle_left, operator_override, expire_if_not_taken,
  mark_receipt_presented and mark_vehicle_passed for ENTRY have no caller outside
  the tests; the first two are modelled because the lane offers them.

Fee and evidence:

- day_max and night_max can be edited and are never charged;
- with a tariff timezone is_daytime is local and _next_boundary is not
  (fee_engine.py:76, 83): with `Offset` # 0 FeeFollowsSchedule fails. No rule that
  ships sets one;
- the fee is not monotone: a full day's flat price may be less than what the hours
  before it cost;
- is_empty_scene_ocr promises that confident readings pass (plate.py:173) and does
  not look at the confidence.

Pictures:

- _http_stills of a camera that never gave a picture never returns to RTSP
  (`Trapped`, which PictureReturns leaves out);
- when a camera has been dark for 15 s the stale watch ends a restarted producer
  after half a second; recovery works because the camera loop and a pane ask for a
  producer without regard to the delay (`_restart_not_before`);
- the idle watch ends the MediaMTX consumer's FFmpeg every second when the session
  has no lease (media_gateway.py:996);
- the MJPEG fallback of api_main.py:3167 takes no lease, so its producer ends at once;
- beside a MediaMTX reader the stale watch may start a producer on the camera, which
  docs/MEDIA-ARCHITECTURE.md:17 excludes; SDK to RTSP fallback (same, :15) is blocked
  for native cameras (media_gateway.py:686);
- POST live/watch runs on a thread, where ensure_producer finds no event loop: it cancels
  a producer of another spec and starts none, or clears the task the loop has just
  registered (media_gateway.py:373). That task runs on, another one is started, and two
  of them read the camera, where preview.py:687 says "One gateway producer". OneProducer
  exempts just the tasks that were cleared so (`astray`), and StopsUnwatched shows that
  they end with the last lease;
- a watch without unwatch leaks a viewer; two panes with different roles replace each
  other's producer.

Native sessions:

- a number is used unchecked between a host's restart, or a camera's move, and the
  next pass of the watch loop (5 s): gates.py:125 may pulse the barrier of, and the
  event loop attribute callbacks to, another camera. Only the restore compares
  addresses (api_main.py:4213). SettlesOnOwner says when it is put right;
- a failed connect leaks the number Net_AddCamera gave;
- after an outage callbacks are registered again only if the outage was seen by a
  poll (hvx_sdk.py:907);
- a drain empties the queue before its answer arrives: an answer lost, or an exception
  at one callback, loses the batch; so does a move;
- disconnect takes no lock: between hvx_sdk.py:987 and :1019 a connect finds nothing kept
  for the address and adds a second session beside the one that is about to be closed
  (OneSession allows just that, and shows that nothing worse happens);
- two disconnects of one number (the watch loop's and an operator's, or one whose client
  gave up): the host may give the number out again after the first one closed it, and the
  second one, which has already forgotten it, closes the new session. The host goes on
  to list a number that is closed, and the watch loop believes the list: the camera is
  not restored. SettlesOnOwner is about behaviours in which the books become true
  again (`BooksAreTrue`);
- an operator's disconnect that races a restore leaves a session nobody knows, or is
  undone.

## What is proved

`ExitLane_proofs`, for any number of calls, events, cashiers and payments, any
tariff, one process or many: `TypeCorrect`, `OnePulse`, `PulseGranted`,
`ClosedAfterOpening`, `PaidBacked`. The argument for one pulse: openCommand is
written once, by the call that finds it empty, and a call is commanded, pulsing or
has pulsed only while openCommand is its own. For the grant: a row, or a copy, is
AUTHORIZED or later only when some call was granted. For the close: a row or copy
is past AUTHORIZED only when some pulse reported open.

`EntryLane_proofs`, for any number of events, confirmations, retries and departures,
any policy, one process or many: `TypeCorrect`, `OnePulse`, `HeldForReceipt`,
`ActiveAfterOpening`. The invariant has four parts. `CommandInv`: a call that is
pulsing, or has pulsed, owns the command id (retries apart). `OpeningInv`: the row
and every copy of it that says GATE_OPEN_REQUESTED or later has an opening behind it;
the copies are needed because old ones are written back. `CreatorInv`: one call
creates the session, and there is no slip before it printed. `SlipInv`: every way to
the barrier of a lane that requires the slip went through the sensor or through a
job already TAKEN, and a TAKEN job's slip is in the driver's hand.

The runs of both lanes are of one process; several processes are covered by these
theorems, which hold for every `OneLoop` and `ProcessOf`.

What depends on the schedule is proved for one process. `ExitLane_proofs` has
`OpeningRecorded`, `ClosedIsFinal` and `OwnerKeepsExit`, each under `OneLoop`. Their
invariant is `ScheduleInv`: one call at a time is between two awaits (`TurnInv`);
the copy such a call works on is the row, or the row before a step the lane or a
sensor may take behind its back (`CopyInv`, `Follows`: presented to active, passed to
closed); and from the decision until the barrier answers the row stays AUTHORIZED
(`HeldInv`). The copies matter: a call keeps one across `Drive`, and the last two
theorems say that writing it back never loses a later state.

`EntryLane_proofs` has `OpeningRecorded` under `SingleProcess` (one value of ProcessOf),
as long as nobody interferes by hand. Here too one call at a time is between two
awaits and its copy is the row (`TurnInv`, `CallGood`). What else it needs is who may
be about the session while the barrier is asked: where a receipt is due the print job
and the lifecycle go together (`StartInv`, `JobInv`), nobody prints once the sensor
saw the slip presented (`PrintInv`), and where none is due the creator is alone
(`AloneInv`).

`MobilePayments_proofs`, for any number of intents, webhooks and sweeps:
`TypeCorrect`, `SucceededCredited`, `PaidIsTotal`, and `Implements`, the refinement of
PaymentLedger. The invariant: an answered job that says SUCCEEDED is about a
collection the provider holds, which never stops being held; an entry is 0 or 1.
`PaidIsTotal` adds `HeldInv`, only money the provider holds is in the ledger, so an
intent that is being made changes no booked amount; and lemmas about sums over finite
sets (`SumsExist`, `SumsGrow`). Those are proved without an induction rule, from the
least number of elements at which they would fail.

`RecognitionWorker_proofs`, for any number of cameras, slots, vehicles and
disturbances: `TypeCorrect`, `NoSlotLeaks`, `CallsWithinLimit`, `EventOnce`,
`PublishedIsQueued`, `SettledVisit`. The invariant has three parts. `SlotInv`: a
camera that holds a slot has a call running and a call that is awaited has its slot,
so awaited calls are no more than slots. `VisitInv`: a lane is idle exactly when it
knows no visit, its gate holds only in one, and a task that reads or publishes is
about one. `EventInv`: an event of a visit is queued at most once, and a visit marked
as published has its event in the queue; looks at frames mark nothing
(`KeepsEvents`).

`CapturePipeline_proofs`, for any vehicles and plates, any number of crashes,
exceptions, callbacks and switches, and queues of any length:

- `AcceptedCertain`: what resolve_readings lets through without an operator was read
  with confidence by several frames or very surely by one, and no reader saw another
  plate, for every pair of readings. Like the four that follow it is about the code's
  thresholds and any similarity of plates;
- `TypeCorrect`, `EventsStoredBeforeAck`, `VisitGetsOneSession` without further
  assumptions;
- `ArrivalAcceptedOnce` under `MisreadingsAlike` (what a vehicle's plate is read as is
  alike), `OnlyFaultsDrop` under `PlatesTellApart` (another vehicle's plate is not like
  it). Both are limits of the code, not of the proof: the duplicate window and
  _existing_entry know a vehicle by its plate only. The fusion run has the first, the
  queue run the second.

The invariant says where a reading may be. `QueueInv`: an event is queued only after its
worker published it, once, and not after its key is marked; a retry has its capture.
`RowInv`: a session's plate, and the plate of a capture that opens a gate, is one its
vehicle was read as. `LaneInv`: so is what the coordinator holds or remembers, and,
where misreadings are alike, it remembers a vehicle once. `TaskInv`: what a task has in
hand is a stored row, an outcome still to be stored or an item of the queue, and an
event that is about to be acknowledged has its capture, was refused by the capture gate,
was marked before, or came while cameras are off. `SettledInv` adds, as long as nothing was disturbed, that a
stored capture has its session or its operator, or is in the hands of the loop that
will give it one.

`NativeHost_proofs`, for any number of PCs, cameras, operators and disturbances:
`TypeCorrect`, `OneSessionEach`. The invariant has three parts: the address's lock is held
once (`LockInv`); its holder's address has no number kept from the time the old one is
forgotten (`ForgottenInv`); and a session is the one that is kept, or about to be closed,
or was just added (`KeptInv`). Two that are not about to be closed are then the same.

`MediaGateway_proofs`, for any number of producer tasks and panes and any time limits
(the reconnect delays need a longest one, the code's BACKOFF_STEPS end):
`TypeCorrect`, `OnlyTheRegisteredProduces`. Types and OneProducer are inductive
together: every step of the loop that registers a task stops the one before it, a late
`finally` only unregisters its own, and a task that a thread clears is astray from then
on. That a live/watch request may cancel a task that is no longer the session's does no
harm to either.

`Algorithms_proofs`: `NoEvidenceAgainst`, for every capture and every way to see it
better; `FeeIsScheduled`, for every tariff and every stay, under `NoTimeZone` (Offset is
0, as in CAR1_RULES; with a time zone the code's day and its boundaries disagree), for
days that start before they end and end before midnight, as clock times do. It goes in four steps: at the next boundary, and not before, day turns to night or back
(`BoundaryIsNext`); a run of time has as many multiples of a block as `_blocks` counts
(`MultiplesUpTo`, by a bijection); the runs of a stay are the first one, which ends
where the walk stops, and those of the rest (`FirstRun`); so the walk charges the sum
of the prices of its runs (`WalkChargesRuns`). That the walk and the sums exist as
functions, and the last step, are proved from a least counterexample, as for the
ledger.

The proofs assume only the named assumptions of the modules and, where a theorem says
so, one of its named conditions (OneLoop, SingleProcess, MisreadingsAlike,
PlatesTellApart, NoTimeZone). Only model-checked are

- liveness under fairness: GrantedVehicleLeaves, AdmittedEnters, ConfirmedIsCredited,
  KeepsReading, EventsLeave, RetriesLeave, SettlesOnOwner, CallbacksMove,
  PictureReturns, StopsUnwatched.

Each needs WF or SF of an action, and so ENABLED, which the provers do not handle.
NothingDropped has no theorem: its run shows what breaks it. The type invariants of
RecognitionWorker, CapturePipeline, NativeHost and MediaGateway are proved and in no
run.

## Plan

Extensions: start_entry's claims and unique indexes with several vehicles and lanes;
the slip that is not taken; a composition of entry and exit.

## Not modelled

Device protocols, image processing, the desktop application, access control,
settings, reports and backup (PROJECT.json gives the reason for each), and in the
components above what their rows in PROJECT.json name: the exit side of the capture
hand-over, the MediaMTX configuration (in MediaGateway one flag says that MediaMTX
serves a camera, for the panes and for recognition, and no recognition worker reads it
instead, api_main.py:4293), the viewer counts that two threads may update at once
(preview.py:548, 601), WebRTC, the native host's pictures and inputs,
modes of fusion with one reader. The circuit breaker's half-open probe only
delays requests. simulation.handle_exit is a development path beside the exit lane.
Merged or narrowed where the properties do not tell the difference: a registered vehicle
and a parker kind are one kind of subscriber (exit_lane.py:75); an exit's claim is one
step, although its select, its lock and its commit are three statements, which a second
process could separate (parking_sessions.py:551); a settlement reads the ledger where the
code reads the row's amount_paid, which the ledger writes (simulation.py:595); the taken
sensor tells the truth (receipt_jobs.py:234); a collection credits the amount it was
asked for, an over-payment that `_check_match` lets through is not told apart
(mobile_payments.py:269), and a session's paid amount is added to where the code
recomputes it from the ledger (ledger.py:64); every intent is of one provider.
Amounts are integers: the code's floats are compared with a tolerance of 0.0001.

----------------------------- MODULE NativeHost -----------------------------
(***************************************************************************)
(* The native sessions of the cameras: the HVX host of each lane PC        *)
(* (tools/hvx_sdk_host), the watch loop and the event loop of the PC's     *)
(* site process and the connect and disconnect routes (api_main.py), and   *)
(* the node scope that says which PC a camera belongs to.                  *)
(*                                                                         *)
(* The PCs share the cameras table.  Its sdk_handle is a number that only  *)
(* the host that gave it can interpret: another PC's host, or the same     *)
(* host after a restart, may use it for another camera or for none.        *)
(* The handlers give way at every request to their host.                   *)
(*                                                                         *)
(* A host serves its requests on a pool of threads.  Two connects of one   *)
(* address wait for each other; a disconnect waits for nobody, and forgets *)
(* a session before it closes it.                                          *)
(***************************************************************************)
EXTENDS Integers, FiniteSets

CONSTANTS
  Nodes,        \* lane PCs
  Cameras,
  Numbers,      \* handles a host gives out
  Vehicles,     \* plate callbacks of the cameras
  None,
  Sites,        \* sites at work to begin with: the PC and the handle of each camera
  MaxDisturbances   \* bound: restarts, outages, lost answers, failures,
                    \* cameras given to another PC, operators' commands

ASSUME SetsAssumption ==
  /\ None \notin Cameras \cup Nodes \cup Numbers
  /\ Cameras \cap Numbers = {}
ASSUME SitesAssumption ==
  \A site \in Sites :
    /\ site.owner \in [Cameras -> Nodes] /\ site.row \in [Cameras -> Numbers]
    /\ \A c, d \in Cameras :
         c # d /\ site.owner[c] = site.owner[d] => site.row[c] # site.row[d]
ASSUME BoundAssumption == MaxDisturbances \in Nat

VARIABLES
  owner,    \* the PC in whose scope each camera is
  link,     \* does the camera answer?
  row,      \* sdk_handle of each camera
  session,  \* the sessions of each host, by number
  kept,     \* each host's number for an address, _connection_results
  call,     \* the connect or disconnect a loop, or an operator, waits for
  watch,    \* each PC's watch loop
  spec,     \* the handles each PC's event loop works with
  place,    \* where each callback is
  disturbed \* disturbances so far

vars == <<owner, link, row, session, kept, call, watch, spec, place, disturbed>>

-----------------------------------------------------------------------------
(* Data *)

(* Are plate callbacks registered, lost in an outage, or lost and known to
   be lost (_recognition_sessions[handle]["pending"])? *)
Images == {"armed", "lost", "pending"}

(* camera: what the SDK has under the number.  listed: the address that
   _recognition_sessions has for it. *)
Session ==
  [camera : Cameras \cup {None}, images : Images, listed : Cameras \cup {None}]
Closed == [camera |-> None, images |-> "armed", listed |-> None]
Opened(c) == [camera |-> c, images |-> "armed", listed |-> c]

(* The loop and the operators of a PC wait for one request each; "stray" is
   a request whose client has given up. *)
Callers == Nodes \X {"watch", "operator", "stray"}
NodeOf(a) == a[1]
Stray(n)  == <<n, "stray">>
IsStray(a) == a = Stray(NodeOf(a))
IsOperator(a) == a = <<NodeOf(a), "operator">>

(* A connect asks; if its host has a session of the address that is dead, that
   is to be replaced, forgotten and closed ("clearing"); the camera is added,
   and the new number kept.  A disconnect is taken in, forgets and closes.
   number: what is closed, or what the answer is. *)
Locking == {"replacing", "clearing", "adding", "added"}
AtHostStages == {"asking", "closing", "forgotten"} \cup Locking
Call ==
  [stage : {"idle", "answered", "closed"} \cup AtHostStages,
   camera : Cameras \cup {None}, loaded : Numbers \cup {None}, number : Numbers \cup {None}]
NoCall == [stage |-> "idle", camera |-> None, loaded |-> None, number |-> None]

(* What is left of a pass of the watch loop: the numbers to release, with the
   host's list for the time after that, and the cameras to restore. *)
Watch ==
  [seen : [Numbers -> Cameras \cup {None}], handles : SUBSET Numbers, cameras : SUBSET Cameras]
Nothing == [h \in Numbers |-> None]
Resting == [seen |-> Nothing, handles |-> {}, cameras |-> {}]

(* A callback waits at the host under its session's number, then in the
   event loop's batch of the camera it was drained for; in the end it is
   stored, or lost on the way. *)
Place ==
  [at : {"road", "host", "batch", "gone"}, node : Nodes \cup {None},
   number : Numbers \cup {None}, camera : Cameras \cup {None}]
Nowhere == [at |-> "road", node |-> None, number |-> None, camera |-> None]
Gone == [Nowhere EXCEPT !.at = "gone"]

(* camera_active_on_this_installation *)
Active(n, c) == owner[c] = n

SessionsOf(n, c) == {h \in Numbers : session[n][h].camera = c}
FreeNumbers(n) == SessionsOf(n, None)
AtHost(v, n, h)  == place[v].at = "host" /\ place[v].node = n /\ place[v].number = h
InBatch(v, n, c) == place[v].at = "batch" /\ place[v].node = n /\ place[v].camera = c

Disturbance == disturbed < MaxDisturbances /\ disturbed' = disturbed + 1

-----------------------------------------------------------------------------
(* Every camera is connected by the PC it belongs to. *)
Init ==
  /\ \E site \in Sites : owner = site.owner /\ row = site.row
  /\ link = [c \in Cameras |-> TRUE]
  /\ session = [n \in Nodes |-> [h \in Numbers |->
       IF \E c \in Cameras : Active(n, c) /\ row[c] = h
       THEN Opened(CHOOSE c \in Cameras : Active(n, c) /\ row[c] = h)
       ELSE Closed]]
  /\ kept = [n \in Nodes |-> [c \in Cameras |-> IF Active(n, c) THEN row[c] ELSE None]]
  /\ call = [a \in Callers |-> NoCall]
  /\ watch = [n \in Nodes |-> Resting]
  /\ spec = [n \in Nodes |-> [c \in Cameras |-> IF Active(n, c) THEN row[c] ELSE None]]
  /\ place = [v \in Vehicles |-> Nowhere]
  /\ disturbed = 0

-----------------------------------------------------------------------------
(* The host *)

(* What happens to the callbacks of a session that ends. *)
WithoutQueue(n, numbers) ==
  [v \in Vehicles |-> IF \E h \in numbers : AtHost(v, n, h) THEN Gone ELSE place[v]]

(* Mutant: add_and_connect without its lock. *)
LockIgnored(a, c) == TRUE

(* add_and_connect holds a lock of the address while it works. *)
LockFree(a, c) ==
  \A b \in Callers \ {a} :
    ~(NodeOf(b) = NodeOf(a) /\ call[b].stage \in Locking /\ call[b].camera = c)

(* Nobody listens to the answer to a stray request. *)
Replies(a, x) == call' = [call EXCEPT ![a] = IF IsStray(a) THEN NoCall ELSE x]

(* The number kept for the address is the answer while the SDK has a session
   under it whose camera answers, or which it is trying to reach. *)
HostTakesIn(a) ==
  LET n == NodeOf(a)  c == call[a].camera  h == kept[n][c] IN
  /\ call[a].stage = "asking"
  /\ LockFree(a, c)
  /\ \/ /\ h # None /\ session[n][h].camera # None
        /\ Replies(a, [call[a] EXCEPT !.stage = "answered", !.number = h])
     \/ /\ h # None
        /\ session[n][h].camera # None => ~link[session[n][h].camera]
        /\ call' = [call EXCEPT ![a].stage = "replacing", ![a].number = h]
     \/ /\ h = None
        /\ call' = [call EXCEPT ![a].stage = "adding"]
  /\ UNCHANGED <<owner, link, row, session, kept, watch, spec, place, disturbed>>

(* The first half of disconnect, which needs no lock: the number leaves the
   host's books, under whichever address they have it. *)
HostForgets(a) ==
  LET n == NodeOf(a)  h == call[a].number IN
  /\ call[a].stage \in {"closing", "replacing"}
  /\ kept' = [kept EXCEPT ![n] = [c \in Cameras |-> IF kept[n][c] = h THEN None ELSE kept[n][c]]]
  /\ session' = [session EXCEPT ![n][h].listed = None]
  /\ call' = [call EXCEPT ![a].stage = IF @ = "closing" THEN "forgotten" ELSE "clearing"]
  /\ UNCHANGED <<owner, link, row, watch, spec, place, disturbed>>

(* The second half: whatever the SDK has under the number by now is closed,
   and the queue of the number dropped. *)
HostCloses(a) ==
  LET n == NodeOf(a)  h == call[a].number IN
  /\ call[a].stage \in {"forgotten", "clearing"}
  /\ session' = [session EXCEPT ![n][h] = [Closed EXCEPT !.listed = session[n][h].listed]]
  /\ place' = WithoutQueue(n, {h})
  /\ call' = [call EXCEPT ![a] =
       IF @.stage = "clearing" THEN [@ EXCEPT !.stage = "adding"]
       ELSE IF IsOperator(a) THEN [@ EXCEPT !.stage = "closed"] ELSE NoCall]
  /\ UNCHANGED <<owner, link, row, kept, watch, spec, disturbed>>

(* Net_AddCamera gives some number that is free, not always a new one. *)
HostAdds(a) ==
  LET n == NodeOf(a)  c == call[a].camera IN
  /\ call[a].stage = "adding"
  /\ IF link[c]
     THEN \E h \in FreeNumbers(n) :
            /\ session' = [session EXCEPT ![n][h] = Opened(c)]
            /\ call' = [call EXCEPT ![a].stage = "added", ![a].number = h]
     ELSE /\ call' = [call EXCEPT ![a] = NoCall]
          /\ UNCHANGED session
  /\ UNCHANGED <<owner, link, row, kept, watch, spec, place, disturbed>>

HostKeeps(a) ==
  /\ call[a].stage = "added"
  /\ kept' = [kept EXCEPT ![NodeOf(a)][call[a].camera] = call[a].number]
  /\ Replies(a, [call[a] EXCEPT !.stage = "answered"])
  /\ UNCHANGED <<owner, link, row, session, watch, spec, place, disturbed>>

-----------------------------------------------------------------------------
(* apply_sdk_connect and sdk_disconnect *)

Asking(a, c) ==
  [call EXCEPT ![a] = [stage |-> "asking", camera |-> c, loaded |-> row[c], number |-> None]]

Closing(c, h) == [stage |-> "closing", camera |-> c, loaded |-> None, number |-> h]

Connect(n, c) ==
  LET a == <<n, "operator">> IN
  /\ call[a].stage = "idle" /\ Active(n, c) /\ link[c]
  /\ Disturbance
  /\ call' = Asking(a, c)
  /\ UNCHANGED <<owner, link, row, session, kept, watch, spec, place>>

(* The handle is written when it is not the one that was loaded. *)
Answer(a) ==
  LET c == call[a].camera  h == call[a].number IN
  /\ call[a].stage = "answered"
  /\ row' = IF h # call[a].loaded THEN [row EXCEPT ![c] = h] ELSE row
  /\ call' = [call EXCEPT ![a] = NoCall]
  /\ UNCHANGED <<owner, link, session, kept, watch, spec, place, disturbed>>

(* The client gives up; its host goes on.  The handle the row had is left, but
   an operator's disconnect takes its host for done. *)
GivenUp(a) ==
  IF IsOperator(a) /\ call[a].stage \in {"closing", "forgotten"}
  THEN [call[a] EXCEPT !.stage = "closed"] ELSE NoCall

TimesOut(a) ==
  LET other == Stray(NodeOf(a)) IN
  /\ ~IsStray(a)
  /\ call[a].stage \in AtHostStages /\ call[other] = NoCall
  /\ call' = [call EXCEPT ![other] = call[a], ![a] = GivenUp(a)]
  /\ Disturbance
  /\ UNCHANGED <<owner, link, row, session, kept, watch, spec, place>>

Disconnect(n, c) ==
  LET a == <<n, "operator">> IN
  /\ call[a].stage = "idle" /\ Active(n, c) /\ row[c] # None
  /\ Disturbance
  /\ call' = [call EXCEPT ![a] = Closing(c, row[c])]
  /\ UNCHANGED <<owner, link, row, session, kept, watch, spec, place>>

Forget(a) ==
  /\ call[a].stage = "closed"
  /\ row' = [row EXCEPT ![call[a].camera] = None]
  /\ call' = [call EXCEPT ![a] = NoCall]
  /\ UNCHANGED <<owner, link, session, kept, watch, spec, place, disturbed>>

-----------------------------------------------------------------------------
(* _hvx_watch_loop.  A pass in which the 30 s between two attempts have not
   gone by attempts nothing and is left out. *)

(* Mutant: a number the host has is believed, whatever camera it is. *)
ToRestoreByNumber(n, seen) ==
  {c \in Cameras : Active(n, c) /\ row[c] # None /\ seen[row[c]] = None}

(* A number is believed only if the host's list has it for this address. *)
ToRestore(n, seen) ==
  {c \in Cameras : Active(n, c) /\ row[c] # None /\ seen[row[c]] # c}

(* The host's list, and the sessions of cameras that are another PC's.  When
   there is none to release the pass goes on without giving way. *)
Look(n) ==
  LET seen == [h \in Numbers |-> session[n][h].listed]
      foreign == {h \in Numbers : seen[h] # None /\ ~Active(n, seen[h])}
  IN
  /\ watch[n] = Resting /\ call[<<n, "watch">>].stage = "idle"
  /\ watch' = [watch EXCEPT ![n] =
       IF foreign # {} THEN [seen |-> seen, handles |-> foreign, cameras |-> {}]
       ELSE [Resting EXCEPT !.cameras = ToRestore(n, seen)]]
  /\ UNCHANGED <<owner, link, row, session, kept, call, spec, place, disturbed>>

(* _disconnect_out_of_scope_hvx_sessions closes by number and leaves the row
   alone. *)
ReleaseOne(n) ==
  LET a == <<n, "watch">> IN
  /\ call[a].stage = "idle"
  /\ \E h \in watch[n].handles :
       /\ watch' = [watch EXCEPT ![n].handles = @ \ {h}]
       /\ call' = [call EXCEPT ![a] = Closing(watch[n].seen[h], h)]
  /\ UNCHANGED <<owner, link, row, session, kept, spec, place, disturbed>>

(* _restore_hvx_sessions after that goes by the list of before. *)
Scan(n) ==
  /\ call[<<n, "watch">>].stage = "idle"
  /\ watch[n].seen # Nothing /\ watch[n].handles = {}
  /\ watch' = [watch EXCEPT ![n] = [Resting EXCEPT !.cameras = ToRestore(n, watch[n].seen)]]
  /\ UNCHANGED <<owner, link, row, session, kept, call, spec, place, disturbed>>

RestoreOne(n) ==
  LET a == <<n, "watch">> IN
  /\ call[a].stage = "idle"
  /\ \E c \in watch[n].cameras :
       /\ watch' = [watch EXCEPT ![n].cameras = @ \ {c}]
       /\ call' = IF row[c] # None /\ link[c] THEN Asking(a, c) ELSE call
  /\ UNCHANGED <<owner, link, row, session, kept, spec, place, disturbed>>

-----------------------------------------------------------------------------
(* _camera_event_loop *)

(* Mutant: a handle that was loaded is kept. *)
RefreshKeeps(n) ==
  /\ \A v \in Vehicles, c \in Cameras : ~InBatch(v, n, c)
  /\ spec' = [spec EXCEPT ![n] =
       [c \in Cameras |-> IF spec[n][c] # None THEN spec[n][c] ELSE IF Active(n, c) THEN row[c] ELSE None]]
  /\ UNCHANGED <<owner, link, row, session, kept, call, watch, place, disturbed>>

(* The configuration is read between two rounds, when every camera of the
   last one has been served. *)
Refresh(n) ==
  /\ \A v \in Vehicles, c \in Cameras : ~InBatch(v, n, c)
  /\ spec' = [spec EXCEPT ![n] = [c \in Cameras |-> IF Active(n, c) THEN row[c] ELSE None]]
  /\ UNCHANGED <<owner, link, row, session, kept, call, watch, place, disturbed>>

(* _refresh_recognition: an outage that is seen leaves callbacks to register. *)
Rearmed(s) ==
  IF s.camera = None \/ s.listed = None THEN s
  ELSE IF ~link[s.camera] THEN [s EXCEPT !.images = "pending"]
  ELSE IF s.images = "pending" THEN [s EXCEPT !.images = "armed"] ELSE s

(* The host empties the queue of the number, whose camera is not compared. *)
Drain(n, c, to) ==
  LET h == spec[n][c] IN
  /\ h # None
  /\ \A v \in Vehicles : ~InBatch(v, n, c)
  /\ session' = [session EXCEPT ![n][h] = Rearmed(@)]
  /\ place' = [v \in Vehicles |-> IF AtHost(v, n, h) THEN to ELSE place[v]]
  /\ UNCHANGED <<owner, link, row, kept, call, watch, spec>>

Poll(n, c) ==
  /\ Drain(n, c, [at |-> "batch", node |-> n, number |-> None, camera |-> c])
  /\ UNCHANGED disturbed

(* The queue is empty, and the answer does not arrive. *)
PollLost(n, c) ==
  /\ \E v \in Vehicles : AtHost(v, n, spec[n][c])
  /\ Drain(n, c, Gone)
  /\ Disturbance

Ingest(v) ==
  /\ place[v].at = "batch"
  /\ place' = [place EXCEPT ![v] = Gone]
  /\ UNCHANGED <<owner, link, row, session, kept, call, watch, spec, disturbed>>

(* An event that cannot be stored takes the rest of its batch with it. *)
IngestRaises(n, c) ==
  /\ \E v \in Vehicles : InBatch(v, n, c)
  /\ place' = [v \in Vehicles |-> IF InBatch(v, n, c) THEN Gone ELSE place[v]]
  /\ Disturbance
  /\ UNCHANGED <<owner, link, row, session, kept, call, watch, spec>>

-----------------------------------------------------------------------------
(* The surroundings *)

Vehicle(v, n, h) ==
  /\ place[v].at = "road"
  /\ session[n][h].camera # None /\ session[n][h].images = "armed"
  /\ link[session[n][h].camera]
  /\ place' = [place EXCEPT ![v] = [at |-> "host", node |-> n, number |-> h, camera |-> None]]
  /\ UNCHANGED <<owner, link, row, session, kept, call, watch, spec, disturbed>>

(* The camera forgets its listeners in an outage; the SDK logs in again. *)
LinkLost(c) ==
  /\ link[c]
  /\ Disturbance
  /\ link' = [link EXCEPT ![c] = FALSE]
  /\ session' = [n \in Nodes |-> [h \in Numbers |->
       IF session[n][h].camera = c THEN [session[n][h] EXCEPT !.images = "lost"] ELSE session[n][h]]]
  /\ UNCHANGED <<owner, row, kept, call, watch, spec, place>>

LinkReturns(c) ==
  /\ ~link[c]
  /\ link' = [link EXCEPT ![c] = TRUE]
  /\ UNCHANGED <<owner, row, session, kept, call, watch, spec, place, disturbed>>

(* Requests that are at the host fail with it. *)
HostRestarts(n) ==
  /\ Disturbance
  /\ session' = [session EXCEPT ![n] = [h \in Numbers |-> Closed]]
  /\ kept' = [kept EXCEPT ![n] = [c \in Cameras |-> None]]
  /\ place' = WithoutQueue(n, Numbers)
  /\ call' = [a \in Callers |->
       IF NodeOf(a) = n /\ call[a].stage \in AtHostStages THEN GivenUp(a) ELSE call[a]]
  /\ UNCHANGED <<owner, link, row, watch, spec>>

(* An administrator gives the camera's gate to another PC. *)
Move(c, n) ==
  /\ owner[c] # n
  /\ Disturbance
  /\ owner' = [owner EXCEPT ![c] = n]
  /\ UNCHANGED <<link, row, session, kept, call, watch, spec, place>>

-----------------------------------------------------------------------------
CallStep(a) ==
  \/ HostTakesIn(a) \/ HostForgets(a) \/ HostCloses(a) \/ HostAdds(a) \/ HostKeeps(a)
  \/ Answer(a) \/ Forget(a)

WatchStep(n) == Look(n) \/ ReleaseOne(n) \/ Scan(n) \/ RestoreOne(n)

Next ==
  \/ \E a \in Callers : CallStep(a) \/ TimesOut(a)
  \/ \E n \in Nodes : WatchStep(n) \/ Refresh(n) \/ HostRestarts(n)
  \/ \E n \in Nodes, c \in Cameras :
       \/ Connect(n, c) \/ Disconnect(n, c) \/ Move(c, n)
       \/ Poll(n, c) \/ PollLost(n, c) \/ IngestRaises(n, c)
  \/ \E v \in Vehicles, n \in Nodes, h \in Numbers : Vehicle(v, n, h)
  \/ \E v \in Vehicles : Ingest(v)
  \/ \E c \in Cameras : LinkLost(c) \/ LinkReturns(c)

Spec == Init /\ [][Next]_vars

(* The loops come round, the host answers (its clients have timeouts), and a
   camera that is away returns.  Nobody has to command or to move anything. *)
Fairness ==
  /\ WF_vars(\E a \in Callers : CallStep(a))
  /\ \A n \in Nodes : WF_vars(WatchStep(n))
  /\ WF_vars(\E n \in Nodes : Refresh(n))
  /\ WF_vars(\E n \in Nodes, c \in Cameras : Poll(n, c))
  /\ WF_vars(\E v \in Vehicles : Ingest(v))
  /\ WF_vars(\E c \in Cameras : LinkReturns(c))

FairSpec == Spec /\ Fairness

-----------------------------------------------------------------------------
(* Properties *)

TypeOK ==
  /\ owner \in [Cameras -> Nodes]
  /\ link \in [Cameras -> BOOLEAN]
  /\ row \in [Cameras -> Numbers \cup {None}]
  /\ session \in [Nodes -> [Numbers -> Session]]
  /\ kept \in [Nodes -> [Cameras -> Numbers \cup {None}]]
  /\ call \in [Callers -> Call]
  /\ watch \in [Nodes -> Watch]
  /\ spec \in [Nodes -> [Cameras -> Numbers \cup {None}]]
  /\ place \in [Vehicles -> Place]
  /\ disturbed \in 0..MaxDisturbances

(* A disconnect has forgotten the number and is about to close it. *)
BeingClosed(n, h) ==
  \E a \in Callers :
    NodeOf(a) = n /\ call[a].number = h /\ call[a].stage \in {"forgotten", "clearing"}

(* Of two sessions of a host with one camera, one is being closed: no slot of
   the camera is lost for good, although its watch loop and its operators
   connect and disconnect at the same time and answers get lost.
   (A camera has few stream slots, add_and_connect reuses what there is.) *)
OneSession ==
  \A n \in Nodes, c \in Cameras : \A h, k \in SessionsOf(n, c) :
    h = k \/ BeingClosed(n, h) \/ BeingClosed(n, k)

(* The camera whose barrier gpio_pulse moves, whose pictures are shown and
   whose callbacks are drained for c on its PC. *)
Reaches(c) == session[owner[c]][row[c]].camera

(* A host lists and keeps no number that the SDK has under another camera,
   and lists none that is closed.  (A disconnect that forgot a number before
   the host gave it out again closes it behind the host's back.) *)
BooksAreTrue ==
  \A n \in Nodes :
    /\ \A h \in Numbers : session[n][h].listed # None => session[n][h].camera = session[n][h].listed
    /\ \A c \in Cameras : kept[n][c] # None => session[n][kept[n][c]].camera \in {c, None}

(* When restarts, outages, moves and commands have ended, and the books are
   true, every camera that is connected is reached through its own number on
   the PC it belongs to, listens again after an outage that was seen, and no
   other PC keeps a session with it. *)
Settled ==
  /\ \A c \in Cameras : row[c] # None =>
        Reaches(c) = c /\ session[owner[c]][row[c]].images # "pending"
  /\ \A n \in Nodes, c \in Cameras : ~Active(n, c) => SessionsOf(n, c) = {}
SettlesOnOwner == <>[]BooksAreTrue => <>[]Settled

(* A callback is not left at a host for ever: it is read, or lost with its
   session, unless the camera was disconnected by hand in the meantime. *)
CallbacksMove ==
  \A v \in Vehicles :
    place[v].at = "host"
      ~> place[v].at # "host" \/ row[session[place[v].node][place[v].number].camera] = None

=============================================================================

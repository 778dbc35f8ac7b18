------------------------- MODULE NativeHost_proofs -------------------------
(***************************************************************************)
(* Of two sessions of a host with one camera one is being closed, for any  *)
(* number of PCs, cameras and handles, and for any number of restarts,     *)
(* outages, lost answers, commands and moves.                              *)
(***************************************************************************)
EXTENDS NativeHost, TLAPS

(* A call is about a camera; what it closes, or added, has a number.       *)
GoodCall(x) ==
  /\ x.stage # "idle" => x.camera \in Cameras
  /\ x.stage \in {"closing", "forgotten", "replacing", "clearing", "added"} => x.number \in Numbers
CallInv == \A a \in Callers : GoodCall(call[a])

(* The watch loop releases sessions of cameras.                            *)
WatchInv == \A n \in Nodes : \A h \in watch[n].handles : watch[n].seen[h] \in Cameras

(* The address's lock is held once.                                        *)
LockInv ==
  \A a, b \in Callers :
    /\ call[a].stage \in Locking /\ call[b].stage \in Locking
    /\ NodeOf(a) = NodeOf(b) /\ call[a].camera = call[b].camera
    => a = b

(* What the lock protects: from the time a connect has forgotten the old    *)
(* number until it keeps the new one, the address has none.                *)
ForgottenInv ==
  \A a \in Callers :
    /\ call[a].stage \in {"clearing", "adding", "added"} => kept[NodeOf(a)][call[a].camera] = None
    /\ call[a].stage = "replacing" => kept[NodeOf(a)][call[a].camera] \in {None, call[a].number}

BeingAdded(n, c, h) ==
  \E a \in Callers :
    NodeOf(a) = n /\ call[a].stage = "added" /\ call[a].camera = c /\ call[a].number = h

(* A session is the one that is kept for its address, or somebody is about *)
(* to close it, or has just added it.                                      *)
KeptInv ==
  \A n \in Nodes, c \in Cameras, h \in Numbers :
    session[n][h].camera = c =>
      kept[n][c] = h \/ BeingClosed(n, h) \/ BeingAdded(n, c, h)

SessionInv == LockInv /\ ForgottenInv /\ KeptInv

IInv == TypeOK /\ CallInv /\ WatchInv /\ SessionInv

-----------------------------------------------------------------------------
(* Types *)

LEMMA NoneIsNone == None \notin Cameras /\ None \notin Nodes /\ None \notin Numbers
BY SetsAssumption

LEMMA DataTypes ==
  /\ Closed \in Session /\ Closed.camera = None
  /\ NoCall \in Call /\ NoCall.stage = "idle"
  /\ Resting \in Watch /\ Resting.handles = {} /\ Nothing \in [Numbers -> Cameras \cup {None}]
  /\ Gone \in Place /\ Nowhere \in Place
BY DEF Closed, Session, Images, NoCall, Call, AtHostStages, Locking, Resting, Watch, Nothing,
       Gone, Nowhere, Place

LEMMA CallerNode ==
  /\ \A a \in Callers : NodeOf(a) \in Nodes
  /\ \A n \in Nodes : /\ <<n, "operator">> \in Callers /\ NodeOf(<<n, "operator">>) = n
                      /\ <<n, "watch">> \in Callers /\ NodeOf(<<n, "watch">>) = n
                      /\ Stray(n) \in Callers /\ NodeOf(Stray(n)) = n
BY DEF Callers, NodeOf, Stray

(* The callbacks of sessions that end are lost. *)
LEMMA QueueType ==
  ASSUME TypeOK, NEW n, NEW numbers
  PROVE  WithoutQueue(n, numbers) \in [Vehicles -> Place]
BY DataTypes DEF TypeOK, WithoutQueue

LEMMA AskingType ==
  ASSUME TypeOK, NEW a \in Callers, NEW c \in Cameras
  PROVE  \E x \in Call : /\ x.stage = "asking" /\ x.camera = c
                         /\ Asking(a, c) = [call EXCEPT ![a] = x]
<1> DEFINE x == [stage |-> "asking", camera |-> c, loaded |-> row[c], number |-> None]
<1>1. x \in Call
  BY DEF TypeOK, Call, AtHostStages
<1>2. x.stage = "asking" /\ x.camera = c /\ Asking(a, c) = [call EXCEPT ![a] = x]
  BY DEF Asking
<1> QED BY <1>1, <1>2

LEMMA ClosingType ==
  ASSUME NEW c \in Cameras \cup {None}, NEW h \in Numbers
  PROVE  /\ Closing(c, h) \in Call
         /\ Closing(c, h).stage = "closing" /\ Closing(c, h).camera = c /\ Closing(c, h).number = h
BY DEF Closing, Call, AtHostStages

(* A client that gives up holds no lock and closes nothing. *)
LEMMA GivenUpType ==
  ASSUME TypeOK, NEW a \in Callers
  PROVE  /\ GivenUp(a) \in Call
         /\ GivenUp(a).stage \in {"idle", "closed"}
         /\ GivenUp(a).stage = "closed" =>
              call[a].stage # "idle" /\ GivenUp(a).camera = call[a].camera
<1>1. call[a] \in Call
  BY DEF TypeOK
<1>2. CASE IsOperator(a) /\ call[a].stage \in {"closing", "forgotten"}
  <2>1. GivenUp(a) = [call[a] EXCEPT !.stage = "closed"]
    BY <1>2 DEF GivenUp
  <2> QED BY <1>1, <1>2, <2>1 DEF Call
<1>3. CASE ~(IsOperator(a) /\ call[a].stage \in {"closing", "forgotten"})
  BY <1>3, DataTypes DEF GivenUp
<1> QED BY <1>2, <1>3

(* A step of the host changes the request it works on.  What the request    *)
(* may become: *)
LEMMA CallChanges ==
  ASSUME TypeOK, CallInv, NEW a \in Callers,
         HostTakesIn(a) \/ HostForgets(a) \/ HostCloses(a) \/ HostAdds(a) \/ HostKeeps(a)
           \/ Answer(a) \/ Forget(a)
  PROVE  \E x \in Call :
           /\ call' = [call EXCEPT ![a] = x]
           /\ GoodCall(x)
           /\ x = NoCall \/ x.camera = call[a].camera
<1>1. call[a] \in Call /\ GoodCall(call[a])
  BY DEF TypeOK, CallInv
<1>2. CASE HostTakesIn(a)
  <2> DEFINE h == kept[NodeOf(a)][call[a].camera]
             y == [call[a] EXCEPT !.stage = "answered", !.number = h]
             z == [call[a] EXCEPT !.stage = "replacing", !.number = h]
             w == [call[a] EXCEPT !.stage = "adding"]
  <2>1. call[a].camera \in Cameras
    BY <1>1, <1>2 DEF HostTakesIn, GoodCall
  <2>2. h \in Numbers \cup {None}
    BY <2>1, CallerNode DEF TypeOK
  <2>3. y \in Call /\ GoodCall(y) /\ y.camera = call[a].camera
    BY <1>1, <2>1, <2>2 DEF Call, GoodCall
  <2>4. h # None => z \in Call /\ GoodCall(z) /\ z.camera = call[a].camera
    BY <1>1, <2>1, <2>2 DEF Call, AtHostStages, Locking, GoodCall
  <2>5. w \in Call /\ GoodCall(w) /\ w.camera = call[a].camera
    BY <1>1, <2>1, <2>2 DEF Call, AtHostStages, Locking, GoodCall
  <2>6. NoCall \in Call /\ GoodCall(NoCall)
    BY DataTypes DEF GoodCall
  <2>7. \/ call' = [call EXCEPT ![a] = y] \/ call' = [call EXCEPT ![a] = NoCall]
        \/ h # None /\ call' = [call EXCEPT ![a] = z]
        \/ call' = [call EXCEPT ![a] = w]
    BY <1>2 DEF HostTakesIn, Replies
  <2> HIDE DEF h, y, z, w
  <2> QED BY <2>3, <2>4, <2>5, <2>6, <2>7
<1>3. CASE HostForgets(a)
  <2> DEFINE x == [call[a] EXCEPT !.stage = IF @ = "closing" THEN "forgotten" ELSE "clearing"]
  <2>1. x \in Call /\ x.camera = call[a].camera /\ GoodCall(x)
    BY <1>1, <1>3 DEF HostForgets, Call, AtHostStages, Locking, GoodCall
  <2>2. call' = [call EXCEPT ![a] = x]
    BY <1>3 DEF HostForgets
  <2> HIDE DEF x
  <2> QED BY <2>1, <2>2
<1>4. CASE HostCloses(a)
  <2> DEFINE y == [call[a] EXCEPT !.stage = "adding"]
             z == [call[a] EXCEPT !.stage = "closed"]
  <2>1. /\ y \in Call /\ y.camera = call[a].camera /\ GoodCall(y)
        /\ z \in Call /\ z.camera = call[a].camera /\ GoodCall(z)
    BY <1>1, <1>4 DEF HostCloses, Call, AtHostStages, Locking, GoodCall
  <2>2. NoCall \in Call /\ GoodCall(NoCall)
    BY DataTypes DEF GoodCall
  <2>3. \/ call' = [call EXCEPT ![a] = y] \/ call' = [call EXCEPT ![a] = z]
        \/ call' = [call EXCEPT ![a] = NoCall]
    BY <1>4 DEF HostCloses
  <2> HIDE DEF y, z
  <2> QED BY <2>1, <2>2, <2>3
<1>5. CASE HostAdds(a)
  <2>1. NoCall \in Call /\ GoodCall(NoCall)
    BY DataTypes DEF GoodCall
  <2>2. CASE call' = [call EXCEPT ![a] = NoCall]
    BY <2>1, <2>2
  <2>3. CASE \E h \in Numbers : call' = [call EXCEPT ![a].stage = "added", ![a].number = h]
    <3>1. PICK h \in Numbers : call' = [call EXCEPT ![a].stage = "added", ![a].number = h]
      BY <2>3
    <3> DEFINE x == [call[a] EXCEPT !.stage = "added", !.number = h]
    <3>2. x \in Call /\ x.camera = call[a].camera /\ GoodCall(x)
      BY <1>1, <1>5 DEF HostAdds, Call, AtHostStages, Locking, GoodCall
    <3>3. call' = [call EXCEPT ![a] = x]
      BY <3>1
    <3> HIDE DEF x
    <3> QED BY <3>2, <3>3
  <2> QED BY <1>5, <2>2, <2>3 DEF HostAdds, FreeNumbers, SessionsOf
<1>6. CASE HostKeeps(a)
  <2> DEFINE y == [call[a] EXCEPT !.stage = "answered"]
  <2>1. y \in Call /\ y.camera = call[a].camera /\ GoodCall(y)
    BY <1>1, <1>6 DEF HostKeeps, Call, GoodCall
  <2>2. NoCall \in Call /\ GoodCall(NoCall)
    BY DataTypes DEF GoodCall
  <2>3. call' = [call EXCEPT ![a] = y] \/ call' = [call EXCEPT ![a] = NoCall]
    BY <1>6 DEF HostKeeps, Replies
  <2> HIDE DEF y
  <2> QED BY <2>1, <2>2, <2>3
<1>7. CASE Answer(a) \/ Forget(a)
  <2>1. NoCall \in Call /\ GoodCall(NoCall)
    BY DataTypes DEF GoodCall
  <2> QED BY <1>7, <2>1 DEF Answer, Forget
<1> QED BY <1>2, <1>3, <1>4, <1>5, <1>6, <1>7

LEMMA InitType == Init => TypeOK
<1> SUFFICES ASSUME Init PROVE TypeOK
  OBVIOUS
<1>1. owner \in [Cameras -> Nodes] /\ row \in [Cameras -> Numbers]
  BY SitesAssumption DEF Init
<1>2. ASSUME NEW n \in Nodes, NEW h \in Numbers
      PROVE  session[n][h] \in Session
  <2>1. CASE \E c \in Cameras : Active(n, c) /\ row[c] = h
    <3>1. (CHOOSE c \in Cameras : Active(n, c) /\ row[c] = h) \in Cameras
      BY <2>1
    <3> QED BY <2>1, <3>1 DEF Init, Opened, Session, Images
  <2>2. CASE ~\E c \in Cameras : Active(n, c) /\ row[c] = h
    BY <2>2, DataTypes DEF Init
  <2> QED BY <2>1, <2>2
<1>3. session \in [Nodes -> [Numbers -> Session]]
  BY <1>2 DEF Init
<1>4. spec \in [Nodes -> [Cameras -> Numbers \cup {None}]]
      /\ kept \in [Nodes -> [Cameras -> Numbers \cup {None}]]
  BY <1>1 DEF Init
<1>5. disturbed \in 0..MaxDisturbances
  BY BoundAssumption DEF Init
<1> QED BY <1>1, <1>3, <1>4, <1>5, DataTypes DEF Init, TypeOK

LEMMA DisturbedType ==
  ASSUME TypeOK, Disturbance
  PROVE  disturbed' \in 0..MaxDisturbances
BY BoundAssumption DEF TypeOK, Disturbance

(* What a host does with a request. *)
LEMMA CallStepType ==
  ASSUME TypeOK, CallInv, NEW a \in Callers, CallStep(a)
  PROVE  TypeOK'
<1> USE DataTypes
<1> DEFINE n == NodeOf(a)
           c == call[a].camera
           h == call[a].number
<1>1. n \in Nodes /\ call[a] \in Call /\ GoodCall(call[a])
  BY CallerNode DEF TypeOK, CallInv
<1>2. call' \in [Callers -> Call]
  <2>1. PICK x \in Call : call' = [call EXCEPT ![a] = x]
    BY CallChanges DEF CallStep
  <2> QED BY <2>1 DEF TypeOK
<1>3. CASE HostTakesIn(a)
  BY <1>2, <1>3 DEF HostTakesIn, TypeOK
<1>4. CASE HostForgets(a)
  <2>1. h \in Numbers
    BY <1>1, <1>4 DEF HostForgets, GoodCall
  <2>2. kept' \in [Nodes -> [Cameras -> Numbers \cup {None}]]
    BY <1>1, <1>4 DEF HostForgets, TypeOK
  <2>3. [session[n][h] EXCEPT !.listed = None] \in Session
    <3>1. session[n][h] \in Session
      BY <1>1, <2>1 DEF TypeOK
    <3> QED BY <3>1 DEF Session
  <2>4. session' \in [Nodes -> [Numbers -> Session]]
    BY <1>1, <1>4, <2>1, <2>3 DEF HostForgets, TypeOK
  <2> QED BY <1>2, <1>4, <2>2, <2>4 DEF HostForgets, TypeOK
<1>5. CASE HostCloses(a)
  <2>1. h \in Numbers
    BY <1>1, <1>5 DEF HostCloses, GoodCall
  <2>2. [Closed EXCEPT !.listed = session[n][h].listed] \in Session
    <3>1. session[n][h] \in Session
      BY <1>1, <2>1 DEF TypeOK
    <3> QED BY <3>1 DEF Session
  <2>3. session' \in [Nodes -> [Numbers -> Session]]
    BY <1>1, <1>5, <2>1, <2>2 DEF HostCloses, TypeOK
  <2> QED BY <1>2, <1>5, <2>3, QueueType DEF HostCloses, TypeOK
<1>6. CASE HostAdds(a)
  <2>1. c \in Cameras
    BY <1>1, <1>6 DEF HostAdds, GoodCall
  <2>2. Opened(c) \in Session
    BY <2>1 DEF Opened, Session, Images
  <2>3. session' \in [Nodes -> [Numbers -> Session]]
    <3>1. CASE UNCHANGED session
      BY <3>1 DEF TypeOK
    <3>2. CASE \E k \in Numbers : session' = [session EXCEPT ![n][k] = Opened(c)]
      BY <1>1, <2>2, <3>2 DEF TypeOK
    <3> QED BY <1>6, <3>1, <3>2 DEF HostAdds, FreeNumbers, SessionsOf
  <2> QED BY <1>2, <1>6, <2>3 DEF HostAdds, TypeOK
<1>7. CASE HostKeeps(a)
  <2>1. c \in Cameras /\ h \in Numbers
    BY <1>1, <1>7 DEF HostKeeps, GoodCall
  <2>2. kept' \in [Nodes -> [Cameras -> Numbers \cup {None}]]
    BY <1>1, <1>7, <2>1 DEF HostKeeps, TypeOK
  <2> QED BY <1>2, <1>7, <2>2 DEF HostKeeps, TypeOK
<1>8. CASE Answer(a) \/ Forget(a)
  <2>1. row' \in [Cameras -> Numbers \cup {None}]
    BY <1>1, <1>8 DEF Answer, Forget, TypeOK, Call
  <2> QED BY <1>2, <1>8, <2>1 DEF Answer, Forget, TypeOK
<1> QED BY <1>3, <1>4, <1>5, <1>6, <1>7, <1>8 DEF CallStep

LEMMA TypeHolds == TypeOK /\ CallInv /\ [Next]_vars => TypeOK'
<1> SUFFICES ASSUME TypeOK, CallInv, [Next]_vars PROVE TypeOK'
  OBVIOUS
<1> USE DataTypes
<1>1. ASSUME NEW a \in Callers, TimesOut(a) PROVE TypeOK'
  <2>1. call' \in [Callers -> Call]
    <3>1. call[a] \in Call /\ GivenUp(a) \in Call
      BY GivenUpType DEF TypeOK
    <3> QED BY <1>1, <3>1 DEF TimesOut, TypeOK
  <2> QED BY <1>1, <2>1, DisturbedType DEF TimesOut, TypeOK
<1>2. ASSUME NEW n \in Nodes, NEW c \in Cameras, Connect(n, c) PROVE TypeOK'
  <2> DEFINE a == <<n, "operator">>
  <2>0. a \in Callers
    BY CallerNode
  <2>1. PICK x \in Call : Asking(a, c) = [call EXCEPT ![a] = x]
    BY <2>0, AskingType
  <2> QED BY <1>2, <2>1, DisturbedType DEF Connect, TypeOK
<1>3. ASSUME NEW n \in Nodes, NEW c \in Cameras, Disconnect(n, c) PROVE TypeOK'
  <2>1. row[c] \in Numbers
    BY <1>3 DEF Disconnect, TypeOK
  <2>2. Closing(c, row[c]) \in Call
    BY <2>1, ClosingType
  <2> QED BY <1>3, <2>2, DisturbedType DEF Disconnect, TypeOK
<1>6. ASSUME NEW n \in Nodes, Look(n) \/ Scan(n) PROVE TypeOK'
  <2> DEFINE seen == [h \in Numbers |-> session[n][h].listed]
             foreign == {h \in Numbers : seen[h] # None /\ ~Active(n, seen[h])}
  <2>1. \A s : ToRestore(n, s) \subseteq Cameras
    BY DEF ToRestore
  <2>2. \A s : [Resting EXCEPT !.cameras = ToRestore(n, s)] \in Watch
    BY <2>1 DEF Resting, Watch
  <2>3. seen \in [Numbers -> Cameras \cup {None}] /\ foreign \subseteq Numbers
    BY DEF TypeOK, Session
  <2>4. [seen |-> seen, handles |-> foreign, cameras |-> {}] \in Watch
    BY <2>3 DEF Watch
  <2>5. watch' \in [Nodes -> Watch]
    <3>1. CASE Look(n)
      BY <3>1, <2>2, <2>4 DEF Look, TypeOK
    <3>2. CASE Scan(n)
      BY <3>2, <2>2 DEF Scan, TypeOK
    <3> QED BY <1>6, <3>1, <3>2
  <2> QED BY <1>6, <2>5 DEF Look, Scan, TypeOK
<1>7. ASSUME NEW n \in Nodes, ReleaseOne(n) PROVE TypeOK'
  <2> DEFINE a == <<n, "watch">>
  <2>1. PICK h \in watch[n].handles :
          /\ watch' = [watch EXCEPT ![n].handles = @ \ {h}]
          /\ call' = [call EXCEPT ![a] = Closing(watch[n].seen[h], h)]
    BY <1>7 DEF ReleaseOne
  <2>2. watch' \in [Nodes -> Watch]
    BY <2>1 DEF TypeOK, Watch
  <2>3. h \in Numbers /\ watch[n].seen[h] \in Cameras \cup {None}
    BY <2>1 DEF TypeOK, Watch
  <2>4. call' \in [Callers -> Call]
    BY <2>1, <2>3, ClosingType DEF TypeOK
  <2> QED BY <1>7, <2>2, <2>4 DEF ReleaseOne, TypeOK
<1>8. ASSUME NEW n \in Nodes, RestoreOne(n) PROVE TypeOK'
  <2> DEFINE a == <<n, "watch">>
  <2>1. PICK c \in watch[n].cameras :
          /\ watch' = [watch EXCEPT ![n].cameras = @ \ {c}]
          /\ call' = IF row[c] # None /\ link[c] THEN Asking(a, c) ELSE call
    BY <1>8 DEF RestoreOne
  <2>2. a \in Callers /\ c \in Cameras
    BY <2>1, CallerNode DEF TypeOK, Watch
  <2>3. call' \in [Callers -> Call]
    <3>1. PICK x \in Call : Asking(a, c) = [call EXCEPT ![a] = x]
      BY <2>2, AskingType
    <3> QED BY <2>1, <3>1 DEF TypeOK
  <2>4. watch' \in [Nodes -> Watch]
    BY <2>1 DEF TypeOK, Watch
  <2> QED BY <1>8, <2>3, <2>4 DEF RestoreOne, TypeOK
<1>9. ASSUME NEW n \in Nodes, Refresh(n) PROVE TypeOK'
  BY <1>9 DEF Refresh, TypeOK
<1>10. ASSUME NEW n \in Nodes, NEW c \in Cameras, NEW to \in Place, Drain(n, c, to)
       PROVE  session' \in [Nodes -> [Numbers -> Session]] /\ place' \in [Vehicles -> Place]
  <2> DEFINE h == spec[n][c]
  <2>1. h \in Numbers
    BY <1>10 DEF Drain, TypeOK
  <2>2. \A s \in Session : Rearmed(s) \in Session
    BY DEF Rearmed, Session, Images
  <2>3. session' \in [Nodes -> [Numbers -> Session]]
    BY <1>10, <2>1, <2>2 DEF Drain, TypeOK
  <2>4. place' \in [Vehicles -> Place]
    BY <1>10 DEF Drain, TypeOK
  <2> QED BY <2>3, <2>4
<1>11. ASSUME NEW n \in Nodes, NEW c \in Cameras, Poll(n, c) \/ PollLost(n, c)
       PROVE  TypeOK'
  <2>1. [at |-> "batch", node |-> n, number |-> None, camera |-> c] \in Place
    BY DEF Place
  <2>2. session' \in [Nodes -> [Numbers -> Session]] /\ place' \in [Vehicles -> Place]
    BY <1>10, <1>11, <2>1 DEF Poll, PollLost
  <2>3. disturbed' \in 0..MaxDisturbances
    BY <1>11, DisturbedType DEF Poll, PollLost, TypeOK
  <2> QED BY <1>11, <2>2, <2>3 DEF Poll, PollLost, Drain, TypeOK
<1>12. ASSUME NEW v \in Vehicles, Ingest(v) PROVE TypeOK'
  BY <1>12 DEF Ingest, TypeOK
<1>13. ASSUME NEW n \in Nodes, NEW c \in Cameras, IngestRaises(n, c) PROVE TypeOK'
  <2>1. place' \in [Vehicles -> Place]
    BY <1>13 DEF IngestRaises, TypeOK
  <2> QED BY <1>13, <2>1, DisturbedType DEF IngestRaises, TypeOK
<1>14. ASSUME NEW v \in Vehicles, NEW n \in Nodes, NEW h \in Numbers, Vehicle(v, n, h)
       PROVE  TypeOK'
  <2>1. [at |-> "host", node |-> n, number |-> h, camera |-> None] \in Place
    BY DEF Place
  <2> QED BY <1>14, <2>1 DEF Vehicle, TypeOK
<1>15. ASSUME NEW c \in Cameras, LinkLost(c) PROVE TypeOK'
  <2>1. \A s \in Session : [s EXCEPT !.images = "lost"] \in Session
    BY DEF Session, Images
  <2>2. session' \in [Nodes -> [Numbers -> Session]]
    BY <1>15, <2>1 DEF LinkLost, TypeOK
  <2> QED BY <1>15, <2>2, DisturbedType DEF LinkLost, TypeOK
<1>16. ASSUME NEW c \in Cameras, LinkReturns(c) PROVE TypeOK'
  BY <1>16 DEF LinkReturns, TypeOK
<1>17. ASSUME NEW n \in Nodes, HostRestarts(n) PROVE TypeOK'
  <2>1. session' \in [Nodes -> [Numbers -> Session]]
    BY <1>17 DEF HostRestarts, TypeOK
  <2>2. kept' \in [Nodes -> [Cameras -> Numbers \cup {None}]]
    BY <1>17 DEF HostRestarts, TypeOK
  <2>3. \A a \in Callers : GivenUp(a) \in Call /\ call[a] \in Call
    BY GivenUpType DEF TypeOK
  <2>4. call' \in [Callers -> Call]
    BY <1>17, <2>3 DEF HostRestarts
  <2> QED BY <1>17, <2>1, <2>2, <2>4, QueueType, DisturbedType DEF HostRestarts, TypeOK
<1>18. ASSUME NEW n \in Nodes, NEW c \in Cameras, Move(c, n) PROVE TypeOK'
  BY <1>18, DisturbedType DEF Move, TypeOK
<1>19. CASE UNCHANGED vars
  BY <1>19 DEF vars, TypeOK
<1> QED
  BY <1>1, <1>2, <1>3, <1>6, <1>7, <1>8, <1>9, <1>11, <1>12, <1>13, <1>14,
     <1>15, <1>16, <1>17, <1>18, <1>19, CallStepType
  DEF Next, WatchStep

-----------------------------------------------------------------------------
(* Calls *)

(* What a call that begins looks like. *)
Begins(a, x) == call' = [call EXCEPT ![a] = x] /\ call[a].stage = "idle"

LEMMA BeginsWhat ==
  ASSUME TypeOK, WatchInv, NEW n \in Nodes,
         \/ \E c \in Cameras : Connect(n, c) \/ Disconnect(n, c)
         \/ ReleaseOne(n)
         \/ RestoreOne(n) /\ call' # call
  PROVE  \E a \in Callers, x \in Call :
           Begins(a, x) /\ GoodCall(x) /\ x.stage \in {"asking", "closing"}
<1> DEFINE a == <<n, "operator">>
           b == <<n, "watch">>
           Goal == \E d \in Callers, y \in Call :
                     Begins(d, y) /\ GoodCall(y) /\ y.stage \in {"asking", "closing"}
<1>0. a \in Callers /\ b \in Callers
  BY CallerNode
<1>1. ASSUME NEW c \in Cameras, Connect(n, c) PROVE Goal
  <2>1. PICK x \in Call : x.stage = "asking" /\ x.camera = c /\ Asking(a, c) = [call EXCEPT ![a] = x]
    BY <1>0, AskingType
  <2>2. Begins(a, x) /\ GoodCall(x)
    BY <1>1, <2>1 DEF Connect, Begins, GoodCall
  <2> QED BY <1>0, <2>1, <2>2
<1>2. ASSUME NEW c \in Cameras, Disconnect(n, c) PROVE Goal
  <2>1. row[c] \in Numbers
    BY <1>2 DEF Disconnect, TypeOK
  <2>2. /\ Closing(c, row[c]) \in Call /\ GoodCall(Closing(c, row[c]))
        /\ Closing(c, row[c]).stage = "closing"
    BY <2>1, ClosingType DEF GoodCall
  <2>3. Begins(a, Closing(c, row[c]))
    BY <1>2 DEF Disconnect, Begins
  <2> QED BY <1>0, <2>2, <2>3
<1>3. ASSUME ReleaseOne(n) PROVE Goal
  <2>1. PICK h \in watch[n].handles :
          /\ call[b].stage = "idle"
          /\ call' = [call EXCEPT ![b] = Closing(watch[n].seen[h], h)]
    BY <1>3 DEF ReleaseOne
  <2>2. h \in Numbers /\ watch[n].seen[h] \in Cameras
    BY <2>1 DEF TypeOK, Watch, WatchInv
  <2> DEFINE x == Closing(watch[n].seen[h], h)
  <2>3. x \in Call /\ GoodCall(x) /\ x.stage = "closing"
    BY <2>2, ClosingType DEF GoodCall
  <2>4. Begins(b, x)
    BY <2>1 DEF Begins
  <2> QED BY <1>0, <2>3, <2>4
<1>4. ASSUME RestoreOne(n), call' # call PROVE Goal
  <2>1. PICK c \in watch[n].cameras : call[b].stage = "idle" /\ call' = Asking(b, c)
    BY <1>4 DEF RestoreOne
  <2>2. c \in Cameras
    BY <2>1 DEF TypeOK, Watch
  <2>3. PICK x \in Call : x.stage = "asking" /\ x.camera = c /\ Asking(b, c) = [call EXCEPT ![b] = x]
    BY <1>0, <2>2, AskingType
  <2>4. Begins(b, x) /\ GoodCall(x)
    BY <2>1, <2>2, <2>3 DEF Begins, GoodCall
  <2> QED BY <1>0, <2>3, <2>4
<1> QED BY <1>1, <1>2, <1>3, <1>4

LEMMA NewCall ==
  ASSUME TypeOK, CallInv, NEW a \in Callers, NEW x, GoodCall(x), call' = [call EXCEPT ![a] = x]
  PROVE  CallInv'
<1>1. call'[a] = x /\ \A b \in Callers \ {a} : call'[b] = call[b]
  BY DEF TypeOK
<1> QED BY <1>1 DEF CallInv

LEMMA CallHolds == IInv /\ [Next]_vars => CallInv'
<1> SUFFICES ASSUME IInv, [Next]_vars PROVE CallInv'
  OBVIOUS
<1>1. TypeOK /\ CallInv /\ WatchInv /\ call \in [Callers -> Call]
  BY DEF IInv, TypeOK
<1>2. ASSUME NEW a \in Callers, CallStep(a) PROVE CallInv'
  <2>1. PICK x \in Call : call' = [call EXCEPT ![a] = x] /\ GoodCall(x)
    BY <1>1, <1>2, CallChanges DEF CallStep
  <2> QED BY <1>1, <2>1, NewCall
<1>3. ASSUME NEW a \in Callers, TimesOut(a) PROVE CallInv'
  <2>1. GoodCall(call[a])
    BY <1>1 DEF CallInv
  <2>2. GoodCall(GivenUp(a))
    BY <1>1, <2>1, GivenUpType DEF GoodCall
  <2>3. \A b \in Callers : call'[b] \in {call[a], GivenUp(a), call[b]}
    BY <1>1, <1>3 DEF TimesOut
  <2> QED BY <1>1, <2>1, <2>2, <2>3 DEF CallInv
<1>4. ASSUME NEW n \in Nodes,
             \/ \E c \in Cameras : Connect(n, c) \/ Disconnect(n, c)
             \/ ReleaseOne(n)
             \/ RestoreOne(n) /\ call' # call
      PROVE  CallInv'
  <2>1. PICK a \in Callers, x \in Call : Begins(a, x) /\ GoodCall(x)
    BY <1>1, <1>4, BeginsWhat
  <2> QED BY <1>1, <2>1, NewCall DEF Begins
<1>5. ASSUME NEW n \in Nodes, HostRestarts(n) PROVE CallInv'
  <2>1. \A a \in Callers : GoodCall(call[a]) /\ GoodCall(GivenUp(a))
    BY <1>1, GivenUpType DEF CallInv, GoodCall
  <2>2. \A a \in Callers : call'[a] \in {call[a], GivenUp(a)}
    BY <1>5 DEF HostRestarts
  <2> QED BY <2>1, <2>2 DEF CallInv
<1>6. call' = call => CallInv'
  BY <1>1 DEF CallInv
<1> QED
  BY <1>2, <1>3, <1>4, <1>5, <1>6
  DEF Next, WatchStep, Look, Scan, Refresh, Move, Poll, PollLost, Drain,
      Ingest, IngestRaises, Vehicle, LinkLost, LinkReturns, vars

LEMMA WatchHolds == IInv /\ [Next]_vars => WatchInv'
<1> SUFFICES ASSUME IInv, [Next]_vars PROVE WatchInv'
  OBVIOUS
<1>1. TypeOK /\ WatchInv /\ watch \in [Nodes -> Watch]
  BY DEF IInv, TypeOK
<1>2. ASSUME NEW n \in Nodes, Look(n) \/ Scan(n) PROVE WatchInv'
  <2> DEFINE seen == [h \in Numbers |-> session[n][h].listed]
             foreign == {h \in Numbers : seen[h] # None /\ ~Active(n, seen[h])}
  <2>1. \A h \in foreign : seen[h] \in Cameras
    BY <1>1 DEF TypeOK, Session
  <2>3. watch'[n].handles = {} \/ (watch'[n].handles = foreign /\ watch'[n].seen = seen)
    <3>1. CASE Scan(n)
      <4>1. watch'[n] = [Resting EXCEPT !.cameras = ToRestore(n, watch[n].seen)]
        BY <1>1, <3>1 DEF Scan
      <4> QED BY <4>1 DEF Resting
    <3>2. CASE Look(n)
      <4>1. \/ watch'[n] = [seen |-> seen, handles |-> foreign, cameras |-> {}]
            \/ watch'[n] = [Resting EXCEPT !.cameras = ToRestore(n, seen)]
        BY <1>1, <3>2 DEF Look
      <4> HIDE DEF seen, foreign
      <4> QED BY <4>1 DEF Resting
    <3> QED BY <1>2, <3>1, <3>2
  <2>4. \A m \in Nodes \ {n} : watch'[m] = watch[m]
    BY <1>1, <1>2 DEF Look, Scan
  <2> QED BY <1>1, <2>1, <2>3, <2>4 DEF WatchInv
<1>3. ASSUME NEW n \in Nodes, ReleaseOne(n) \/ RestoreOne(n) PROVE WatchInv'
  <2>1. \/ \E h : watch' = [watch EXCEPT ![n].handles = @ \ {h}]
        \/ \E c : watch' = [watch EXCEPT ![n].cameras = @ \ {c}]
    BY <1>3 DEF ReleaseOne, RestoreOne
  <2>2. \A m \in Nodes : watch'[m].handles \subseteq watch[m].handles /\ watch'[m].seen = watch[m].seen
    BY <1>1, <2>1 DEF Watch
  <2> QED BY <1>1, <2>2 DEF WatchInv
<1>4. watch' = watch => WatchInv'
  BY <1>1 DEF WatchInv
<1> QED
  BY <1>2, <1>3, <1>4
  DEF Next, CallStep, HostTakesIn, HostForgets, HostCloses, HostAdds, HostKeeps, Answer, Forget,
      TimesOut, Connect, Disconnect, WatchStep, HostRestarts, Refresh, Move, Poll, PollLost, Drain,
      Ingest, IngestRaises, Vehicle, LinkLost, LinkReturns, vars

-----------------------------------------------------------------------------
(* Sessions *)

(* Most steps only end sessions, or leave the cameras they are with alone.  *)
OnlyCloses ==
  \A n \in Nodes, h \in Numbers :
    session'[n][h].camera = session[n][h].camera \/ session'[n][h].camera = None

(* No number of a host is kept any more, and no session left.              *)
Emptied(n) ==
  /\ \A c \in Cameras : kept'[n][c] = None
  /\ \A h \in Numbers : session'[n][h].camera = None

(* A request that is closing a session of a camera, or has just added one.  *)
Holds(a) == call[a].stage \in {"forgotten", "clearing", "added"}

(* Steps that lock nothing keep the invariant, if a request that held a     *)
(* session still does, or the session is gone.                             *)
LEMMA QuietKeeps ==
  ASSUME TypeOK, SessionInv, OnlyCloses,
         \A n \in Nodes : (\A c \in Cameras : kept'[n][c] = kept[n][c]) \/ Emptied(n),
         \A a \in Callers : call'[a].stage \in Locking => call'[a] = call[a],
         \A a \in Callers : Holds(a) =>
           call'[a] = call[a] \/ session'[NodeOf(a)][call[a].number].camera = None,
         CallInv
  PROVE  SessionInv'
<1>1. LockInv'
  BY DEF SessionInv, LockInv
<1>2. ForgottenInv'
  <2> SUFFICES ASSUME NEW a \in Callers, call'[a].stage \in Locking
               PROVE  /\ call'[a].stage \in {"clearing", "adding", "added"} =>
                           kept'[NodeOf(a)][call'[a].camera] = None
                      /\ call'[a].stage = "replacing" =>
                           kept'[NodeOf(a)][call'[a].camera] \in {None, call'[a].number}
    BY DEF ForgottenInv, Locking
  <2>1. call'[a] = call[a] /\ NodeOf(a) \in Nodes /\ call[a].camera \in Cameras
    BY CallerNode DEF CallInv, GoodCall, Locking
  <2>2. kept'[NodeOf(a)][call[a].camera] \in {None, kept[NodeOf(a)][call[a].camera]}
    BY <2>1 DEF Emptied
  <2> QED BY <2>1, <2>2 DEF SessionInv, ForgottenInv
<1>3. KeptInv'
  <2> SUFFICES ASSUME NEW n \in Nodes, NEW c \in Cameras, NEW h \in Numbers, session'[n][h].camera = c
               PROVE  kept'[n][c] = h \/ (BeingClosed(n, h))' \/ (BeingAdded(n, c, h))'
    BY DEF KeptInv
  <2>1. session[n][h].camera = c /\ kept'[n][c] = kept[n][c]
    BY NoneIsNone DEF OnlyCloses, Emptied
  <2>2. CASE BeingClosed(n, h)
    <3>1. PICK a \in Callers : NodeOf(a) = n /\ call[a].number = h /\ call[a].stage \in {"forgotten", "clearing"}
      BY <2>2 DEF BeingClosed
    <3>2. call'[a] = call[a]
      BY <3>1, NoneIsNone DEF Holds
    <3> QED BY <3>1, <3>2 DEF BeingClosed
  <2>3. CASE BeingAdded(n, c, h)
    <3>1. PICK a \in Callers :
            NodeOf(a) = n /\ call[a].stage = "added" /\ call[a].camera = c /\ call[a].number = h
      BY <2>3 DEF BeingAdded
    <3>2. call'[a] = call[a]
      BY <3>1, NoneIsNone DEF Holds
    <3> QED BY <3>1, <3>2 DEF BeingAdded
  <2> QED BY <2>1, <2>2, <2>3 DEF SessionInv, KeptInv
<1> QED BY <1>1, <1>2, <1>3 DEF SessionInv

(* A request that had the lock goes on with it, or gives it back.           *)
LEMMA LockGoesOn ==
  ASSUME TypeOK, LockInv, NEW a \in Callers, NEW x, call' = [call EXCEPT ![a] = x],
         x.stage \in Locking => call[a].stage \in Locking /\ x.camera = call[a].camera
  PROVE  LockInv'
<1>1. call'[a] = x /\ \A b \in Callers \ {a} : call'[b] = call[b]
  BY DEF TypeOK
<1> QED BY <1>1 DEF LockInv

(* A host that takes a request in answers with the number it keeps, or      *)
(* takes the address's lock.                                               *)
LEMMA TakesInKeeps ==
  ASSUME IInv, NEW a \in Callers, HostTakesIn(a)
  PROVE  SessionInv'
<1> DEFINE n == NodeOf(a)
           c == call[a].camera
<1>1. n \in Nodes /\ c \in Cameras
  BY CallerNode DEF HostTakesIn, IInv, CallInv, GoodCall
<1>2. TypeOK /\ CallInv /\ SessionInv /\ call \in [Callers -> Call]
  BY DEF IInv, TypeOK
<1>3. /\ \A b \in Callers \ {a} : call'[b] = call[b]
      /\ kept' = kept /\ session' = session
  BY <1>2 DEF HostTakesIn, Replies
<1>4. \/ call'[a].stage \notin Locking
      \/ /\ call'[a].stage = "adding" /\ call'[a].camera = c
         /\ kept[n][c] = None
      \/ /\ call'[a].stage = "replacing" /\ call'[a].camera = c
         /\ kept[n][c] = call'[a].number
  <2>1. call[a] \in Call
    BY <1>2
  <2>2. \/ call'[a] = NoCall
        \/ call'[a] = [call[a] EXCEPT !.stage = "answered", !.number = kept[n][c]]
        \/ call'[a] = [call[a] EXCEPT !.stage = "replacing", !.number = kept[n][c]]
        \/ call'[a] = [call[a] EXCEPT !.stage = "adding"] /\ kept[n][c] = None
    BY <1>2 DEF HostTakesIn, Replies
  <2> QED BY <2>1, <2>2, DataTypes DEF Call, Locking
<1>5. \A b \in Callers \ {a} : ~(NodeOf(b) = n /\ call[b].stage \in Locking /\ call[b].camera = c)
  BY DEF HostTakesIn, LockFree
<1>6. LockInv'
  BY <1>2, <1>3, <1>4, <1>5 DEF SessionInv, LockInv
<1>7. ForgottenInv'
  <2> SUFFICES ASSUME NEW b \in Callers
               PROVE  /\ call'[b].stage \in {"clearing", "adding", "added"} =>
                           kept[NodeOf(b)][call'[b].camera] = None
                      /\ call'[b].stage = "replacing" =>
                           kept[NodeOf(b)][call'[b].camera] \in {None, call'[b].number}
    BY <1>3 DEF ForgottenInv
  <2>1. CASE b = a
    BY <1>4, <2>1 DEF Locking
  <2>2. CASE b # a
    BY <1>2, <1>3, <2>2 DEF SessionInv, ForgottenInv
  <2> QED BY <2>1, <2>2
<1>8. \A b \in Callers : Holds(b) => call'[b] = call[b]
  BY <1>3 DEF HostTakesIn, Holds
<1>9. KeptInv'
  <2> SUFFICES ASSUME NEW m \in Nodes, NEW d \in Cameras, NEW h \in Numbers, session[m][h].camera = d
               PROVE  kept[m][d] = h \/ (BeingClosed(m, h))' \/ (BeingAdded(m, d, h))'
    BY <1>3 DEF KeptInv
  <2>1. BeingClosed(m, h) => (BeingClosed(m, h))'
    BY <1>8 DEF BeingClosed, Holds
  <2>2. BeingAdded(m, d, h) => (BeingAdded(m, d, h))'
    BY <1>8 DEF BeingAdded, Holds
  <2> QED BY <1>2, <2>1, <2>2 DEF SessionInv, KeptInv
<1> QED BY <1>6, <1>7, <1>9 DEF SessionInv

(* A number that leaves the books is about to be closed.                   *)
LEMMA ForgetsKeeps ==
  ASSUME IInv, NEW a \in Callers, HostForgets(a)
  PROVE  SessionInv'
<1> DEFINE n == NodeOf(a)
           h == call[a].number
           x == [call[a] EXCEPT !.stage = IF @ = "closing" THEN "forgotten" ELSE "clearing"]
<1>1. /\ TypeOK /\ CallInv /\ SessionInv /\ call \in [Callers -> Call] /\ call[a] \in Call
      /\ n \in Nodes /\ GoodCall(call[a])
  BY CallerNode DEF IInv, TypeOK, CallInv
<1>2. h \in Numbers /\ call[a].camera \in Cameras
  BY <1>1 DEF HostForgets, GoodCall
<1>3. /\ x.camera = call[a].camera /\ x.number = h
      /\ \/ x.stage = "forgotten" /\ call[a].stage = "closing"
         \/ x.stage = "clearing" /\ call[a].stage = "replacing"
      /\ call' = [call EXCEPT ![a] = x]
  BY <1>1 DEF HostForgets, Call
<1> HIDE DEF x
<1>4. call'[a] = x /\ \A b \in Callers \ {a} : call'[b] = call[b]
  BY <1>1, <1>3
<1>5. \A m \in Nodes, c \in Cameras :
        kept'[m][c] = IF m = n /\ kept[m][c] = h THEN None ELSE kept[m][c]
  BY <1>1 DEF HostForgets, TypeOK
<1>6. \A m \in Nodes, k \in Numbers : session'[m][k].camera = session[m][k].camera
  <2>1. \A m \in Nodes, k \in Numbers : session[m][k] \in Session
    BY <1>1 DEF TypeOK
  <2>2. \A m \in Nodes, k \in Numbers :
          session'[m][k] = IF m = n /\ k = h THEN [session[m][k] EXCEPT !.listed = None]
                           ELSE session[m][k]
    BY <1>1, <1>2 DEF HostForgets, TypeOK
  <2>3. \A s \in Session : [s EXCEPT !.listed = None].camera = s.camera
    BY DEF Session
  <2> QED BY <2>1, <2>2, <2>3
<1>7. LockInv'
  <2>1. x.stage \in Locking => call[a].stage \in Locking /\ x.camera = call[a].camera
    BY <1>3 DEF Locking
  <2> QED BY <1>1, <1>3, <2>1, LockGoesOn DEF SessionInv
<1>8. ForgottenInv'
  <2> SUFFICES ASSUME NEW b \in Callers
               PROVE  /\ call'[b].stage \in {"clearing", "adding", "added"} =>
                           kept'[NodeOf(b)][call'[b].camera] = None
                      /\ call'[b].stage = "replacing" =>
                           kept'[NodeOf(b)][call'[b].camera] \in {None, call'[b].number}
    BY DEF ForgottenInv
  <2>1. CASE b = a
    <3>1. x.stage = "clearing" => kept[n][call[a].camera] \in {None, h}
      BY <1>1, <1>3 DEF SessionInv, ForgottenInv
    <3> QED BY <1>1, <1>2, <1>3, <1>4, <1>5, <2>1, <3>1
  <2>2. CASE b # a
    <3>1. call'[b] = call[b] /\ NodeOf(b) \in Nodes /\ GoodCall(call[b])
      BY <1>1, <1>4, <2>2, CallerNode DEF CallInv
    <3>2. call[b].stage \in Locking => call[b].camera \in Cameras
      BY <3>1 DEF GoodCall, Locking
    <3>3. call[b].stage \in Locking =>
            kept'[NodeOf(b)][call[b].camera] \in {None, kept[NodeOf(b)][call[b].camera]}
      BY <1>5, <3>1, <3>2
    <3> QED BY <1>1, <3>1, <3>3 DEF SessionInv, ForgottenInv, Locking
  <2> QED BY <2>1, <2>2
<1>9. KeptInv'
  <2> SUFFICES ASSUME NEW m \in Nodes, NEW d \in Cameras, NEW k \in Numbers, session'[m][k].camera = d
               PROVE  kept'[m][d] = k \/ (BeingClosed(m, k))' \/ (BeingAdded(m, d, k))'
    BY DEF KeptInv
  <2>1. kept[m][d] = k \/ BeingClosed(m, k) \/ BeingAdded(m, d, k)
    BY <1>1, <1>6 DEF SessionInv, KeptInv
  <2>2. CASE kept[m][d] = k
    <3>1. CASE m = n /\ k = h
      BY <1>3, <1>4, <3>1 DEF BeingClosed
    <3>2. CASE ~(m = n /\ k = h)
      BY <1>5, <2>2, <3>2
    <3> QED BY <3>1, <3>2
  <2>3. \A b \in Callers : Holds(b) => call'[b] = call[b]
    BY <1>3, <1>4 DEF Holds
  <2>4. BeingClosed(m, k) => (BeingClosed(m, k))'
    BY <2>3 DEF BeingClosed, Holds
  <2>5. BeingAdded(m, d, k) => (BeingAdded(m, d, k))'
    BY <2>3 DEF BeingAdded, Holds
  <2> QED BY <2>1, <2>2, <2>4, <2>5
<1> QED BY <1>7, <1>8, <1>9 DEF SessionInv

(* What is closed is nobody's session; a connect that closed it goes on.    *)
LEMMA ClosesKeeps ==
  ASSUME IInv, NEW a \in Callers, HostCloses(a)
  PROVE  SessionInv'
<1> DEFINE n == NodeOf(a)
           h == call[a].number
<1>1. /\ TypeOK /\ CallInv /\ SessionInv /\ call \in [Callers -> Call] /\ call[a] \in Call
      /\ n \in Nodes /\ GoodCall(call[a]) /\ kept' = kept
  BY CallerNode DEF IInv, TypeOK, CallInv, HostCloses
<1>2. h \in Numbers /\ call[a].camera \in Cameras
  BY <1>1 DEF HostCloses, GoodCall
<1>3. /\ session'[n][h].camera = None
      /\ \A m \in Nodes, k \in Numbers : ~(m = n /\ k = h) => session'[m][k] = session[m][k]
  BY <1>1, <1>2, DataTypes DEF HostCloses, TypeOK, Closed
<1>4. OnlyCloses
  BY <1>3 DEF OnlyCloses
<1>5. \A b \in Callers \ {a} : call'[b] = call[b]
  BY <1>1 DEF HostCloses
<1>6. \/ call'[a].stage \notin Locking
      \/ /\ call[a].stage = "clearing" /\ call'[a].stage = "adding"
         /\ call'[a].camera = call[a].camera
         /\ call' = [call EXCEPT ![a] = [call[a] EXCEPT !.stage = "adding"]]
  <2>1. \/ call'[a] = NoCall \/ call'[a] = [call[a] EXCEPT !.stage = "closed"]
        \/ /\ call[a].stage = "clearing"
           /\ call' = [call EXCEPT ![a] = [call[a] EXCEPT !.stage = "adding"]]
    BY <1>1 DEF HostCloses
  <2> QED BY <1>1, <2>1, DataTypes DEF Call, Locking
<1>7. CASE call'[a].stage \notin Locking
  <2>1. \A b \in Callers : call'[b].stage \in Locking => call'[b] = call[b]
    BY <1>5, <1>7
  <2>2. \A b \in Callers : Holds(b) =>
          call'[b] = call[b] \/ session'[NodeOf(b)][call[b].number].camera = None
    BY <1>3, <1>5
  <2> QED BY <1>1, <1>4, <2>1, <2>2, QuietKeeps
<1>8. CASE call'[a].stage \in Locking
  <2>1. LockInv'
    BY <1>1, <1>6, <1>8, LockGoesOn DEF SessionInv, Locking
  <2>2. ForgottenInv'
    <3> SUFFICES ASSUME NEW b \in Callers
                 PROVE  /\ call'[b].stage \in {"clearing", "adding", "added"} =>
                             kept[NodeOf(b)][call'[b].camera] = None
                        /\ call'[b].stage = "replacing" =>
                             kept[NodeOf(b)][call'[b].camera] \in {None, call'[b].number}
      BY <1>1 DEF ForgottenInv
    <3>1. CASE b = a
      BY <1>1, <1>6, <1>8, <3>1 DEF SessionInv, ForgottenInv
    <3>2. CASE b # a
      BY <1>1, <1>5, <3>2 DEF SessionInv, ForgottenInv
    <3> QED BY <3>1, <3>2
  <2>3. KeptInv'
    <3> SUFFICES ASSUME NEW m \in Nodes, NEW d \in Cameras, NEW k \in Numbers, session'[m][k].camera = d
                 PROVE  kept[m][d] = k \/ (BeingClosed(m, k))' \/ (BeingAdded(m, d, k))'
      BY <1>1 DEF KeptInv
    <3>1. ~(m = n /\ k = h) /\ session[m][k].camera = d
      BY <1>3, NoneIsNone
    <3>2. BeingClosed(m, k) => (BeingClosed(m, k))'
      BY <1>5, <3>1 DEF BeingClosed
    <3>3. BeingAdded(m, d, k) => (BeingAdded(m, d, k))'
      BY <1>5, <1>6, <1>8 DEF BeingAdded
    <3> QED BY <1>1, <3>1, <3>2, <3>3 DEF SessionInv, KeptInv
  <2> QED BY <2>1, <2>2, <2>3 DEF SessionInv
<1> QED BY <1>7, <1>8

(* The camera is added under a free number.                                *)
LEMMA AddsKeeps ==
  ASSUME IInv, NEW a \in Callers, HostAdds(a)
  PROVE  SessionInv'
<1> DEFINE n == NodeOf(a)
           c == call[a].camera
<1>1. /\ TypeOK /\ CallInv /\ SessionInv /\ call \in [Callers -> Call] /\ call[a] \in Call
      /\ n \in Nodes /\ c \in Cameras /\ kept' = kept /\ call[a].stage = "adding"
  BY CallerNode DEF IInv, TypeOK, CallInv, HostAdds, GoodCall
<1>2. CASE UNCHANGED session /\ call' = [call EXCEPT ![a] = NoCall]
  <2>1. call'[a] = NoCall /\ \A b \in Callers \ {a} : call'[b] = call[b]
    BY <1>1, <1>2
  <2>2. OnlyCloses
    BY <1>2 DEF OnlyCloses
  <2>3. \A b \in Callers : call'[b].stage \in Locking => call'[b] = call[b]
    BY <2>1, DataTypes DEF Locking
  <2>4. \A b \in Callers : Holds(b) => call'[b] = call[b]
    BY <1>1, <2>1 DEF Holds
  <2> QED BY <1>1, <2>2, <2>3, <2>4, QuietKeeps
<1>3. CASE \E h \in Numbers :
             /\ session' = [session EXCEPT ![n][h] = Opened(c)]
             /\ call' = [call EXCEPT ![a].stage = "added", ![a].number = h]
  <2>1. PICK h \in Numbers :
          /\ session' = [session EXCEPT ![n][h] = Opened(c)]
          /\ call' = [call EXCEPT ![a].stage = "added", ![a].number = h]
    BY <1>3
  <2> DEFINE x == [call[a] EXCEPT !.stage = "added", !.number = h]
  <2>2. /\ x.stage = "added" /\ x.camera = c /\ x.number = h
        /\ call' = [call EXCEPT ![a] = x]
    BY <1>1, <2>1 DEF Call
  <2> HIDE DEF x
  <2>3. call'[a] = x /\ \A b \in Callers \ {a} : call'[b] = call[b]
    BY <1>1, <2>2
  <2>4. \A m \in Nodes, k \in Numbers :
          session'[m][k].camera = IF m = n /\ k = h THEN c ELSE session[m][k].camera
    BY <1>1, <2>1 DEF TypeOK, Opened
  <2>5. LockInv'
    BY <1>1, <2>2, LockGoesOn DEF SessionInv, Locking
  <2>6. ForgottenInv'
    <3> SUFFICES ASSUME NEW b \in Callers
                 PROVE  /\ call'[b].stage \in {"clearing", "adding", "added"} =>
                             kept[NodeOf(b)][call'[b].camera] = None
                        /\ call'[b].stage = "replacing" =>
                             kept[NodeOf(b)][call'[b].camera] \in {None, call'[b].number}
      BY <1>1 DEF ForgottenInv
    <3>1. CASE b = a
      BY <1>1, <2>2, <2>3, <3>1 DEF SessionInv, ForgottenInv
    <3>2. CASE b # a
      BY <1>1, <2>3, <3>2 DEF SessionInv, ForgottenInv
    <3> QED BY <3>1, <3>2
  <2>7. KeptInv'
    <3> SUFFICES ASSUME NEW m \in Nodes, NEW d \in Cameras, NEW k \in Numbers, session'[m][k].camera = d
                 PROVE  kept[m][d] = k \/ (BeingClosed(m, k))' \/ (BeingAdded(m, d, k))'
      BY <1>1 DEF KeptInv
    <3>1. CASE m = n /\ k = h
      BY <2>2, <2>3, <2>4, <3>1 DEF BeingAdded
    <3>2. CASE ~(m = n /\ k = h)
      <4>1. session[m][k].camera = d
        BY <2>4, <3>2
      <4>2. \A b \in Callers : Holds(b) => call'[b] = call[b]
        BY <1>1, <2>3 DEF Holds
      <4>3. BeingClosed(m, k) => (BeingClosed(m, k))'
        BY <4>2 DEF BeingClosed, Holds
      <4>4. BeingAdded(m, d, k) => (BeingAdded(m, d, k))'
        BY <4>2 DEF BeingAdded, Holds
      <4> QED BY <1>1, <4>1, <4>3, <4>4 DEF SessionInv, KeptInv
    <3> QED BY <3>1, <3>2
  <2> QED BY <2>5, <2>6, <2>7 DEF SessionInv
<1> QED BY <1>2, <1>3 DEF HostAdds, FreeNumbers, SessionsOf

(* The number that was added is kept for the address, which had none.      *)
LEMMA KeepsKeeps ==
  ASSUME IInv, NEW a \in Callers, HostKeeps(a)
  PROVE  SessionInv'
<1> DEFINE n == NodeOf(a)
           c == call[a].camera
           h == call[a].number
<1>1. /\ TypeOK /\ CallInv /\ SessionInv /\ call \in [Callers -> Call] /\ call[a] \in Call
      /\ n \in Nodes /\ c \in Cameras /\ h \in Numbers /\ session' = session
      /\ call[a].stage = "added"
  BY CallerNode DEF IInv, TypeOK, CallInv, HostKeeps, GoodCall
<1>2. \A m \in Nodes, d \in Cameras : kept'[m][d] = IF m = n /\ d = c THEN h ELSE kept[m][d]
  BY <1>1 DEF HostKeeps, TypeOK
<1>3. call'[a].stage \notin Locking /\ \A b \in Callers \ {a} : call'[b] = call[b]
  <2>1. /\ call'[a] = NoCall \/ call'[a] = [call[a] EXCEPT !.stage = "answered"]
        /\ \A b \in Callers \ {a} : call'[b] = call[b]
    BY <1>1 DEF HostKeeps, Replies
  <2> QED BY <1>1, <2>1, DataTypes DEF Call, Locking
<1>4. \A b \in Callers \ {a} :
        NodeOf(b) = n /\ call[b].stage \in Locking => call[b].camera # c
  BY <1>1 DEF SessionInv, LockInv, Locking
<1>5. kept[n][c] = None
  BY <1>1 DEF SessionInv, ForgottenInv
<1>6. LockInv'
  BY <1>1, <1>3 DEF SessionInv, LockInv
<1>7. ForgottenInv'
  <2> SUFFICES ASSUME NEW b \in Callers, call'[b].stage \in Locking
               PROVE  /\ call'[b].stage \in {"clearing", "adding", "added"} =>
                           kept'[NodeOf(b)][call'[b].camera] = None
                      /\ call'[b].stage = "replacing" =>
                           kept'[NodeOf(b)][call'[b].camera] \in {None, call'[b].number}
    BY DEF ForgottenInv, Locking
  <2>1. b # a /\ call'[b] = call[b] /\ NodeOf(b) \in Nodes /\ GoodCall(call[b])
    BY <1>1, <1>3, CallerNode DEF CallInv
  <2>2. call[b].camera \in Cameras
    BY <2>1 DEF GoodCall, Locking
  <2>3. kept'[NodeOf(b)][call[b].camera] = kept[NodeOf(b)][call[b].camera]
    BY <1>2, <1>4, <2>1, <2>2
  <2> QED BY <1>1, <2>1, <2>3 DEF SessionInv, ForgottenInv
<1>8. KeptInv'
  <2> SUFFICES ASSUME NEW m \in Nodes, NEW d \in Cameras, NEW k \in Numbers, session[m][k].camera = d
               PROVE  kept'[m][d] = k \/ (BeingClosed(m, k))' \/ (BeingAdded(m, d, k))'
    BY <1>1 DEF KeptInv
  <2>1. kept[m][d] = k => kept'[m][d] = k
    BY <1>2, <1>5, NoneIsNone
  <2>2. BeingClosed(m, k) => (BeingClosed(m, k))'
    BY <1>1, <1>3 DEF BeingClosed
  <2>3. BeingAdded(m, d, k) => kept'[m][d] = k \/ (BeingAdded(m, d, k))'
    BY <1>1, <1>2, <1>3 DEF BeingAdded
  <2> QED BY <1>1, <2>1, <2>2, <2>3 DEF SessionInv, KeptInv
<1> QED BY <1>6, <1>7, <1>8 DEF SessionInv

(* A request whose client gave up goes on where it was.                    *)
LEMMA TimesOutKeeps ==
  ASSUME IInv, NEW a \in Callers, TimesOut(a)
  PROVE  SessionInv'
<1> DEFINE s == Stray(NodeOf(a))
<1>1. /\ TypeOK /\ SessionInv /\ call \in [Callers -> Call]
      /\ s \in Callers /\ s # a /\ NodeOf(s) = NodeOf(a)
      /\ kept' = kept /\ session' = session
  BY CallerNode DEF IInv, TypeOK, TimesOut, IsStray
<1>2. /\ call'[s] = call[a] /\ call'[a] = GivenUp(a)
      /\ call[s].stage = "idle"
      /\ \A b \in Callers \ {a, s} : call'[b] = call[b]
  BY <1>1, DataTypes DEF TimesOut
<1>3. call'[a].stage \in {"idle", "closed"}
  BY <1>1, <1>2, GivenUpType
<1>4. LockInv'
  BY <1>1, <1>2, <1>3 DEF SessionInv, LockInv, Locking
<1>5. ForgottenInv'
  BY <1>1, <1>2, <1>3 DEF SessionInv, ForgottenInv
<1>6. KeptInv'
  <2> SUFFICES ASSUME NEW m \in Nodes, NEW d \in Cameras, NEW k \in Numbers, session[m][k].camera = d
               PROVE  kept[m][d] = k \/ (BeingClosed(m, k))' \/ (BeingAdded(m, d, k))'
    BY <1>1 DEF KeptInv
  <2>1. BeingClosed(m, k) => (BeingClosed(m, k))'
    BY <1>1, <1>2 DEF BeingClosed
  <2>2. BeingAdded(m, d, k) => (BeingAdded(m, d, k))'
    BY <1>1, <1>2 DEF BeingAdded
  <2> QED BY <1>1, <2>1, <2>2 DEF SessionInv, KeptInv
<1> QED BY <1>4, <1>5, <1>6 DEF SessionInv

LEMMA SessionsHold == IInv /\ [Next]_vars => SessionInv'
<1> SUFFICES ASSUME IInv, [Next]_vars PROVE SessionInv'
  OBVIOUS
<1>1. TypeOK /\ CallInv /\ WatchInv /\ SessionInv /\ call \in [Callers -> Call]
  BY DEF IInv, TypeOK
<1> DEFINE SameBooks == kept' = kept /\ OnlyCloses
           SameLocks == \A a \in Callers :
                          /\ call'[a].stage \in Locking => call'[a] = call[a]
                          /\ Holds(a) => call'[a] = call[a]
<1>2. SameBooks /\ SameLocks => SessionInv'
  BY <1>1, QuietKeeps
<1>3. call' = call => SameLocks
  OBVIOUS
<1>4. kept' = kept /\ session' = session => SameBooks
  BY DEF OnlyCloses
<1>5. ASSUME NEW a \in Callers, CallStep(a) PROVE SessionInv'
  <2>1. CASE Answer(a) \/ Forget(a)
    <3>1. call'[a] = NoCall /\ \A b \in Callers \ {a} : call'[b] = call[b]
      BY <1>1, <2>1 DEF Answer, Forget
    <3>2. ~Holds(a)
      BY <2>1 DEF Answer, Forget, Holds
    <3>3. SameLocks
      BY <3>1, <3>2, DataTypes DEF Locking
    <3> QED BY <1>2, <1>4, <2>1, <3>3 DEF Answer, Forget
  <2> QED BY <1>5, <2>1, TakesInKeeps, ForgetsKeeps, ClosesKeeps, AddsKeeps, KeepsKeeps DEF CallStep
<1>6. ASSUME NEW n \in Nodes,
             \/ \E c \in Cameras : Connect(n, c) \/ Disconnect(n, c)
             \/ ReleaseOne(n)
             \/ RestoreOne(n) /\ call' # call
      PROVE  SessionInv'
  <2>1. PICK a \in Callers, x \in Call : Begins(a, x) /\ x.stage \in {"asking", "closing"}
    BY <1>1, <1>6, BeginsWhat
  <2>2. call'[a] = x /\ \A b \in Callers \ {a} : call'[b] = call[b]
    BY <1>1, <2>1 DEF Begins
  <2>3. SameLocks
    BY <2>1, <2>2 DEF Begins, Holds, Locking
  <2> QED BY <1>2, <1>4, <1>6, <2>3 DEF Connect, Disconnect, ReleaseOne, RestoreOne
<1>7. ASSUME NEW n \in Nodes, HostRestarts(n) PROVE SessionInv'
  <2>1. \A h \in Numbers : session'[n][h].camera = None
    BY <1>1, <1>7, DataTypes DEF HostRestarts, TypeOK
  <2>2. \A m \in Nodes \ {n} : session'[m] = session[m] /\ kept'[m] = kept[m]
    BY <1>1, <1>7 DEF HostRestarts, TypeOK
  <2>3. Emptied(n)
    BY <1>1, <1>7, <2>1 DEF HostRestarts, TypeOK, Emptied
  <2>4. OnlyCloses
    BY <2>1, <2>2 DEF OnlyCloses
  <2>5. \A m \in Nodes : (\A c \in Cameras : kept'[m][c] = kept[m][c]) \/ Emptied(m)
    BY <2>2, <2>3
  <2>6. \A a \in Callers :
          \/ call'[a] = call[a]
          \/ NodeOf(a) = n /\ call'[a] = GivenUp(a) /\ call[a].stage \in AtHostStages
    BY <1>7 DEF HostRestarts
  <2>7. \A a \in Callers : call'[a].stage \in Locking => call'[a] = call[a]
    BY <1>1, <2>6, GivenUpType DEF Locking
  <2>8. \A a \in Callers : Holds(a) =>
          call'[a] = call[a] \/ session'[NodeOf(a)][call[a].number].camera = None
    <3> SUFFICES ASSUME NEW a \in Callers, Holds(a), NodeOf(a) = n
                 PROVE  session'[n][call[a].number].camera = None
      BY <2>6
    <3>1. call[a].number \in Numbers
      BY <1>1 DEF CallInv, GoodCall, Holds
    <3> QED BY <2>1, <3>1
  <2> QED BY <1>1, <2>4, <2>5, <2>7, <2>8, QuietKeeps
<1>8. ASSUME NEW n \in Nodes, NEW c \in Cameras, Poll(n, c) \/ PollLost(n, c) PROVE SessionInv'
  <2>1. \A x \in Session : Rearmed(x).camera = x.camera
    BY DEF Rearmed, Session
  <2>2. /\ session' = [session EXCEPT ![n][spec[n][c]] = Rearmed(@)] /\ spec[n][c] \in Numbers
        /\ call' = call /\ kept' = kept
    BY <1>1, <1>8 DEF Poll, PollLost, Drain, TypeOK
  <2>3. OnlyCloses
    BY <1>1, <2>1, <2>2 DEF OnlyCloses, TypeOK
  <2> QED BY <1>2, <1>3, <2>2, <2>3
<1>9. ASSUME NEW c \in Cameras, LinkLost(c) PROVE SessionInv'
  <2>1. \A x \in Session : [x EXCEPT !.images = "lost"].camera = x.camera
    BY DEF Session
  <2>2. OnlyCloses
    BY <1>1, <1>9, <2>1 DEF LinkLost, OnlyCloses, TypeOK
  <2> QED BY <1>2, <1>3, <1>9, <2>2 DEF LinkLost
<1>10. SameLocks /\ kept' = kept /\ session' = session => SessionInv'
  BY <1>2, <1>4
<1> QED
  BY <1>3, <1>5, <1>6, <1>7, <1>8, <1>9, <1>10, TimesOutKeeps
  DEF Next, WatchStep, RestoreOne, Look, Scan, Refresh, Move, Ingest, IngestRaises, Vehicle,
      LinkReturns, vars

-----------------------------------------------------------------------------
LEMMA InitInv == Init => IInv
<1> SUFFICES ASSUME Init PROVE IInv
  OBVIOUS
<1>1. TypeOK
  BY InitType
<1>2. CallInv /\ LockInv /\ ForgottenInv
  BY DataTypes DEF Init, CallInv, GoodCall, LockInv, ForgottenInv, Locking
<1>3. WatchInv
  BY DataTypes DEF Init, WatchInv
<1>4. ASSUME NEW n \in Nodes, NEW c \in Cameras, NEW h \in Numbers, session[n][h].camera = c
      PROVE  kept[n][c] = h
  <2>1. CASE \E d \in Cameras : Active(n, d) /\ row[d] = h
    <3>1. session[n][h].camera = CHOOSE d \in Cameras : Active(n, d) /\ row[d] = h
      BY <2>1 DEF Init, Opened
    <3>2. Active(n, c) /\ row[c] = h
      BY <1>4, <2>1, <3>1
    <3> QED BY <3>2 DEF Init
  <2>2. CASE ~\E d \in Cameras : Active(n, d) /\ row[d] = h
    BY <1>4, <2>2, DataTypes, NoneIsNone DEF Init
  <2> QED BY <2>1, <2>2
<1>5. KeptInv
  BY <1>4 DEF KeptInv
<1> QED BY <1>1, <1>2, <1>3, <1>5 DEF IInv, SessionInv

LEMMA StepInv == IInv /\ [Next]_vars => IInv'
BY TypeHolds, CallHolds, WatchHolds, SessionsHold DEF IInv

(* Two sessions of a host with one camera cannot both be the one that is    *)
(* kept or the one that was just added.                                    *)
LEMMA OneOfTwo == IInv => OneSession
<1> SUFFICES ASSUME IInv, NEW n \in Nodes, NEW c \in Cameras, NEW h \in Numbers, NEW k \in Numbers,
                    session[n][h].camera = c, session[n][k].camera = c,
                    ~BeingClosed(n, h), ~BeingClosed(n, k)
             PROVE  h = k
  BY DEF OneSession, SessionsOf
<1>1. LockInv /\ ForgottenInv /\ KeptInv
  BY DEF IInv, SessionInv
<1>2. (kept[n][c] = h \/ BeingAdded(n, c, h)) /\ (kept[n][c] = k \/ BeingAdded(n, c, k))
  BY <1>1 DEF KeptInv
<1>3. \A i \in Numbers : BeingAdded(n, c, i) => kept[n][c] = None
  BY <1>1 DEF BeingAdded, ForgottenInv
<1>4. BeingAdded(n, c, h) /\ BeingAdded(n, c, k) => h = k
  BY <1>1 DEF BeingAdded, LockInv, Locking
<1> QED BY <1>2, <1>3, <1>4, NoneIsNone

LEMMA Invariance == Spec => []IInv
<1>1. Init => IInv
  BY InitInv
<1>2. IInv /\ [Next]_vars => IInv'
  BY StepInv
<1> QED BY <1>1, <1>2, PTL DEF Spec

(* The state of hosts, loops and calls is well typed.                      *)
THEOREM TypeCorrect == Spec => []TypeOK
<1>1. IInv => TypeOK
  BY DEF IInv
<1> QED BY <1>1, Invariance, PTL

(* Of two sessions of a host with one camera, one is being closed by a      *)
(* disconnect that has forgotten it (add_and_connect, disconnect).         *)
THEOREM OneSessionEach == Spec => []OneSession
<1>1. IInv => OneSession
  BY OneOfTwo
<1> QED BY <1>1, Invariance, PTL
=============================================================================

---------------------------- MODULE MCAlgorithms ----------------------------
(* The pure algorithms of the system, over bounded inputs: a stay that     *)
(* grows by one unit of time after another, and every kind of capture.     *)
EXTENDS Tariff, CaptureGate

CONSTANTS
  Entries,    \* when a vehicle may come
  MaxStay     \* how long it stays at most

ASSUME EntriesAssumption == Entries \subseteq Nat

VARIABLE input

StaysAt(e) == [what |-> "stay", entry |-> e, exit |-> e]
Init ==
  \/ \E e \in Entries : input = StaysAt(e)
  \/ \E x \in Capture : input = [what |-> "capture", capture |-> x]
Next ==
  /\ input.what = "stay"
  /\ input.exit < input.entry + MaxStay
  /\ input' = [input EXCEPT !.exit = @ + 1]
AlgorithmsSpec == Init /\ [][Next]_input

(* The fee engine's walk along the periods of a stay charges what the      *)
(* schedule says, over period changes, full days and exact blocks          *)
(* (calculate_car1_fee, _charge_span, _next_boundary).                     *)
FeeFollowsSchedule ==
  input.what = "stay" => FollowsSchedule(input.entry, input.exit)

(* A capture that would be kept is also kept when the same scene is seen   *)
(* better: no evidence counts against a vehicle                            *)
(* (should_persist_vehicle_capture).                                       *)
BetterViewIsKept ==
  input.what = "capture" /\ ShouldPersist(input.capture)
    => \A y \in Sighted(input.capture) : ShouldPersist(y)
=============================================================================

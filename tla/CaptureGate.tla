---------------------------- MODULE CaptureGate ----------------------------
(***************************************************************************)
(* Which captures are kept: should_persist_vehicle_capture of              *)
(* services/captures.py with the plate tests of core/plate.py.  A reading  *)
(* that is not kept leaves no record, so the lane never hears of it.       *)
(***************************************************************************)
EXTENDS Integers

(* What a capture says.  local: read by FastALPR, not by the camera.       *)
(* flagged: have_vehicle was set.  box: of the plate; "tiny" has no usable *)
(* aspect, "odd" is not shaped like a plate.  plate: "scene" is what       *)
(* empty lanes are read as, "odd" cannot be a registration, "tz" has the   *)
(* Tanzanian form and that policy is chosen.  confidence: between which of *)
(* the thresholds 0.22, 0.35, 0.55 and 0.85 it lies.                       *)
Plates == {"none", "scene", "odd", "good", "tz"}
Boxes == {"none", "tiny", "odd", "plate"}
Capture ==
  [local : BOOLEAN, flagged : BOOLEAN, box : Boxes, plate : Plates,
   confidence : 0 .. 4, coil : BOOLEAN, allowEmpty : BOOLEAN]

(* is_empty_scene_ocr does not look at the confidence it is given.         *)
Read(x) == IF x.plate = "scene" THEN "none" ELSE x.plate
Plausible(x) == Read(x) \in {"good", "tz"}
HasAspect(x) == x.box \in {"odd", "plate"}
MinConfidence(x) == IF x.plate = "tz" THEN 1 ELSE 2

(* A camera's rectangle is a vehicle signal, a software detector's is not. *)
NativeVehicle(x) == ~x.local /\ (x.flagged \/ x.box # "none")

(* Mutant: a strong reading of an unlikely plate is the one left out.      *)
KeepsNativeReversed(x) ==
  CASE Read(x) # "none" -> Plausible(x) \/ x.confidence < 4
    [] Read(x) = "none" -> x.allowEmpty /\ HasAspect(x)

KeepsNative(x) ==
  CASE Read(x) # "none" -> Plausible(x) \/ x.confidence >= 4
    [] Read(x) = "none" -> x.allowEmpty /\ HasAspect(x)

KeepsReading(x) ==
  /\ Plausible(x)
  /\ x.confidence >= MinConfidence(x)
  /\ \/ x.coil
     \/ ~x.local
     \/ HasAspect(x) /\ x.box = "plate"
     \/ ~HasAspect(x) /\ x.plate = "tz" /\ x.confidence >= 3

ShouldPersist(x) == IF NativeVehicle(x) THEN KeepsNative(x) ELSE KeepsReading(x)

-----------------------------------------------------------------------------
(* y is the same scene as x, seen better.                                  *)
Better(x, y) ==
  /\ y.local = x.local
  /\ x.flagged => y.flagged
  /\ y.box = x.box \/ y.box = "plate"
  /\ y.plate = x.plate \/ (x.plate \in {"none", "scene"} /\ y.plate = "good")
  /\ y.confidence >= x.confidence
  /\ x.coil => y.coil
  /\ y.allowEmpty = x.allowEmpty

Sighted(x) == {y \in Capture : Better(x, y)}
=============================================================================

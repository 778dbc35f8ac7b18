------------------------ MODULE MCRecognitionWorker ------------------------
(* Instances of RecognitionWorker for TLC. *)
EXTENDS RecognitionWorker, TLC

CONSTANTS c1, c2

(* Two vehicles come before one camera, the other watches an empty lane. *)
TwoVehicles == c1 :> 2 @@ c2 :> 0
=============================================================================

------------------------- MODULE MCCapturePipeline -------------------------
(* Instances of CapturePipeline for TLC. *)
EXTENDS CapturePipeline, TLC

CONSTANTS plain, fused, pa, pb, pc, pd, none

(* pb is a misreading like the plate pc; pd is nothing like it. *)
Alikeness ==
  [pair \in {pa, pb, pc, pd} \X {pa, pb, pc, pd} |->
     IF pair[1] = pair[2] THEN 100
     ELSE IF {pair[1], pair[2]} = {pb, pc} THEN 86 ELSE 20]

OwnPlates        == plain :> {pa} @@ fused :> {pc}
SlightMisreading == fused :> {pb, pc}
GraveMisreading  == fused :> {pc, pd}
=============================================================================

---------------------------- MODULE MCNativeHost ----------------------------
(* Instances of NativeHost for TLC. *)
EXTENDS NativeHost, TLC

CONSTANTS n1, n2, c1, c2, h1, h2

(* One camera at each PC, under the same number: the site where a handle is
   most easily mistaken for another camera's. *)
TwoLanes == {[owner |-> c1 :> n1 @@ c2 :> n2, row |-> c1 :> h1 @@ c2 :> h1]}
=============================================================================

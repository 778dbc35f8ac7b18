--------------------------- MODULE MCMediaGateway ---------------------------
(* Instances of MediaGateway for TLC. *)
EXTENDS MediaGateway, TLC

CONSTANTS c1, c2

(* Two panes that ask for different streams, and a single one. *)
TwoRoles == c1 :> "LIVE" @@ c2 :> "MAIN"
OneRole == c1 :> "MAIN"
=============================================================================

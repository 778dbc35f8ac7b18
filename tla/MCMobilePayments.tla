-------------------------- MODULE MCMobilePayments --------------------------
(* Instances of MobilePayments for TLC. *)
EXTENDS MobilePayments

CONSTANTS w1, w2, s1, s2
=============================================================================

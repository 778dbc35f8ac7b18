--------------------------- MODULE PaymentLedger ---------------------------
(***************************************************************************)
(* What mobile payments promise (services/mobile_payments.py, module       *)
(* docstring): money enters the ledger only for a collection the provider  *)
(* itself confirmed in full, and exactly once.                             *)
(***************************************************************************)
EXTENDS Naturals

CONSTANT Ids          \* payment intents

VARIABLES confirmed,  \* intents whose money the provider holds
          entries     \* entries[i]: ledger transactions of intent i

vars == <<confirmed, entries>>

Init ==
  /\ confirmed = {}
  /\ entries = [i \in Ids |-> 0]

(* The customer approves the prompt: outside the code. *)
Confirm(i) ==
  /\ confirmed' = confirmed \cup {i}
  /\ UNCHANGED entries

Credit(i) ==
  /\ i \in confirmed
  /\ entries[i] = 0
  /\ entries' = [entries EXCEPT ![i] = 1]
  /\ UNCHANGED confirmed

Next == \E i \in Ids : Confirm(i) \/ Credit(i)

Spec == Init /\ [][Next]_vars
=============================================================================

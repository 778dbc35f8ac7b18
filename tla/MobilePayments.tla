--------------------------- MODULE MobilePayments ---------------------------
(***************************************************************************)
(* Mobile-money collections of one parking session                         *)
(* (services/mobile_payments.py): the calls that prompt the driver's       *)
(* phone, the provider, its webhooks, and the reconciliation sweeps of the *)
(* background loop and of the operator.                                    *)
(*                                                                         *)
(* All of them run on one event loop, so a handler is atomic between its   *)
(* awaits; the awaits are the calls to the provider.  Each handler has a   *)
(* database session of its own and keeps the rows it loaded across its     *)
(* awaits.                                                                 *)
(***************************************************************************)
EXTENDS Integers, FiniteSetsExt

CONSTANTS
  MaxIntents,   \* bound: payment intents of the session
  Webhooks,     \* webhook deliveries, repeated ones included
  Sweeps,       \* tasks that run reconcile_pending again and again
  MaxDue        \* bound: what the tariff reaches

ASSUME IntentsAssumption == MaxIntents \in Nat
ASSUME DueAssumption == MaxDue \in Nat \ {0}
ASSUME JobsAssumption == Webhooks \cap Sweeps = {}

VARIABLES
  session,    \* the columns of the parking session that payments use
  intent,     \* payment_intents, by id; "NONE" where there is no row yet
  call,       \* call[i]: the start_mobile_payment call that made intent i
  provider,   \* provider[i]: what became of the collection at the provider
  entries,    \* entries[i]: SUCCEEDED ledger transactions under i's keys
  job         \* the webhook handlers and the sweeps

vars == <<session, intent, call, provider, entries, job>>

-----------------------------------------------------------------------------
Ids  == 1..MaxIntents
Jobs == Webhooks \cup Sweeps

OpenStates == {"CREATED", "PENDING"}
Final      == {"SUCCEEDED", "FAILED", "BLOCKED", "EXPIRED", "MISMATCH"}

(* How old an intent is: below pending_intents' 15 s, below the 90 s of
   REUSE_PENDING_SECONDS, older, and past payments_intent_expiry_minutes. *)
Ages   == 0..3
Ripe   == 1
Stale  == 2
Expiry == 3

Session == [due : 0..MaxDue, paid : Nat, status : {"ACTIVE", "PAID"}]
Intent  == [status : OpenStates \cup Final \cup {"NONE"}, amount : 0..MaxDue, age : Ages]
Calls   == {"none", "asking", "answered", "crashed"}

(* The collection: never asked for, on its way, on the phone, approved,    *)
(* approved with an amount, currency or reference that is not the          *)
(* intent's, refused.                                                      *)
Collections == {"none", "sent", "prompted", "paid", "other", "declined"}
Answers     == {"none", "PENDING", "SUCCEEDED", "OTHER", "FAILED", "UNKNOWN"}

(* A job asks about intent at, and about those of its queue after it.       *)
NoIntent == 0
Job ==
  [pc : {"idle", "asking", "answered", "done", "ignored"}, at : Ids \cup {NoIntent},
   queue : SUBSET Ids, answer : Answers]

Idle == [pc |-> "idle", at |-> NoIntent, queue |-> {}, answer |-> "none"]
Asking(i, queue) == [pc |-> "asking", at |-> i, queue |-> queue, answer |-> "none"]

-----------------------------------------------------------------------------
Init ==
  /\ session \in [due : 0..MaxDue, paid : {0}, status : {"ACTIVE"}]
  /\ intent = [i \in Ids |-> [status |-> "NONE", amount |-> 0, age |-> 0]]
  /\ call = [i \in Ids |-> "none"]
  /\ provider = [i \in Ids |-> "none"]
  /\ entries = [i \in Ids |-> 0]
  /\ job = [j \in Jobs |-> Idle]

(* _remaining and public_session_payload: a session that is not PAID is
   requoted; the tariff only grows. *)
Requoted(quote) ==
  IF session.status = "PAID" THEN session ELSE [session EXCEPT !.due = quote]

ViewReceipt(quote) ==
  /\ quote >= session.due
  /\ session' = Requoted(quote)
  /\ UNCHANGED <<intent, call, provider, entries, job>>

Exists(i) == intent[i].status # "NONE"

(* A push that is still pending is returned instead of a new one, when it
   is the latest, fresh, and for the amount that is still owed. *)
Reused(i, amount) ==
  /\ intent[i].status = "PENDING"
  /\ ~ \E k \in Ids : k > i /\ Exists(k)
  /\ intent[i].age < Stale
  /\ intent[i].amount = amount

(* start_mobile_payment up to its await: commit a CREATED intent, then ask
   the provider, when it is available. *)
StartMobile(i, quote, available) ==
  LET quoted == Requoted(quote)
      amount == quoted.due - quoted.paid
  IN /\ ~Exists(i)
     /\ \A k \in Ids : k < i => Exists(k)
     /\ quote >= session.due
     /\ amount > 0
     /\ ~ \E k \in Ids : Reused(k, amount)
     /\ session' = quoted
     /\ intent' = [intent EXCEPT ![i] = [status |-> "CREATED", amount |-> amount, age |-> 0]]
     /\ call' = [call EXCEPT ![i] = "asking"]
     /\ provider' = [provider EXCEPT ![i] = IF available THEN "sent" ELSE @]
     /\ UNCHANGED <<entries, job>>

(* Mutant: the provider's status is stored as it comes. *)
AnswerableRaw(i) ==
  IF provider[i] = "none" THEN {"BLOCKED"} ELSE {"PENDING", "FAILED", "UNKNOWN"}

(* Mutant: a charge the provider calls successful is taken for money. *)
AnswerableTrusted(i) ==
  IF provider[i] = "none" THEN {"BLOCKED"} ELSE {"SUCCEEDED", "FAILED"}

(* What initiate_collection may answer: a timeout is FAILED whatever the
   provider did with the request. *)
Answerable(i) ==
  CASE provider[i] = "none"     -> {"BLOCKED"}
    [] provider[i] = "sent"     -> {"FAILED"}
    [] OTHER                    -> {"PENDING", "FAILED"}

(* start_mobile_payment after its await: the status is written over
   whatever a webhook or a sweep stored meanwhile. *)
Answer(i, status) ==
  /\ call[i] = "asking"
  /\ intent' = [intent EXCEPT ![i].status = status]
  /\ call' = [call EXCEPT ![i] = "answered"]
  /\ UNCHANGED <<session, provider, entries, job>>

(* The process dies while the provider is asked. *)
Abandon(i) ==
  /\ call[i] = "asking"
  /\ call' = [call EXCEPT ![i] = "crashed"]
  /\ UNCHANGED <<session, intent, provider, entries, job>>

-----------------------------------------------------------------------------
(* The provider and the driver *)

Prompt(i) ==
  /\ provider[i] = "sent"
  /\ provider' = [provider EXCEPT ![i] = "prompted"]
  /\ UNCHANGED <<session, intent, call, entries, job>>

Respond(i, outcome) ==
  /\ provider[i] = "prompted"
  /\ provider' = [provider EXCEPT ![i] = outcome]
  /\ UNCHANGED <<session, intent, call, entries, job>>

(* The provider's record of a collection, as query_status reads it. *)
Truth(i) ==
  CASE provider[i] = "paid"     -> "SUCCEEDED"
    [] provider[i] = "other"    -> "OTHER"
    [] provider[i] = "declined" -> "FAILED"
    [] OTHER                    -> "PENDING"

-----------------------------------------------------------------------------
(* handle_webhook and reconcile_pending *)

(* The provider reports an outcome.  settle_intent looks at the status
   first, and asks the provider about an open intent only. *)
Webhook(j, i) ==
  /\ j \in Webhooks
  /\ job[j].pc = "idle"
  /\ provider[i] \in {"paid", "other", "declined"}
  /\ job' = [job EXCEPT ![j] = IF intent[i].status \in OpenStates THEN Asking(i, {})
                               ELSE [Asking(i, {}) EXCEPT !.pc = "ignored"]]
  /\ UNCHANGED <<session, intent, call, provider, entries>>

(* Mutant: intents whose start call never came back are not looked at. *)
PendingAnswered == {i \in Ids : intent[i].status = "PENDING" /\ intent[i].age >= Ripe}

(* pending_intents: the open intents of more than 15 s, as they are now. *)
Pending == {i \in Ids : intent[i].status \in OpenStates /\ intent[i].age >= Ripe}

Oldest(i, queue) == i \in queue /\ \A k \in queue : i <= k

Sweep(j) ==
  /\ j \in Sweeps
  /\ job[j].pc = "idle"
  /\ \E i \in Ids : /\ Oldest(i, Pending)
                   /\ job' = [job EXCEPT ![j] = Asking(i, Pending \ {i})]
  /\ UNCHANGED <<session, intent, call, provider, entries>>

(* query_status reads the provider's record, or fails to. *)
Reply(j, answer) ==
  /\ job[j].pc = "asking"
  /\ answer \in {Truth(job[j].at), "UNKNOWN"}
  /\ job' = [job EXCEPT ![j].pc = "answered", ![j].answer = answer]
  /\ UNCHANGED <<session, intent, call, provider, entries>>

(* The job goes on to the next intent of its list, or ends. *)
Ended(j) == IF j \in Sweeps THEN Idle ELSE [Idle EXCEPT !.pc = "done"]

Proceed(j) ==
  \/ /\ job[j].queue = {}
     /\ job' = [job EXCEPT ![j] = Ended(j)]
  \/ \E i \in Ids : /\ Oldest(i, job[j].queue)
                   /\ job' = [job EXCEPT ![j] = Asking(i, job[j].queue \ {i})]

(* settle_intent after its await, on the copy the job loaded: an answer is
   stored whatever the row says by now. *)
Store(j, status) ==
  /\ intent' = [intent EXCEPT ![job[j].at].status = status]
  /\ Proceed(j)
  /\ UNCHANGED <<session, call, provider, entries>>

Confirmed(j) == job[j].pc = "answered" /\ job[j].answer = "SUCCEEDED"

(* record_succeeded_payment and apply_session_payment_state: the intent has
   count transactions from now on and the session's payments grow by amount;
   it is PAID when they reach the amount due. *)
Record(j, count, amount) ==
  LET paid == session.paid + amount
  IN /\ entries' = [entries EXCEPT ![job[j].at] = count]
     /\ session' = [session EXCEPT !.paid = paid, !.status = IF paid >= session.due THEN "PAID" ELSE @]
     /\ intent' = [intent EXCEPT ![job[j].at].status = "SUCCEEDED"]
     /\ Proceed(j)
     /\ UNCHANGED <<call, provider>>

(* Mutant: the key is not looked up in the ledger. *)
CreditAgain(j) == Confirmed(j) /\ Record(j, entries[job[j].at] + 1, intent[job[j].at].amount)

(* Mutant: a duplicate is added to the session's amount again. *)
CreditOnTop(j) == Confirmed(j) /\ Record(j, 1, intent[job[j].at].amount)

(* A key that is in the ledger is a duplicate: nothing is added. *)
Credit(j) ==
  /\ Confirmed(j)
  /\ \/ entries[job[j].at] = 0 /\ Record(j, 1, intent[job[j].at].amount)
     \/ entries[job[j].at] # 0 /\ Record(j, entries[job[j].at], 0)

Mismatch(j) ==
  /\ job[j].pc = "answered"
  /\ job[j].answer = "OTHER"
  /\ Store(j, "MISMATCH")

Fail(j) ==
  /\ job[j].pc = "answered"
  /\ job[j].answer = "FAILED"
  /\ Store(j, "FAILED")

Undecided(j) == job[j].pc = "answered" /\ job[j].answer \in {"PENDING", "UNKNOWN"}

Expire(j) ==
  /\ Undecided(j)
  /\ intent[job[j].at].age = Expiry
  /\ Store(j, "EXPIRED")

KeepWaiting(j) ==
  /\ Undecided(j)
  /\ intent[job[j].at].age < Expiry
  /\ Proceed(j)
  /\ UNCHANGED <<session, intent, call, provider, entries>>

(* An exception or a crash ends the handler, the rest of a sweep's list
   included. *)
Abort(j) ==
  /\ job[j].pc \in {"asking", "answered"}
  /\ job' = [job EXCEPT ![j] = Ended(j)]
  /\ UNCHANGED <<session, intent, call, provider, entries>>

Age(i) ==
  /\ Exists(i)
  /\ intent[i].age < Expiry
  /\ intent' = [intent EXCEPT ![i].age = @ + 1]
  /\ UNCHANGED <<session, call, provider, entries, job>>

-----------------------------------------------------------------------------
Settle(j) == Credit(j) \/ Mismatch(j) \/ Fail(j) \/ Expire(j) \/ KeepWaiting(j)

Next ==
  \/ \E quote \in 0..MaxDue : ViewReceipt(quote)
  \/ \E i \in Ids : \/ \E quote \in 0..MaxDue, available \in BOOLEAN : StartMobile(i, quote, available)
                    \/ \E status \in Answerable(i) : Answer(i, status)
                    \/ Abandon(i)
                    \/ Prompt(i)
                    \/ \E outcome \in {"paid", "other", "declined"} : Respond(i, outcome)
                    \/ Age(i)
  \/ \E j \in Jobs : \/ \E i \in Ids : Webhook(j, i)
                     \/ Sweep(j)
                     \/ \E answer \in Answers : Reply(j, answer)
                     \/ Settle(j)
                     \/ Abort(j)

Spec == Init /\ [][Next]_vars

(* The provider tells what it knows of intent i. *)
TruthfulReply(j, i) ==
  job[j].pc = "asking" /\ job[j].at = i /\ Reply(j, Truth(i))

(* Time passes, the loop resumes a handler whose answer arrived, the sweeps
   come round again, and a provider that is asked again and again about a collection
   does not fail every time (its client has a timeout). *)
Fairness ==
  /\ \A i \in Ids : WF_vars(Age(i))
  /\ \A j \in Sweeps :
       /\ WF_vars(Sweep(j))
       /\ WF_vars(Settle(j))
       /\ WF_vars(\E answer \in Answers : Reply(j, answer))
       /\ \A i \in Ids : SF_vars(TruthfulReply(j, i))

FairSpec == Spec /\ Fairness

-----------------------------------------------------------------------------
(* Properties *)

TypeOK ==
  /\ session \in Session
  /\ intent \in [Ids -> Intent]
  /\ call \in [Ids -> Calls]
  /\ provider \in [Ids -> Collections]
  /\ entries \in [Ids -> Nat]
  /\ job \in [Jobs -> Job]

(* mobile_payments.py, docstring: "query_status ... amount/currency/
   reference check ... record_succeeded_payment exactly once".  Webhooks,
   redeliveries and sweeps that settle one intent at the same time on copies
   of their own credit it once, and only when the provider holds the money. *)
Ledger == INSTANCE PaymentLedger
            WITH confirmed <- {i \in Ids : provider[i] = "paid"}
ImplementsLedger == Ledger!Spec

(* An intent that says SUCCEEDED has its entry in the ledger: neither the
   answer to the charge request nor the webhook's body is taken for money. *)
SucceededIsCredited ==
  \A i \in Ids : intent[i].status = "SUCCEEDED" => entries[i] = 1

(* ledger.py, paid_total: the session's amount_paid is the sum of its ledger
   transactions, however often one is settled. *)
Booked == [i \in Ids |-> entries[i] * intent[i].amount]
PaidIsLedgerTotal == session.paid = MapThenSumSet(LAMBDA i : Booked[i], Ids)

(* reconcile_pending: "Convert PENDING intents whose webhook never arrived."
   While nothing dies, money the provider holds for an intent that is still
   open reaches the ledger without any webhook, unless the start call's
   answer or the expiry closes the intent first. *)
ConfirmedIsCredited ==
  <>[][\A j \in Jobs : ~Abort(j)]_vars
    => \A i \in Ids :
         provider[i] = "paid" /\ intent[i].status \in OpenStates
           ~> entries[i] = 1 \/ intent[i].status \in {"FAILED", "EXPIRED"}
=============================================================================

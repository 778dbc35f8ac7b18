----------------------- MODULE MobilePayments_proofs -----------------------
(***************************************************************************)
(* Mobile payments credit the ledger exactly as PaymentLedger allows, for  *)
(* any number of intents, webhook deliveries and sweeps and any tariff.    *)
(***************************************************************************)
EXTENDS MobilePayments, FiniteSetTheorems, WellFoundedInduction, TLAPS

(* An intent that does not exist was never sent to the provider; a job that
   is at work is about an intent; a confirmation it carries is the provider's;
   an intent has at most one ledger entry. *)
SentInv == \A i \in Ids : ~Exists(i) => provider[i] = "none"
WorkInv == \A j \in Jobs : job[j].pc \in {"asking", "answered"} => job[j].at \in Ids
TruthInv == \A j \in Jobs : Confirmed(j) => provider[job[j].at] = "paid"
EntryInv == \A i \in Ids : entries[i] \in {0, 1}

IInv == TypeOK /\ SentInv /\ WorkInv /\ TruthInv /\ EntryInv /\ SucceededIsCredited

-----------------------------------------------------------------------------
(* Types *)

LEMMA ConstantFacts ==
  /\ 0 \notin Ids
  /\ 0 \in Ages
  /\ \A a \in Ages : a < Expiry => a + 1 \in Ages
  /\ \A due \in 0..MaxDue, paid \in Nat : due - paid > 0 => due - paid \in 0..MaxDue
  /\ 0 \in 0..MaxDue
BY IntentsAssumption, DueAssumption DEF Ids, Ages, Expiry

LEMMA AskingType ==
  ASSUME NEW i \in Ids, NEW queue \in SUBSET Ids
  PROVE  Asking(i, queue) \in Job /\ [Asking(i, queue) EXCEPT !.pc = "ignored"] \in Job
BY DEF Asking, Job, Answers

LEMMA EndedType ==
  ASSUME NEW j
  PROVE  Idle \in Job /\ Ended(j) \in Job /\ ~(Ended(j).pc \in {"asking", "answered"})
BY DEF Ended, Idle, Job, Answers, NoIntent

(* What a job looks like after Proceed. *)
LEMMA ProceedJob ==
  ASSUME TypeOK, NEW j \in Jobs, Proceed(j)
  PROVE  /\ job' \in [Jobs -> Job]
         /\ \A k \in Jobs \ {j} : job'[k] = job[k]
         /\ job'[j].pc \in {"asking", "answered"} => job'[j].at \in Ids
         /\ job'[j].pc # "answered"
<1>1. CASE job' = [job EXCEPT ![j] = Ended(j)]
  BY <1>1, EndedType DEF TypeOK
<1>2. CASE \E i \in Ids : job' = [job EXCEPT ![j] = Asking(i, job[j].queue \ {i})]
  <2>1. PICK i \in Ids : job' = [job EXCEPT ![j] = Asking(i, job[j].queue \ {i})]
    BY <1>2
  <2>2. job[j].queue \ {i} \in SUBSET Ids
    BY DEF TypeOK, Job
  <2>3. Asking(i, job[j].queue \ {i}) \in Job
    BY <2>2, AskingType
  <2>4. Asking(i, job[j].queue \ {i}).pc = "asking" /\ Asking(i, job[j].queue \ {i}).at = i
    BY DEF Asking
  <2> QED BY <2>1, <2>3, <2>4 DEF TypeOK
<1> QED BY <1>1, <1>2 DEF Proceed

LEMMA StatusType ==
  ASSUME TypeOK, NEW i \in Ids, NEW status \in OpenStates \cup Final
  PROVE  /\ [intent EXCEPT ![i].status = status] \in [Ids -> Intent]
         /\ [intent EXCEPT ![i].status = status][i].status = status
         /\ \A k \in Ids \ {i} : [intent EXCEPT ![i].status = status][k] = intent[k]
BY DEF TypeOK, Intent

LEMMA InitInv == Init => IInv
<1> SUFFICES ASSUME Init PROVE IInv
  OBVIOUS
<1>1. session \in Session
  BY DEF Init, Session
<1>2. intent \in [Ids -> Intent]
  BY ConstantFacts DEF Init, Intent
<1>3. job \in [Jobs -> Job]
  BY EndedType DEF Init
<1>4. TypeOK
  BY <1>1, <1>2, <1>3 DEF TypeOK, Init, Calls, Collections
<1>5. SentInv /\ WorkInv /\ TruthInv /\ EntryInv /\ SucceededIsCredited
  BY DEF Init, SentInv, WorkInv, TruthInv, EntryInv, SucceededIsCredited, Confirmed, Idle
<1> QED BY <1>4, <1>5 DEF IInv

-----------------------------------------------------------------------------
(* The start call and the provider *)

LEMMA StartStep ==
  ASSUME IInv, NEW i \in Ids, NEW quote \in 0..MaxDue, NEW available \in BOOLEAN,
         StartMobile(i, quote, available)
  PROVE  IInv'
<1> DEFINE quoted == Requoted(quote)
           amount == quoted.due - quoted.paid
           new == [status |-> "CREATED", amount |-> amount, age |-> 0]
<1>1. quoted \in Session
  BY DEF IInv, TypeOK, Session, Requoted
<1>2. amount \in 0..MaxDue
  BY <1>1, ConstantFacts DEF Session, StartMobile
<1>3. new \in Intent
  BY <1>2, ConstantFacts DEF Intent, OpenStates
<1>4. intent' = [intent EXCEPT ![i] = new] /\ session' = quoted
  BY DEF StartMobile
<1>5. new.status = "CREATED"
  OBVIOUS
<1> HIDE DEF new, amount, quoted
<1>6. provider[i] = "none"
  BY DEF IInv, SentInv, StartMobile
<1>7. \A k \in Ids : provider[k] = "paid" => provider'[k] = "paid"
  BY <1>6 DEF StartMobile, IInv, TypeOK
<1>8. provider' \in [Ids -> Collections]
  BY DEF StartMobile, IInv, TypeOK, Collections
<1>9. TypeOK'
  BY <1>1, <1>3, <1>4, <1>8 DEF StartMobile, IInv, TypeOK, Calls
<1>10. SentInv'
  BY <1>4, <1>5, <1>6, <1>3 DEF StartMobile, IInv, TypeOK, SentInv, Exists
<1>11. TruthInv' /\ WorkInv' /\ EntryInv'
  BY <1>7 DEF StartMobile, IInv, TruthInv, WorkInv, EntryInv, Confirmed
<1>12. SucceededIsCredited'
  BY <1>4, <1>5 DEF StartMobile, IInv, TypeOK, SucceededIsCredited
<1> QED BY <1>9, <1>10, <1>11, <1>12 DEF IInv

LEMMA AnswerStep ==
  ASSUME IInv, NEW i \in Ids, NEW status \in Answerable(i), Answer(i, status)
  PROVE  IInv'
<1>1. status \in {"PENDING", "FAILED", "BLOCKED"}
  BY DEF Answerable
<1>2. status \in OpenStates \cup Final
  BY <1>1 DEF OpenStates, Final
<1>3. /\ intent' \in [Ids -> Intent]
      /\ intent'[i].status = status
      /\ \A k \in Ids \ {i} : intent'[k] = intent[k]
  BY <1>2, StatusType DEF Answer, IInv
<1>4. TypeOK'
  BY <1>3 DEF Answer, IInv, TypeOK, Calls
<1>5. SentInv' /\ WorkInv' /\ TruthInv' /\ EntryInv' /\ SucceededIsCredited'
  BY <1>1, <1>3 DEF Answer, IInv, SentInv, WorkInv, TruthInv, EntryInv,
     SucceededIsCredited, Confirmed, Exists
<1> QED BY <1>4, <1>5 DEF IInv

(* Steps of the provider, on a collection that is not settled yet. *)
LEMMA ProviderStep ==
  ASSUME IInv, NEW i \in Ids, NEW outcome \in Collections,
         provider[i] \notin {"none", "paid"},
         provider' = [provider EXCEPT ![i] = outcome],
         UNCHANGED <<session, intent, call, entries, job>>
  PROVE  IInv'
<1>1. TypeOK'
  BY DEF IInv, TypeOK
<1>2. \A k \in Ids : provider[k] \in {"none", "paid"} => provider'[k] = provider[k]
  BY DEF IInv, TypeOK
<1>3. SentInv' /\ WorkInv' /\ TruthInv' /\ EntryInv' /\ SucceededIsCredited'
  BY <1>2 DEF IInv, SentInv, WorkInv, TruthInv, EntryInv,
     SucceededIsCredited, Confirmed, Exists
<1> QED BY <1>1, <1>3 DEF IInv

LEMMA AgeStep ==
  ASSUME IInv, NEW i \in Ids, Age(i)
  PROVE  IInv'
<1>1. intent[i].age + 1 \in Ages
  BY ConstantFacts DEF Age, IInv, TypeOK, Intent
<1>2. /\ intent' \in [Ids -> Intent]
      /\ \A k \in Ids : intent'[k].status = intent[k].status
  BY <1>1 DEF Age, IInv, TypeOK, Intent
<1>3. TypeOK'
  BY <1>2 DEF Age, IInv, TypeOK
<1>4. SentInv' /\ WorkInv' /\ TruthInv' /\ EntryInv' /\ SucceededIsCredited'
  BY <1>2 DEF Age, IInv, SentInv, WorkInv, TruthInv, EntryInv,
     SucceededIsCredited, Confirmed, Exists
<1> QED BY <1>3, <1>4 DEF IInv

-----------------------------------------------------------------------------
(* The jobs *)

(* A step that only moves job j, to a state that carries no confirmation or
   one that is true. *)
LEMMA JobStep ==
  ASSUME IInv, NEW j \in Jobs,
         job' \in [Jobs -> Job],
         \A k \in Jobs \ {j} : job'[k] = job[k],
         job'[j].pc \in {"asking", "answered"} => job'[j].at \in Ids,
         Confirmed(j)' => provider[job'[j].at] = "paid",
         UNCHANGED <<session, intent, call, provider, entries>>
  PROVE  IInv'
<1>1. TypeOK'
  BY DEF IInv, TypeOK
<1>2. SentInv' /\ EntryInv' /\ SucceededIsCredited'
  BY DEF IInv, SentInv, EntryInv, SucceededIsCredited, Exists
<1>3. WorkInv'
  BY DEF IInv, WorkInv
<1>4. TruthInv'
  BY DEF IInv, TruthInv, Confirmed
<1> QED BY <1>1, <1>2, <1>3, <1>4 DEF IInv

LEMMA WebhookStep ==
  ASSUME IInv, NEW j \in Jobs, NEW i \in Ids, Webhook(j, i)
  PROVE  IInv'
<1> DEFINE new == IF intent[i].status \in OpenStates THEN Asking(i, {})
                  ELSE [Asking(i, {}) EXCEPT !.pc = "ignored"]
<1>1. new \in Job
  BY AskingType
<1>2. new.at = i /\ new.pc # "answered"
  BY DEF Asking
<1>3. job' = [job EXCEPT ![j] = new]
  BY DEF Webhook
<1> HIDE DEF new
<1>4. job' \in [Jobs -> Job] /\ job'[j] = new /\ \A k \in Jobs \ {j} : job'[k] = job[k]
  BY <1>1, <1>3 DEF IInv, TypeOK
<1>5. ~Confirmed(j)'
  BY <1>2, <1>4 DEF Confirmed
<1> QED BY <1>2, <1>4, <1>5, JobStep DEF Webhook

LEMMA SweepStep ==
  ASSUME IInv, NEW j \in Jobs, Sweep(j)
  PROVE  IInv'
<1>1. PICK i \in Ids : job' = [job EXCEPT ![j] = Asking(i, Pending \ {i})]
  BY DEF Sweep
<1> DEFINE new == Asking(i, Pending \ {i})
<1>2. new \in Job
  BY AskingType DEF Pending
<1>3. new.at = i /\ new.pc # "answered"
  BY DEF Asking
<1> HIDE DEF new
<1>4. job' \in [Jobs -> Job] /\ job'[j] = new /\ \A k \in Jobs \ {j} : job'[k] = job[k]
  BY <1>1, <1>2 DEF IInv, TypeOK, new
<1>5. ~Confirmed(j)'
  BY <1>3, <1>4 DEF Confirmed
<1> QED BY <1>3, <1>4, <1>5, JobStep DEF Sweep

LEMMA ReplyStep ==
  ASSUME IInv, NEW j \in Jobs, NEW answer \in Answers, Reply(j, answer)
  PROVE  IInv'
<1>1. job[j].at \in Ids
  BY DEF Reply, IInv, WorkInv
<1>2. /\ job' \in [Jobs -> Job]
      /\ \A k \in Jobs \ {j} : job'[k] = job[k]
      /\ job'[j].at = job[j].at
      /\ job'[j].answer = answer
  BY DEF Reply, IInv, TypeOK, Job
<1>3. answer = "SUCCEEDED" => provider[job[j].at] = "paid"
  BY DEF Reply, Truth
<1> QED BY <1>1, <1>2, <1>3, JobStep DEF Reply, Confirmed

LEMMA AbortStep ==
  ASSUME IInv, NEW j \in Jobs, Abort(j)
  PROVE  IInv'
<1>1. /\ job' \in [Jobs -> Job]
      /\ \A k \in Jobs \ {j} : job'[k] = job[k]
      /\ job'[j] = Ended(j)
  BY EndedType DEF Abort, IInv, TypeOK
<1>2. ~(job'[j].pc \in {"asking", "answered"})
  BY <1>1, EndedType
<1> QED BY <1>1, <1>2, JobStep DEF Abort, Confirmed

LEMMA StoreStep ==
  ASSUME IInv, NEW j \in Jobs, job[j].pc = "answered",
         NEW status \in Final \ {"SUCCEEDED"}, Store(j, status)
  PROVE  IInv'
<1>1. job[j].at \in Ids
  BY DEF IInv, WorkInv
<1>2. /\ intent' \in [Ids -> Intent]
      /\ intent'[job[j].at].status = status
      /\ \A k \in Ids \ {job[j].at} : intent'[k] = intent[k]
  BY <1>1, StatusType DEF Store, IInv
<1>3. /\ job' \in [Jobs -> Job]
      /\ \A k \in Jobs \ {j} : job'[k] = job[k]
      /\ job'[j].pc \in {"asking", "answered"} => job'[j].at \in Ids
      /\ job'[j].pc # "answered"
  BY ProceedJob DEF Store, IInv
<1>4. TypeOK'
  BY <1>2, <1>3 DEF Store, IInv, TypeOK
<1>5. SentInv'
  BY <1>1, <1>2 DEF Store, IInv, SentInv, Exists, Final
<1>6. WorkInv'
  BY <1>3 DEF IInv, WorkInv
<1>7. TruthInv'
  BY <1>3 DEF Store, IInv, TruthInv, Confirmed
<1>8. EntryInv' /\ SucceededIsCredited'
  BY <1>1, <1>2 DEF Store, IInv, EntryInv, SucceededIsCredited
<1> QED BY <1>4, <1>5, <1>6, <1>7, <1>8 DEF IInv

(* What crediting an intent does to the ledger. *)
LEMMA CreditEffect ==
  ASSUME IInv, NEW j \in Jobs, Credit(j)
  PROVE  /\ job[j].at \in Ids
         /\ provider[job[j].at] = "paid"
         /\ \/ entries[job[j].at] = 0 /\ entries' = [entries EXCEPT ![job[j].at] = 1]
            \/ entries' = entries /\ entries[job[j].at] = 1
         /\ session' \in Session
         /\ intent' = [intent EXCEPT ![job[j].at].status = "SUCCEEDED"]
         /\ Proceed(j)
         /\ UNCHANGED <<call, provider>>
<1>1. job[j].at \in Ids /\ provider[job[j].at] = "paid"
  BY DEF Credit, Confirmed, IInv, WorkInv, TruthInv
<1>2. PICK count, amount : /\ Record(j, count, amount)
                           /\ \/ /\ entries[job[j].at] = 0
                                 /\ count = 1
                                 /\ amount = intent[job[j].at].amount
                              \/ /\ entries[job[j].at] # 0
                                 /\ count = entries[job[j].at]
                                 /\ amount = 0
  BY DEF Credit
<1>3. amount \in Nat
  BY <1>1, <1>2 DEF IInv, TypeOK, Intent
<1>4. session' \in Session
  <2> DEFINE paid == session.paid + amount
             status == IF paid >= session.due THEN "PAID" ELSE session.status
  <2>1. session' = [session EXCEPT !.paid = paid, !.status = status]
    BY <1>2 DEF Record
  <2>2. session \in Session
    BY DEF IInv, TypeOK
  <2>3. paid \in Nat /\ status \in {"ACTIVE", "PAID"}
    BY <1>3, <2>2 DEF Session
  <2> HIDE DEF paid, status
  <2> QED BY <2>1, <2>2, <2>3 DEF Session
<1>5. \/ entries[job[j].at] = 0 /\ entries' = [entries EXCEPT ![job[j].at] = 1]
      \/ entries' = entries /\ entries[job[j].at] = 1
  BY <1>1, <1>2 DEF Record, IInv, TypeOK, EntryInv
<1> QED BY <1>1, <1>2, <1>4, <1>5 DEF Record

LEMMA CreditStep ==
  ASSUME IInv, NEW j \in Jobs, Credit(j)
  PROVE  IInv'
<1> DEFINE i == job[j].at
<1>1. /\ i \in Ids
      /\ \/ entries[i] = 0 /\ entries' = [entries EXCEPT ![i] = 1]
         \/ entries' = entries /\ entries[i] = 1
      /\ session' \in Session
      /\ intent' = [intent EXCEPT ![i].status = "SUCCEEDED"]
      /\ Proceed(j)
      /\ UNCHANGED <<call, provider>>
  BY CreditEffect
<1>2. /\ intent' \in [Ids -> Intent]
      /\ intent'[i].status = "SUCCEEDED"
      /\ \A k \in Ids \ {i} : intent'[k] = intent[k]
  BY <1>1, StatusType DEF IInv, Final
<1>3. /\ job' \in [Jobs -> Job]
      /\ \A k \in Jobs \ {j} : job'[k] = job[k]
      /\ job'[j].pc \in {"asking", "answered"} => job'[j].at \in Ids
      /\ job'[j].pc # "answered"
  BY <1>1, ProceedJob DEF IInv
<1> HIDE DEF i
<1>4. /\ entries' \in [Ids -> Nat]
      /\ entries'[i] = 1
      /\ \A k \in Ids \ {i} : entries'[k] = entries[k]
  BY <1>1 DEF IInv, TypeOK
<1>5. TypeOK'
  BY <1>1, <1>2, <1>3, <1>4 DEF IInv, TypeOK
<1>6. SentInv'
  BY <1>1, <1>2 DEF IInv, SentInv, Exists
<1>7. WorkInv'
  BY <1>3 DEF IInv, WorkInv
<1>8. TruthInv'
  BY <1>1, <1>3 DEF IInv, TruthInv, Confirmed
<1>9. EntryInv' /\ SucceededIsCredited'
  BY <1>2, <1>4 DEF IInv, EntryInv, SucceededIsCredited
<1> QED BY <1>5, <1>6, <1>7, <1>8, <1>9 DEF IInv

LEMMA KeepWaitingStep ==
  ASSUME IInv, NEW j \in Jobs, KeepWaiting(j)
  PROVE  IInv'
<1>1. Proceed(j)
  BY DEF KeepWaiting
<1>2. /\ job' \in [Jobs -> Job]
      /\ \A k \in Jobs \ {j} : job'[k] = job[k]
      /\ job'[j].pc \in {"asking", "answered"} => job'[j].at \in Ids
      /\ job'[j].pc # "answered"
  BY <1>1, ProceedJob DEF IInv
<1>3. ~Confirmed(j)'
  BY <1>2 DEF Confirmed
<1> QED BY <1>2, <1>3, JobStep DEF KeepWaiting

LEMMA SettleStep ==
  ASSUME IInv, NEW j \in Jobs, Settle(j)
  PROVE  IInv'
<1>1. CASE Credit(j)
  BY <1>1, CreditStep
<1>2. CASE Mismatch(j)
  BY <1>2, StoreStep DEF Mismatch, Final
<1>3. CASE Fail(j)
  BY <1>3, StoreStep DEF Fail, Final
<1>4. CASE Expire(j)
  BY <1>4, StoreStep DEF Expire, Undecided, Final
<1>5. CASE KeepWaiting(j)
  BY <1>5, KeepWaitingStep
<1> QED BY <1>1, <1>2, <1>3, <1>4, <1>5 DEF Settle

-----------------------------------------------------------------------------
LEMMA NextInv == IInv /\ [Next]_vars => IInv'
<1> SUFFICES ASSUME IInv, [Next]_vars PROVE IInv'
  OBVIOUS
<1>1. CASE UNCHANGED vars
  BY <1>1 DEF vars, IInv, TypeOK, SentInv, WorkInv, TruthInv, EntryInv,
     SucceededIsCredited, Confirmed, Exists
<1>2. ASSUME NEW quote \in 0..MaxDue, ViewReceipt(quote) PROVE IInv'
  <2>1. session' \in Session
    BY <1>2 DEF ViewReceipt, Requoted, IInv, TypeOK, Session
  <2> QED BY <1>2, <2>1 DEF ViewReceipt, IInv, TypeOK, SentInv, WorkInv, TruthInv,
       EntryInv, SucceededIsCredited, Confirmed, Exists
<1>3. ASSUME NEW i \in Ids, NEW quote \in 0..MaxDue, NEW available \in BOOLEAN,
             StartMobile(i, quote, available)
      PROVE IInv'
  BY <1>3, StartStep
<1>4. ASSUME NEW i \in Ids, NEW status \in Answerable(i), Answer(i, status) PROVE IInv'
  BY <1>4, AnswerStep
<1>5. ASSUME NEW i \in Ids, Abandon(i) PROVE IInv'
  <2>1. call' \in [Ids -> Calls]
    BY <1>5 DEF Abandon, IInv, TypeOK, Calls
  <2> QED BY <1>5, <2>1 DEF Abandon, IInv, TypeOK, SentInv, WorkInv, TruthInv,
       EntryInv, SucceededIsCredited, Confirmed, Exists
<1>6. ASSUME NEW i \in Ids, Prompt(i) PROVE IInv'
  BY <1>6, ProviderStep DEF Prompt, Collections
<1>7. ASSUME NEW i \in Ids, NEW outcome \in {"paid", "other", "declined"}, Respond(i, outcome)
      PROVE IInv'
  BY <1>7, ProviderStep DEF Respond, Collections
<1>8. ASSUME NEW i \in Ids, Age(i) PROVE IInv'
  BY <1>8, AgeStep
<1>9. ASSUME NEW j \in Jobs, NEW i \in Ids, Webhook(j, i) PROVE IInv'
  BY <1>9, WebhookStep
<1>10. ASSUME NEW j \in Jobs, Sweep(j) PROVE IInv'
  BY <1>10, SweepStep
<1>11. ASSUME NEW j \in Jobs, NEW answer \in Answers, Reply(j, answer) PROVE IInv'
  BY <1>11, ReplyStep
<1>12. ASSUME NEW j \in Jobs, Settle(j) PROVE IInv'
  BY <1>12, SettleStep
<1>13. ASSUME NEW j \in Jobs, Abort(j) PROVE IInv'
  BY <1>13, AbortStep
<1> QED BY <1>1, <1>2, <1>3, <1>4, <1>5, <1>6, <1>7, <1>8, <1>9, <1>10, <1>11, <1>12, <1>13
     DEF Next

LEMMA Invariance == Spec => []IInv
<1> QED BY InitInv, NextInv, PTL DEF Spec

(* Every state has the declared types, for any bounds and any number of
   webhooks and sweeps. *)
THEOREM TypeCorrect == Spec => []TypeOK
<1>1. IInv => TypeOK
  BY DEF IInv
<1> QED BY <1>1, Invariance, PTL

(* An intent that says SUCCEEDED is in the ledger: neither the answer to the
   charge request nor a webhook's body is taken for money. *)
THEOREM SucceededCredited == Spec => []SucceededIsCredited
<1>1. IInv => SucceededIsCredited
  BY DEF IInv
<1> QED BY <1>1, Invariance, PTL

-----------------------------------------------------------------------------
(* Refinement *)

HeldByProvider == {i \in Ids : provider[i] = "paid"}

LEMMA RefinementInit == Init => Ledger!Init
BY DEF Init, Ledger!Init

(* Whatever leaves the ledger and the settled collections alone is no step of
   the abstract ledger. *)
LEMMA Stutter ==
  ASSUME entries' = entries,
         \A i \in Ids : provider'[i] = "paid" <=> provider[i] = "paid"
  PROVE  UNCHANGED Ledger!vars
<1>1. {i \in Ids : provider'[i] = "paid"} = {i \in Ids : provider[i] = "paid"}
  OBVIOUS
<1> QED BY <1>1 DEF Ledger!vars

LEMMA RefinementStep == IInv /\ [Next]_vars => [Ledger!Next]_Ledger!vars
<1> SUFFICES ASSUME IInv, [Next]_vars PROVE [Ledger!Next]_Ledger!vars
  OBVIOUS
<1>1. CASE UNCHANGED <<provider, entries>>
  BY <1>1, Stutter
<1>2. ASSUME NEW i \in Ids, NEW quote \in 0..MaxDue, NEW available \in BOOLEAN,
             StartMobile(i, quote, available)
      PROVE UNCHANGED Ledger!vars
  <2>1. provider[i] = "none"
    BY <1>2 DEF StartMobile, IInv, SentInv
  <2>2. \A k \in Ids : provider'[k] = "paid" <=> provider[k] = "paid"
    BY <1>2, <2>1 DEF StartMobile, IInv, TypeOK
  <2> QED BY <1>2, <2>2, Stutter DEF StartMobile
<1>3. ASSUME NEW i \in Ids, Prompt(i) PROVE UNCHANGED Ledger!vars
  <2>1. \A k \in Ids : provider'[k] = "paid" <=> provider[k] = "paid"
    BY <1>3 DEF Prompt, IInv, TypeOK
  <2> QED BY <1>3, <2>1, Stutter DEF Prompt
<1>4. ASSUME NEW i \in Ids, NEW outcome \in {"paid", "other", "declined"}, Respond(i, outcome)
      PROVE [Ledger!Next]_Ledger!vars
  <2>1. CASE outcome # "paid"
    <3>1. \A k \in Ids : provider'[k] = "paid" <=> provider[k] = "paid"
      BY <1>4, <2>1 DEF Respond, IInv, TypeOK
    <3> QED BY <1>4, <3>1, Stutter DEF Respond
  <2>2. CASE outcome = "paid"
    <3>1. HeldByProvider' = HeldByProvider \cup {i}
      BY <1>4, <2>2 DEF Respond, IInv, TypeOK, HeldByProvider
    <3>2. Ledger!Confirm(i)
      BY <1>4, <3>1 DEF Respond, Ledger!Confirm, HeldByProvider
    <3> QED BY <3>2 DEF Ledger!Next
  <2> QED BY <2>1, <2>2
<1>5. ASSUME NEW j \in Jobs, Credit(j) PROVE [Ledger!Next]_Ledger!vars
  <2> DEFINE i == job[j].at
  <2>1. /\ i \in Ids
        /\ provider[i] = "paid"
        /\ \/ entries[i] = 0 /\ entries' = [entries EXCEPT ![i] = 1]
           \/ entries' = entries
        /\ provider' = provider
    BY <1>5, CreditEffect
  <2> HIDE DEF i
  <2>2. CASE entries' = entries
    BY <2>1, <2>2, Stutter
  <2>3. CASE entries[i] = 0 /\ entries' = [entries EXCEPT ![i] = 1]
    <3>1. Ledger!Credit(i)
      BY <2>1, <2>3 DEF Ledger!Credit
    <3> QED BY <2>1, <3>1 DEF Ledger!Next
  <2> QED BY <2>1, <2>2, <2>3
<1>6. ASSUME NEW j \in Jobs, Settle(j), ~Credit(j) PROVE UNCHANGED <<provider, entries>>
  BY <1>6 DEF Settle, Mismatch, Fail, Expire, KeepWaiting, Store
<1> QED
  BY <1>1, <1>2, <1>3, <1>4, <1>5, <1>6
  DEF Next, vars, ViewReceipt, Answer, Abandon, Age, Webhook, Sweep, Reply, Abort

(* Mobile payments implement PaymentLedger: each intent is credited at most
   once and only when the provider itself confirmed it in full, whatever the
   order of webhooks, redeliveries, sweeps, answers and crashes. *)
THEOREM Implements == Spec => ImplementsLedger
<1> QED BY RefinementInit, RefinementStep, Invariance, PTL DEF Spec, ImplementsLedger, Ledger!Spec

-----------------------------------------------------------------------------
(* Sums over finite sets *)

Some(s) == CHOOSE x \in s : TRUE

(* The function by which MapThenFoldSet adds up, element after element. *)
SumsUp(g, f, s) == IF s = {} THEN 0 ELSE f[Some(s)] + g[s \ {Some(s)}]
Sums(f, R) == CHOOSE g : g = [s \in SUBSET R |-> SumsUp(g, f, s)]

LEMMA SumIsSums ==
  ASSUME NEW f, NEW R
  PROVE  MapThenSumSet(LAMBDA x : f[x], R) = Sums(f, R)[R]
BY DEF MapThenSumSet, MapThenFoldSet, Sums, SumsUp, Some

(* A set of natural numbers that is not empty has a least element. *)
LEMMA LeastNumber ==
  ASSUME NEW T \in SUBSET Nat, T # {}
  PROVE  \E n \in T : \A m \in T : n <= m
<1> DEFINE R == OpToRel(<, Nat)
<1>1. \A j, k \in Nat : j < k => <<j, k>> \in R
  BY DEF OpToRel
<1>2. IsWellFoundedOn(R, Nat)
  BY NatLessThanWellFounded
<1> HIDE DEF R
<1>3. PICK n \in T : \A m \in T : ~(<<m, n>> \in R)
  BY <1>2, WFMin
<1>4. ASSUME NEW m \in T PROVE n <= m
  <2>1. m \in Nat /\ n \in Nat
    OBVIOUS
  <2>2. ~(m < n)
    BY <1>1, <1>3, <2>1
  <2> QED BY <2>1, <2>2
<1> QED BY <1>4

LEMMA Smaller ==
  ASSUME NEW R, IsFiniteSet(R), NEW s \in SUBSET R
  PROVE  /\ Cardinality(s) \in Nat /\ Cardinality(s) <= Cardinality(R)
         /\ Cardinality(R) \in Nat
         /\ Cardinality(s) = 0 <=> s = {}
         /\ s # {} => /\ Some(s) \in s
                      /\ s \ {Some(s)} \in SUBSET R
                      /\ Cardinality(s \ {Some(s)}) = Cardinality(s) - 1
<1>1. IsFiniteSet(s) /\ Cardinality(s) <= Cardinality(R)
  BY FS_Subset
<1>2. Cardinality(s) \in Nat /\ Cardinality(R) \in Nat
  BY <1>1, FS_CardinalityType
<1>3. Cardinality(s) = 0 <=> s = {}
  BY <1>1, FS_EmptySet
<1>4. s # {} => Some(s) \in s
  BY DEF Some
<1>5. ASSUME s # {}
      PROVE  Cardinality(s \ {Some(s)}) = Cardinality(s) - 1
  <2>1. Some(s) \in s
    BY <1>4, <1>5
  <2> QED BY <1>1, <2>1, FS_RemoveElement
<1> QED BY <1>1, <1>2, <1>3, <1>4, <1>5

(* There is such a function: it exists for the sets of at most n elements,
   for every n. *)
LEMMA SumsExist ==
  ASSUME NEW R, IsFiniteSet(R), NEW f \in [R -> Int]
  PROVE  Sums(f, R) = [s \in SUBSET R |-> SumsUp(Sums(f, R), f, s)]
<1> DEFINE UpTo(g, n) == \A s \in SUBSET R : Cardinality(s) <= n => g[s] = SumsUp(g, f, s)
           Functions == [SUBSET R -> Int]
           Bad == {n \in Nat : ~ \E g \in Functions : UpTo(g, n)}
<1>1. 0 \notin Bad
  <2> DEFINE g == [s \in SUBSET R |-> 0]
  <2>1. g \in Functions
    OBVIOUS
  <2>2. UpTo(g, 0)
    <3>1. ASSUME NEW s \in SUBSET R, Cardinality(s) <= 0 PROVE g[s] = SumsUp(g, f, s)
      <4>1. s = {}
        <5>1. Cardinality(s) \in Nat /\ (Cardinality(s) = 0 <=> s = {})
          BY Smaller
        <5> QED BY <3>1, <5>1
      <4> QED BY <4>1 DEF SumsUp
    <3> QED BY <3>1
  <2> HIDE DEF g, UpTo, Functions
  <2> QED BY <2>1, <2>2
<1>2. ASSUME NEW n \in Nat, NEW g \in Functions, UpTo(g, n)
      PROVE  \E h \in Functions : UpTo(h, n + 1)
  <2> DEFINE h == [s \in SUBSET R |-> IF Cardinality(s) <= n THEN g[s] ELSE SumsUp(g, f, s)]
  <2>1. ASSUME NEW s \in SUBSET R PROVE SumsUp(g, f, s) \in Int
    <3>1. s # {} => Some(s) \in R /\ s \ {Some(s)} \in SUBSET R
      BY Smaller
    <3> QED BY <3>1 DEF SumsUp
  <2>2. h \in Functions
    BY <2>1
  <2>3. ASSUME NEW s \in SUBSET R, Cardinality(s) <= n + 1
        PROVE  h[s] = SumsUp(h, f, s)
    <3>1. h[s] = SumsUp(g, f, s)
      BY <1>2
    <3>2. s # {} => h[s \ {Some(s)}] = g[s \ {Some(s)}]
      <4>1. s # {} => /\ s \ {Some(s)} \in SUBSET R
                      /\ Cardinality(s \ {Some(s)}) <= n
        BY <2>3, Smaller
      <4> QED BY <4>1
    <3> HIDE DEF h
    <3> QED BY <3>1, <3>2 DEF SumsUp
  <2>4. UpTo(h, n + 1)
    BY <2>3
  <2> HIDE DEF h, UpTo, Functions
  <2> QED BY <2>2, <2>4
<1>3. Bad = {}
  <2> SUFFICES ASSUME Bad # {} PROVE FALSE
    OBVIOUS
  <2> HIDE DEF Bad
  <2>1. Bad \in SUBSET Nat
    BY DEF Bad
  <2>2. PICK n \in Bad : \A m \in Bad : n <= m
    BY <2>1, LeastNumber
  <2>3. n \in Nat /\ n # 0 /\ n - 1 \in Nat
    BY <1>1, <2>1, <2>2
  <2>4. n - 1 \notin Bad
    BY <2>2, <2>3
  <2> HIDE DEF UpTo, Functions
  <2>5. \E g \in Functions : UpTo(g, n - 1)
    BY <2>3, <2>4 DEF Bad
  <2>6. \E h \in Functions : UpTo(h, n - 1 + 1)
    BY <1>2, <2>3, <2>5
  <2>7. n - 1 + 1 = n
    BY <2>3
  <2> QED BY <2>2, <2>6, <2>7 DEF Bad
<1>4. Cardinality(R) \in Nat
  BY FS_CardinalityType
<1>5. PICK g \in Functions : UpTo(g, Cardinality(R))
  <2> HIDE DEF UpTo, Functions
  <2> QED BY <1>3, <1>4
<1>6. g = [s \in SUBSET R |-> SumsUp(g, f, s)]
  <2>1. \A s \in SUBSET R : g[s] = SumsUp(g, f, s)
    BY <1>5, Smaller
  <2> QED BY <2>1
<1> QED BY <1>6 DEF Sums

(* One addend grows by d, and so does every sum it is in; a sum without
   addends that count is 0. *)
LEMMA SumsGrow ==
  ASSUME NEW R, IsFiniteSet(R), NEW f \in [R -> Int], NEW h \in [R -> Int],
         NEW i \in R, NEW d \in Int, h[i] = f[i] + d, \A k \in R \ {i} : h[k] = f[k]
  PROVE  /\ Sums(f, R)[R] \in Int
         /\ Sums(h, R)[R] = Sums(f, R)[R] + d
         /\ (\A k \in R : f[k] = 0) => Sums(f, R)[R] = 0
<1> DEFINE F == Sums(f, R)
           H == Sums(h, R)
           Zero == \A k \in R : f[k] = 0
           Good(s) == /\ F[s] \in Int /\ H[s] = F[s] + (IF i \in s THEN d ELSE 0)
                      /\ Zero => F[s] = 0
           Bad == {n \in Nat : \E s \in SUBSET R : Cardinality(s) = n /\ ~Good(s)}
<1>1. /\ \A s \in SUBSET R : F[s] = SumsUp(F, f, s)
      /\ \A s \in SUBSET R : H[s] = SumsUp(H, h, s)
  <2>1. F = [s \in SUBSET R |-> SumsUp(F, f, s)]
    BY SumsExist
  <2>2. H = [s \in SUBSET R |-> SumsUp(H, h, s)]
    BY SumsExist
  <2> HIDE DEF F, H
  <2> QED BY <2>1, <2>2
<1> HIDE DEF F, H
<1>2. ASSUME NEW s \in SUBSET R, s = {} \/ Good(s \ {Some(s)})
      PROVE  Good(s)
  <2>1. CASE s = {}
    <3>1. F[s] = 0 /\ H[s] = 0 /\ i \notin s
      BY <1>1, <2>1 DEF SumsUp
    <3> QED BY <3>1
  <2>2. CASE s # {}
    <3> DEFINE x == Some(s)
               t == s \ {x}
    <3>1. x \in R /\ x \in s /\ (i \in t <=> i \in s /\ i # x)
      BY <2>2, Smaller
    <3>2. F[s] = f[x] + F[t] /\ H[s] = h[x] + H[t]
      BY <1>1, <2>2 DEF SumsUp
    <3>3. /\ F[t] \in Int /\ H[t] = F[t] + (IF i \in t THEN d ELSE 0)
          /\ Zero => F[t] = 0
      BY <1>2, <2>2
    <3> HIDE DEF x, t
    <3>4. f[x] \in Int /\ h[x] = f[x] + (IF x = i THEN d ELSE 0)
      BY <3>1
    <3> QED BY <3>1, <3>2, <3>3, <3>4
  <2> QED BY <2>1, <2>2
<1> HIDE DEF Good
<1>3. Bad = {}
  <2> SUFFICES ASSUME Bad # {} PROVE FALSE
    OBVIOUS
  <2>1. Bad \in SUBSET Nat
    OBVIOUS
  <2> HIDE DEF Bad
  <2>2. PICK n \in Bad : \A m \in Bad : n <= m
    BY <2>1, LeastNumber
  <2>3. PICK s \in SUBSET R : Cardinality(s) = n /\ ~Good(s)
    BY <2>2 DEF Bad
  <2>4. s # {} /\ ~Good(s \ {Some(s)})
    BY <1>2, <2>3
  <2>5. /\ s \ {Some(s)} \in SUBSET R
        /\ Cardinality(s \ {Some(s)}) = n - 1 /\ n - 1 \in Nat
    BY <2>3, <2>4, Smaller
  <2>6. n - 1 \in Bad
    BY <2>4, <2>5 DEF Bad
  <2> QED BY <2>1, <2>2, <2>6
<1>4. Good(R)
  <2>1. Cardinality(R) \in Nat
    BY FS_CardinalityType
  <2> QED BY <1>3, <2>1
<1> QED BY <1>4 DEF Good, F, H

(* Nothing adds up to nothing. *)
LEMMA NothingSums ==
  ASSUME NEW R, IsFiniteSet(R)
  PROVE  Sums([x \in R |-> 0], R)[R] = 0
<1> DEFINE f == [x \in R |-> 0]
<1>1. f \in [R -> Int] /\ \A k \in R : f[k] = 0 /\ f[k] = f[k] + 0
  OBVIOUS
<1> HIDE DEF f
<1>2. CASE R = {}
  <2>1. Sums(f, R) = [s \in SUBSET R |-> SumsUp(Sums(f, R), f, s)]
    BY <1>1, SumsExist
  <2>2. Sums(f, R)[R] = SumsUp(Sums(f, R), f, R)
    BY <2>1
  <2> QED BY <1>2, <2>2 DEF SumsUp, f
<1>3. CASE R # {}
  <2>1. PICK i \in R : TRUE
    BY <1>3
  <2>2. f[i] = f[i] + 0 /\ \A k \in R \ {i} : f[k] = f[k]
    BY <1>1
  <2> QED BY <1>1, <2>2, SumsGrow DEF f
<1> QED BY <1>2, <1>3

-----------------------------------------------------------------------------
(* The session's payments and its ledger *)

(* Only money the provider holds is in the ledger, so an intent that is being
   made has no entry that its amount would change. *)
HeldInv == \A i \in Ids : entries[i] # 0 => provider[i] = "paid"
TotalInv == HeldInv /\ PaidIsLedgerTotal

LEMMA IdsFinite == IsFiniteSet(Ids)
BY FS_Interval, IntentsAssumption DEF Ids

LEMMA BookedType == IInv => Booked \in [Ids -> Int]
<1> SUFFICES ASSUME IInv PROVE Booked \in [Ids -> Int]
  OBVIOUS
<1>1. ASSUME NEW i \in Ids PROVE entries[i] * intent[i].amount \in Int
  <2>1. entries[i] \in Nat /\ intent[i].amount \in Nat
    BY DEF IInv, TypeOK, Intent
  <2> QED BY <2>1
<1> QED BY <1>1 DEF Booked

(* The total, as the sums speak of it. *)
LEMMA TotalIsSums == PaidIsLedgerTotal <=> session.paid = Sums(Booked, Ids)[Ids]
BY SumIsSums DEF PaidIsLedgerTotal

LEMMA NextTotal == PaidIsLedgerTotal' <=> session'.paid = Sums(Booked', Ids)[Ids]
<1>1. (session.paid = Sums(Booked, Ids)[Ids])' <=> session'.paid = Sums(Booked', Ids)[Ids]
  OBVIOUS
<1>2. PaidIsLedgerTotal' <=> (session.paid = Sums(Booked, Ids)[Ids])'
  BY TotalIsSums, PTL
<1> QED BY <1>1, <1>2

(* Steps that book nothing leave the total where it is. *)
LEMMA NothingBooked ==
  ASSUME TotalInv, session'.paid = session.paid, entries' = entries,
         \A i \in Ids : entries[i] # 0 => /\ intent'[i].amount = intent[i].amount
                                         /\ provider'[i] = provider[i],
         \A i \in Ids : entries[i] = 0 => intent[i].amount \in Int /\ intent'[i].amount \in Int
  PROVE  TotalInv'
<1>1. HeldInv'
  BY DEF TotalInv, HeldInv
<1>2. \A i \in Ids : entries'[i] * intent'[i].amount = entries[i] * intent[i].amount
  OBVIOUS
<1>3. Booked' = Booked
  BY <1>2 DEF Booked
<1>4. session'.paid = Sums(Booked', Ids)[Ids]
  BY <1>3, TotalIsSums DEF TotalInv
<1>5. PaidIsLedgerTotal'
  BY <1>4, NextTotal
<1> QED BY <1>1, <1>5 DEF TotalInv

LEMMA TotalInit == Init => TotalInv
<1> SUFFICES ASSUME Init PROVE TotalInv
  OBVIOUS
<1>1. HeldInv
  BY DEF Init, HeldInv
<1>2. Booked = [i \in Ids |-> 0]
  BY DEF Init, Booked
<1>3. Sums(Booked, Ids)[Ids] = 0
  BY <1>2, IdsFinite, NothingSums
<1>4. session.paid = 0
  BY DEF Init
<1> QED BY <1>1, <1>3, <1>4, TotalIsSums DEF TotalInv

(* What crediting an intent does to the session and to its amounts. *)
LEMMA CreditAmounts ==
  ASSUME IInv, NEW j \in Jobs, Credit(j)
  PROVE  /\ job[j].at \in Ids /\ provider[job[j].at] = "paid"
         /\ \A k \in Ids : intent'[k].amount = intent[k].amount
         /\ provider' = provider
         /\ \/ /\ entries[job[j].at] = 0
               /\ entries' = [entries EXCEPT ![job[j].at] = 1]
               /\ session'.paid = session.paid + intent[job[j].at].amount
            \/ entries' = entries /\ session'.paid = session.paid
<1> DEFINE i == job[j].at
<1>1. i \in Ids /\ provider[i] = "paid"
  BY CreditEffect
<1>2. /\ intent' = [intent EXCEPT ![i].status = "SUCCEEDED"]
      /\ provider' = provider
  BY CreditEffect
<1>3. PICK count, amount : /\ Record(j, count, amount)
                           /\ \/ entries[i] = 0 /\ count = 1 /\ amount = intent[i].amount
                              \/ entries[i] # 0 /\ count = entries[i] /\ amount = 0
  BY DEF Credit
<1>4. session'.paid = session.paid + amount /\ entries' = [entries EXCEPT ![i] = count]
  BY <1>3 DEF Record, IInv, TypeOK, Session
<1> HIDE DEF i
<1>5. \A k \in Ids : intent'[k].amount = intent[k].amount
  BY <1>1, <1>2 DEF IInv, TypeOK, Intent
<1>6. session.paid \in Nat
  BY DEF IInv, TypeOK, Session
<1>7. CASE entries[i] = 0
  BY <1>1, <1>2, <1>3, <1>4, <1>5, <1>7 DEF i
<1>8. CASE entries[i] # 0
  <2>1. entries' = entries /\ session'.paid = session.paid
    BY <1>1, <1>3, <1>4, <1>6, <1>8 DEF IInv, TypeOK
  <2> QED BY <1>1, <1>2, <1>5, <2>1 DEF i
<1> QED BY <1>7, <1>8

LEMMA CreditTotal ==
  ASSUME IInv, IInv', TotalInv, NEW j \in Jobs, Credit(j)
  PROVE  TotalInv'
<1> DEFINE i == job[j].at
<1>1. /\ i \in Ids /\ provider[i] = "paid"
      /\ \A k \in Ids : intent'[k].amount = intent[k].amount
      /\ provider' = provider
      /\ \/ /\ entries[i] = 0
            /\ entries' = [entries EXCEPT ![i] = 1]
            /\ session'.paid = session.paid + intent[i].amount
         \/ entries' = entries /\ session'.paid = session.paid
  BY CreditAmounts
<1> HIDE DEF i
<1>2. \A k \in Ids : intent[k].amount \in Int /\ intent'[k].amount \in Int
  BY <1>1 DEF IInv, TypeOK, Intent
<1>3. CASE entries' = entries /\ session'.paid = session.paid
  BY <1>1, <1>2, <1>3, NothingBooked
<1>4. CASE /\ entries[i] = 0
           /\ entries' = [entries EXCEPT ![i] = 1]
           /\ session'.paid = session.paid + intent[i].amount
  <2>1. /\ entries'[i] = 1
        /\ \A k \in Ids \ {i} : entries'[k] = entries[k]
    BY <1>1, <1>4 DEF IInv, TypeOK
  <2>2. HeldInv'
    BY <1>1, <2>1 DEF TotalInv, HeldInv
  <2>3. Booked \in [Ids -> Int] /\ Booked' \in [Ids -> Int]
    <3>1. (Booked \in [Ids -> Int])'
      BY BookedType, PTL
    <3> QED BY <3>1, BookedType
  <2>4. Booked'[i] = Booked[i] + intent[i].amount
    <3>1. Booked[i] = 0 * intent[i].amount /\ Booked'[i] = 1 * intent'[i].amount
      BY <1>1, <1>4, <2>1 DEF Booked
    <3> QED BY <1>1, <1>2, <3>1
  <2>5. \A k \in Ids \ {i} : Booked'[k] = Booked[k]
    BY <1>1, <2>1 DEF Booked
  <2>6. Sums(Booked', Ids)[Ids] = Sums(Booked, Ids)[Ids] + intent[i].amount
    BY <1>1, <1>2, <2>3, <2>4, <2>5, IdsFinite, SumsGrow
  <2>7. session.paid = Sums(Booked, Ids)[Ids]
    BY TotalIsSums DEF TotalInv
  <2>8. session'.paid = Sums(Booked', Ids)[Ids]
    BY <1>4, <2>6, <2>7
  <2>9. PaidIsLedgerTotal'
    BY <2>8, NextTotal
  <2> QED BY <2>2, <2>9 DEF TotalInv
<1> QED BY <1>1, <1>3, <1>4

(* A call that makes an intent, which has no entry yet. *)
LEMMA StartTotal ==
  ASSUME IInv, IInv', TotalInv, NEW i \in Ids, NEW quote \in 0..MaxDue, NEW available \in BOOLEAN,
         StartMobile(i, quote, available)
  PROVE  TotalInv'
<1>1. provider[i] # "paid"
  BY DEF StartMobile, IInv, SentInv
<1>2. entries[i] = 0
  BY <1>1 DEF TotalInv, HeldInv
<1>3. \A k \in Ids \ {i} : intent'[k] = intent[k] /\ provider'[k] = provider[k]
  BY DEF StartMobile, IInv, TypeOK
<1>4. \A k \in Ids : intent[k].amount \in Int /\ intent'[k].amount \in Int
  BY DEF IInv, TypeOK, Intent
<1>5. session'.paid = session.paid
  BY DEF StartMobile, Requoted, IInv, TypeOK, Session
<1> QED BY <1>2, <1>3, <1>4, <1>5, NothingBooked DEF StartMobile

LEMMA StoreTotal ==
  ASSUME IInv, IInv', TotalInv, NEW i, NEW status,
         intent' = [intent EXCEPT ![i].status = status],
         session' = session, entries' = entries, provider' = provider
  PROVE  TotalInv'
<1>1. \A k \in Ids : intent'[k].amount = intent[k].amount /\ intent[k].amount \in Int
  BY DEF IInv, TypeOK, Intent
<1> QED BY <1>1, NothingBooked

LEMMA ResponseTotal ==
  ASSUME IInv, IInv', TotalInv, NEW i \in Ids, NEW outcome, provider[i] # "paid",
         provider' = [provider EXCEPT ![i] = outcome],
         session' = session, entries' = entries, intent' = intent
  PROVE  TotalInv'
<1>1. \A k \in Ids : entries[k] # 0 => provider'[k] = provider[k]
  BY DEF TotalInv, HeldInv, IInv, TypeOK
<1>2. \A k \in Ids : intent[k].amount \in Int
  BY DEF IInv, TypeOK, Intent
<1> QED BY <1>1, <1>2, NothingBooked

LEMMA TotalStep == IInv /\ IInv' /\ TotalInv /\ [Next]_vars => TotalInv'
<1> SUFFICES ASSUME IInv, IInv', TotalInv, [Next]_vars PROVE TotalInv'
  OBVIOUS
<1>0. \A k \in Ids : intent[k].amount \in Int
  BY DEF IInv, TypeOK, Intent
<1>1. ASSUME session'.paid = session.paid, UNCHANGED <<intent, provider, entries>>
      PROVE  TotalInv'
  BY <1>0, <1>1, NothingBooked
<1>2. ASSUME NEW quote \in 0..MaxDue, ViewReceipt(quote) PROVE TotalInv'
  <2>1. session'.paid = session.paid
    BY <1>2 DEF ViewReceipt, Requoted, IInv, TypeOK, Session
  <2> QED BY <1>1, <1>2, <2>1 DEF ViewReceipt
<1>3. ASSUME NEW i \in Ids, NEW quote \in 0..MaxDue, NEW available \in BOOLEAN,
             StartMobile(i, quote, available)
      PROVE TotalInv'
  BY <1>3, StartTotal
<1>4. ASSUME NEW i \in Ids, NEW status \in Answerable(i), Answer(i, status) PROVE TotalInv'
  BY <1>4, StoreTotal DEF Answer
<1>5. ASSUME NEW i \in Ids, Prompt(i) PROVE TotalInv'
  BY <1>5, ResponseTotal DEF Prompt
<1>6. ASSUME NEW i \in Ids, NEW outcome \in {"paid", "other", "declined"}, Respond(i, outcome)
      PROVE TotalInv'
  BY <1>6, ResponseTotal DEF Respond
<1>7. ASSUME NEW i \in Ids, Age(i) PROVE TotalInv'
  <2>1. \A k \in Ids : intent'[k].amount = intent[k].amount
    BY <1>7 DEF Age, IInv, TypeOK, Intent
  <2> QED BY <1>0, <1>7, <2>1, NothingBooked DEF Age
<1>8. ASSUME NEW j \in Jobs, Settle(j) PROVE TotalInv'
  <2>1. CASE Credit(j)
    BY <2>1, CreditTotal
  <2>2. CASE Mismatch(j) \/ Fail(j) \/ Expire(j)
    BY <2>2, StoreTotal DEF Mismatch, Fail, Expire, Store
  <2>3. CASE KeepWaiting(j)
    BY <1>1, <2>3 DEF KeepWaiting
  <2> QED BY <1>8, <2>1, <2>2, <2>3 DEF Settle
<1>9. CASE UNCHANGED vars
  BY <1>1, <1>9 DEF vars
<1>10. ASSUME NEW i \in Ids, Abandon(i) PROVE TotalInv'
  BY <1>1, <1>10 DEF Abandon
<1>11. ASSUME NEW j \in Jobs, NEW i \in Ids, Webhook(j, i) PROVE TotalInv'
  BY <1>1, <1>11 DEF Webhook
<1>12. ASSUME NEW j \in Jobs, Sweep(j) PROVE TotalInv'
  BY <1>1, <1>12 DEF Sweep
<1>13. ASSUME NEW j \in Jobs, NEW answer \in Answers, Reply(j, answer) PROVE TotalInv'
  BY <1>1, <1>13 DEF Reply
<1>14. ASSUME NEW j \in Jobs, Abort(j) PROVE TotalInv'
  BY <1>1, <1>14 DEF Abort
<1> QED BY <1>2, <1>3, <1>4, <1>5, <1>6, <1>7, <1>8, <1>9, <1>10, <1>11, <1>12, <1>13, <1>14
     DEF Next

(* The session's payments are the sum of its ledger entries, however often
   and in whatever order its intents are settled. *)
THEOREM PaidIsTotal == Spec => []PaidIsLedgerTotal
<1>1. TotalInv => PaidIsLedgerTotal
  BY DEF TotalInv
<1> QED BY <1>1, TotalInit, TotalStep, Invariance, PTL DEF Spec
=============================================================================

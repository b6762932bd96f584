------------------------------ MODULE Payments ------------------------------
(***************************************************************************)
(* The payments of one order: initiation with the provider, the webhook    *)
(* pipeline that settles them, the expiry of the order's hold, and the     *)
(* refunds of what was paid.                                               *)
(*                                                                         *)
(* A webhook is applied in one transaction, and so is the expiry of a      *)
(* hold; they are single actions.  Everything else is not: an initiation   *)
(* looks for a payment to reuse, inserts one, calls the provider and only  *)
(* then reads the payment again and writes its status; a refund looks at   *)
(* the remaining amount, inserts itself, calls the provider, and writes    *)
(* the payment's status from a list of refunds it read before.  Those      *)
(* steps are actions of their own and anything may come between them.      *)
(* A process may die between any two.  The provider repeats an event until *)
(* it is answered, and may repeat it after.                                *)
(***************************************************************************)
EXTENDS Integers, FiniteSets, FiniteSetsExt

CONSTANTS
    Payment,     \* payment documents the order may get
    Request,     \* initiations in progress at once
    Delivery,    \* webhook deliveries in progress at once
    Refund,      \* refund requests
    Price,       \* what the order costs
    Answers,     \* what the provider says of a new checkout
    Reports,     \* and later of the payment
    RefundReports,   \* and of a refund, at once or later
    MaxEvents,   \* bound: events the provider emits
    MaxFaults,   \* bound: processes that die, transactions that fail for good
    None

ASSUME PriceAssumption == Price \in Nat \ {0} /\ MaxEvents \in Nat /\ MaxFaults \in Nat
\* All that the provider's statuses are mapped to; a refund that the provider has
\* "created" and not settled counts as pending, as the code treats both alike.
ASSUME ProviderAssumption ==
    /\ Answers \subseteq {"pending", "requires_action", "failed"}
    /\ Reports \subseteq {"created", "pending", "requires_action", "succeeded", "failed",
                         "cancelled", "expired", "refunded", "partially_refunded"}
    /\ RefundReports \subseteq {"pending", "succeeded", "failed", "cancelled"}
ASSUME NoneAssumption == None \notin Payment
\* An event says whether it is about a payment or a refund.
ASSUME KindsAssumption == Payment \cap Refund = {}
\* A payment has been asked back so many times; their amounts have a sum.
ASSUME FiniteAssumption == IsFiniteSet(Refund)

Active == {"created", "pending", "requires_action"}
Paid == {"succeeded", "partially_refunded", "refunded"}
Unpaid == {"failed", "cancelled", "expired"}
Final == Paid \cup Unpaid

CanMove(from, to) ==
    \/ from = to
    \/ from \in Active /\ to \in (Active \ {"created"}) \cup Unpaid \cup {"succeeded"}
    \/ from = "succeeded" /\ to \in {"partially_refunded", "refunded"}
    \/ from = "partially_refunded" /\ to = "refunded"

\* What the provider reports: where a payment stands, which may be that it was
\* given back, or where a refund that was asked of it does.
PaymentEvents == [about : Payment, status : Reports]
RefundEvents == [about : Refund, status : RefundReports]
Events == PaymentEvents \cup RefundEvents

VARIABLES
    order,     \* the order's status
    lapsed,    \* the time of its hold is over
    status,    \* of each payment document, "none" before it exists
    ref,       \* the payment has its provider's reference
    linked,    \* payments whose checkout the customer was sent to
    job,       \* the initiations: step, payment and the status to write
    emitted, acked,   \* events of the provider, and those it was answered
    store,     \* processing status of each event, "none" before it is recorded
    hand,      \* the deliveries: step, event and the status read
    refund,    \* the refunds: status, amount, and the step of their request
    faults,    \* counted against MaxFaults
    sold,      \* history: the order was completed
    crossed,   \* history: an initiation wrote over what another had settled
    raced,     \* history: a refund used a sum that had changed since
    reported   \* history: payments the provider itself reported as given back

vars == <<order, lapsed, status, ref, linked, job, emitted, acked, store, hand,
          refund, faults, sold, crossed, raced, reported>>
payments == <<order, lapsed, status, ref, linked, job, sold, crossed, reported>>
webhooks == <<emitted, acked, store, hand>>
refunds == <<refund, raced>>

Idle == [step |-> "idle", pay |-> None, next |-> "none"]
Free == [step |-> "idle", event |-> None, read |-> "none"]
NoRefund == [status |-> "none", step |-> "idle", pay |-> None, amount |-> 0, seen |-> 0,
             answer |-> "none"]

Init ==
    /\ order = "pending_payment" /\ lapsed = FALSE
    /\ status = [p \in Payment |-> "none"] /\ ref = {} /\ linked = {}
    /\ job = [i \in Request |-> Idle]
    /\ emitted = {} /\ acked = {}
    /\ store = [e \in Events |-> "none"] /\ hand = [d \in Delivery |-> Free]
    /\ refund = [r \in Refund |-> NoRefund]
    /\ faults = 0 /\ sold = FALSE /\ crossed = FALSE /\ raced = FALSE /\ reported = {}

Having(S) == {p \in Payment : status[p] \in S}

\* New documents and free slots are interchangeable: any one stands for all.
Some(S) == CHOOSE x \in S : TRUE

-----------------------------------------------------------------------------
(* Initiation of a payment, and its retry.                                 *)

\* An order that can be paid, and no payment of it that was: an active one with
\* a reference is answered again, one without is taken over, else one is made.
InitiatePayment(i) ==
    /\ job[i] = Idle /\ i = Some({j \in Request : job[j] = Idle})
    /\ order = "pending_payment" /\ ~ lapsed
    /\ Having(Paid) = {}
    /\ \/ /\ Having(Active) = {}
          /\ job' = [job EXCEPT ![i].step = "create"]
          /\ UNCHANGED linked
       \/ \E p \in Having(Active) \ ref :
              /\ job' = [job EXCEPT ![i].step = "call", ![i].pay = p]
              /\ UNCHANGED linked
       \/ \E p \in Having(Active) \cap ref :
              /\ linked' = linked \cup {p}
              /\ UNCHANGED job
    /\ UNCHANGED <<order, lapsed, status, ref, sold, crossed, reported, faults, webhooks, refunds>>

\* The index on the order's active and succeeded payments refuses a second one;
\* the request then answers with the one that won, if that is still active.
CreatePayment(i) ==
    /\ job[i].step = "create"
    /\ \/ /\ Having(Active \cup {"succeeded"}) = {}
          /\ Having({"none"}) # {}
          /\ LET p == Some(Having({"none"})) IN
                 /\ status' = [status EXCEPT ![p] = "created"]
                 /\ job' = [job EXCEPT ![i].step = "call", ![i].pay = p]
          /\ UNCHANGED linked
       \/ /\ Having(Active \cup {"succeeded"}) # {}
          /\ job' = [job EXCEPT ![i] = Idle]
          /\ linked' = linked \cup (Having(Active) \cap ref)
          /\ UNCHANGED status
    /\ UNCHANGED <<order, lapsed, ref, sold, crossed, reported, faults, webhooks, refunds>>

\* The provider accepts the checkout or refuses to create it; then the payment is
\* read and the transition to what it said is checked ...
CallProvider(i) ==
    LET p == job[i].pay IN
    /\ job[i].step = "call"
    /\ \E s \in Answers :
           job' = [job EXCEPT ![i] = IF CanMove(status[p], s)
                                     THEN [@ EXCEPT !.step = "write", !.next = s] ELSE Idle]
    /\ UNCHANGED <<order, lapsed, status, ref, linked, sold, crossed, reported, faults,
                   webhooks, refunds>>

\* ... and updates it by its id, whatever its status has become.
MarkPayment(i) ==
    LET p == job[i].pay
        s == job[i].next
        Refused == s \in Active /\ Having(Active \cup {"succeeded"}) \ {p} # {}
    IN
    /\ job[i].step = "write"
    /\ job' = [job EXCEPT ![i] = Idle]
    /\ IF Refused THEN UNCHANGED <<status, ref, linked, crossed>>
       ELSE /\ status' = [status EXCEPT ![p] = s]
            /\ ref' = IF s \in Active THEN ref \cup {p} ELSE ref
            /\ linked' = IF s \in Active THEN linked \cup {p} ELSE linked
            /\ crossed' = (crossed \/ ~ CanMove(status[p], s) \/ (s = "failed" /\ p \in ref))
    /\ UNCHANGED <<order, lapsed, sold, reported, faults, webhooks, refunds>>

-----------------------------------------------------------------------------
(* The order's hold.                                                       *)

\* (which matters while it waits only)
Lapse ==
    /\ order = "pending_payment"
    /\ ~ lapsed /\ lapsed' = TRUE
    /\ UNCHANGED <<order, status, ref, linked, job, sold, crossed, reported, faults, webhooks,
                   refunds>>

\* The hold and its active payments expire in one transaction; a later look at
\* the expired order expires what is active then.
ExpireReservation ==
    /\ \/ order = "pending_payment" /\ lapsed
       \/ order = "expired" /\ Having(Active) # {}
    /\ order' = "expired"
    /\ status' = [p \in Payment |-> IF status[p] \in Active THEN "expired" ELSE status[p]]
    /\ UNCHANGED <<lapsed, ref, linked, job, sold, crossed, reported, faults, webhooks, refunds>>

\* By the customer or with the session; the payments are left as they are.
CancelOrder ==
    /\ order \in {"pending_payment", "completed"}
    /\ order' = "cancelled"
    /\ UNCHANGED <<lapsed, status, ref, linked, job, sold, crossed, reported, faults, webhooks,
                   refunds>>

-----------------------------------------------------------------------------
(* Refunds.  A request goes insert, call, mark, refresh, write.            *)

SumOf(p, S) ==
    MapThenSumSet(LAMBDA r : refund[r].amount,
                  {r \in Refund : refund[r].pay = p /\ refund[r].status \in S})
\* A refund counts from its insertion.
Reserved(p) == SumOf(p, {"created", "pending", "succeeded"})
Remaining(p) == IF Reserved(p) >= Price THEN 0 ELSE Price - Reserved(p)
Refunded(p) == SumOf(p, {"succeeded"})

\* The status a payment should have when so much of it was given back.
RefundedStatus(sum) == IF sum >= Price THEN "refunded" ELSE "partially_refunded"

Quiet ==
    /\ \A d \in Delivery : hand[d] = Free
    /\ {job[i].step : i \in Request} \subseteq {"idle", "create"}

\* Mutant: nothing may be asked for.
RequestRefundOfNothing(r) ==
    /\ refund[r] = NoRefund /\ r = Some({x \in Refund : refund[x] = NoRefund})
    /\ Quiet
    /\ \E p \in Having({"succeeded", "partially_refunded"}) \cap ref : \E n \in 0 .. Remaining(p) :
           refund' = [refund EXCEPT ![r] = [@ EXCEPT !.step = "insert", !.pay = p,
                                                     !.amount = n, !.seen = Reserved(p)]]
    /\ UNCHANGED <<payments, webhooks, faults, raced>>

\* Some of what remains of a paid payment, or all of it, as create_refund finds
\* it when it looks again. Bound: it begins when no webhook is being
\* handled and no initiation is on its way but one that has yet to insert its payment.
RequestRefund(r) ==
    /\ refund[r] = NoRefund /\ r = Some({x \in Refund : refund[x] = NoRefund})
    /\ Quiet
    /\ \E p \in Having({"succeeded", "partially_refunded"}) \cap ref : \E n \in 1 .. Remaining(p) :
           refund' = [refund EXCEPT ![r] = [@ EXCEPT !.step = "insert", !.pay = p,
                                                     !.amount = n, !.seen = Reserved(p)]]
    /\ UNCHANGED <<payments, webhooks, faults, raced>>

InsertRefund(r) ==
    /\ refund[r].step = "insert"
    /\ refund' = [refund EXCEPT ![r].status = "created", ![r].step = "call", ![r].seen = 0]
    /\ raced' = (raced \/ Reserved(refund[r].pay) # refund[r].seen)
    /\ UNCHANGED <<payments, webhooks, faults>>

\* The provider gives the money back, will, or does not.
CallRefund(r) ==
    /\ refund[r].step = "call"
    /\ \E s \in RefundReports :
           refund' = [refund EXCEPT ![r].step = "mark", ![r].answer = s]
    /\ UNCHANGED <<payments, webhooks, faults, raced>>

\* A refund that succeeded, or was called off, brings the payment up to date.
Refreshing(s) == s \in {"succeeded", "cancelled"}

\* Until now no event can find the refund.
MarkRefund(r) ==
    /\ refund[r].step = "mark"
    /\ refund' = [refund EXCEPT ![r].status = refund[r].answer,
                      ![r].step = IF Refreshing(refund[r].answer) THEN "refresh" ELSE "done"]
    /\ UNCHANGED <<payments, webhooks, faults, raced>>

\* Nothing to write where nothing was given back or the status says it already.
RefreshRead(r) ==
    LET p == refund[r].pay IN
    /\ refund[r].step = "refresh"
    /\ refund' = [refund EXCEPT ![r] =
                      IF \/ Refunded(p) = 0
                         \/ status[p] \notin Paid \ {RefundedStatus(Refunded(p))}
                      THEN [@ EXCEPT !.step = "done"]
                      ELSE [@ EXCEPT !.step = "write", !.seen = Refunded(p)]]
    /\ UNCHANGED <<payments, webhooks, faults, raced>>

\* Whatever the payment's status has become.
RefreshWrite(r) ==
    LET p == refund[r].pay IN
    /\ refund[r].step = "write"
    /\ status' = [status EXCEPT ![p] = RefundedStatus(refund[r].seen)]
    /\ refund' = [refund EXCEPT ![r].step = "done", ![r].seen = 0]
    /\ raced' = (raced \/ Refunded(p) # refund[r].seen)
    /\ UNCHANGED <<order, lapsed, ref, linked, job, sold, crossed, reported, webhooks, faults>>

-----------------------------------------------------------------------------
(* Webhooks.                                                               *)

\* The provider reports on a checkout the customer was sent to, or on a refund
\* it promised, which the request may not have recorded yet.
Emit ==
    /\ Cardinality(emitted) < MaxEvents
    /\ \E e \in Events \ emitted :
           /\ \/ e \in PaymentEvents /\ e.about \in linked
              \/ e \in RefundEvents /\ refund[e.about].answer = "pending"
           /\ emitted' = emitted \cup {e}
    /\ UNCHANGED <<payments, acked, store, hand, faults, refunds>>

\* A first delivery, or a repeated one while another is being handled or after
\* it was refused. Bound: none begins once the provider has its answer.
Receive(d, e) ==
    /\ hand[d] = Free /\ d = Some({x \in Delivery : hand[x] = Free})
    /\ e \in emitted \ acked
    /\ hand' = [hand EXCEPT ![d] = [step |-> "record", event |-> e, read |-> store[e]]]
    /\ UNCHANGED <<payments, emitted, acked, store, faults, refunds>>


\* An event recorded as done is answered; else it is marked as in progress. The
\* unique index turns an insertion that lost into another look.
Record(d) ==
    LET e == hand[d].event
        Look == IF hand[d].read = "none" THEN store[e] ELSE hand[d].read
        Done == Look \in {"processed", "skipped"}
    IN
    /\ hand[d].step = "record"
    /\ hand' = [hand EXCEPT ![d] = IF Done THEN Free
                                 ELSE [@ EXCEPT !.step = "process", !.read = "none"]]
    /\ acked' = IF Done THEN acked \cup {e} ELSE acked
    /\ store' = IF Done \/ (hand[d].read = "none" /\ store[e] # "none") THEN store
                ELSE [store EXCEPT ![e] = "processing"]
    /\ UNCHANGED <<payments, emitted, faults, refunds>>

\* The transaction ended and the provider is answered.
Answered(d, outcome) ==
    /\ store' = [store EXCEPT ![hand[d].event] = outcome]
    /\ acked' = acked \cup {hand[d].event}
    /\ hand' = [hand EXCEPT ![d] = Free]

\* An event that would move a settled payment where it cannot go. (One that
\* would so move a payment that is still open is refused.)
Stale(e) ==
    /\ e \in PaymentEvents /\ e.about \in ref
    /\ status[e.about] \in Final /\ ~ CanMove(status[e.about], e.status)

\* Mutant: the sum is taken before the refund is marked.
RefundedBefore(e) == Refunded(refund[e.about].pay)

\* What will have been given back for the payment once the event is applied.
RefundedAfter(e) ==
    LET r == refund[e.about] IN
    Refunded(r.pay) + IF e.status = "succeeded" /\ r.status # "succeeded" THEN r.amount ELSE 0
\* Its payment must have been paid for that.
Refundable(e) ==
    /\ refund[e.about].status \in {"pending", e.status}
    /\ Refreshing(e.status) /\ RefundedAfter(e) > 0 => status[refund[e.about].pay] \in Paid

\* Mutant: finalization returns for whatever is not pending, where it should raise.
ApplicableToAnyOrder(e) ==
    IF e \in PaymentEvents
    THEN e.about \in ref /\ CanMove(status[e.about], e.status)
    ELSE Refundable(e)

\* The order of a success must still be payable or be completed already, and a
\* refund must have been recorded and not have ended otherwise.
Applicable(e) ==
    IF e \in PaymentEvents
    THEN /\ e.about \in ref /\ CanMove(status[e.about], e.status)
         /\ \/ e.status # "succeeded"
            \/ order = "completed"
            \/ order = "pending_payment" /\ ~ lapsed
    ELSE Refundable(e)

SkipEvent(d) ==
    /\ hand[d].step = "process"
    /\ Stale(hand[d].event)
    /\ Answered(d, "skipped")
    /\ UNCHANGED <<payments, emitted, faults, refunds>>

\* The payment's status and its order: a success completes it, a failure frees
\* it. That the money was given back has no refund document.
ApplyPaymentEvent(d) ==
    LET e == hand[d].event IN
    /\ hand[d].step = "process"
    /\ e \in PaymentEvents /\ Applicable(e)
    /\ status' = [status EXCEPT ![e.about] = e.status]
    /\ order' = IF order # "pending_payment" THEN order
                ELSE CASE e.status = "succeeded" -> "completed"
                       [] e.status = "failed" -> "payment_failed"
                       [] e.status = "cancelled" -> "payment_cancelled"
                       [] e.status = "expired" -> "expired"
                       [] OTHER -> order
    /\ reported' = IF e.status \in {"partially_refunded", "refunded"} \ {status[e.about]}
                   THEN reported \cup {e.about} ELSE reported
    /\ sold' = (sold \/ order' = "completed")
    /\ Answered(d, "processed")
    /\ UNCHANGED <<lapsed, ref, linked, job, crossed, emitted, faults, refunds>>

\* The refund and the payment's status, from the refunds of this transaction.
ApplyRefundEvent(d) ==
    LET e == hand[d].event
        p == refund[e.about].pay
    IN
    /\ hand[d].step = "process"
    /\ e \in RefundEvents /\ Applicable(e)
    /\ refund' = [refund EXCEPT ![e.about].status = e.status]
    /\ status' = IF Refreshing(e.status) /\ RefundedAfter(e) > 0
                 THEN [status EXCEPT ![p] = RefundedStatus(RefundedAfter(e))] ELSE status
    /\ Answered(d, "processed")
    /\ UNCHANGED <<order, lapsed, ref, linked, job, sold, crossed, reported, emitted, faults,
                   raced>>

\* The transaction is refused, or gives up after its retries.
AbortEvent(d) ==
    LET e == hand[d].event
        Refused == ~ Applicable(e) /\ ~ Stale(e)
    IN
    /\ hand[d].step = "process"
    /\ \/ Refused /\ UNCHANGED faults
       \/ ~ Refused /\ faults < MaxFaults /\ faults' = faults + 1
    /\ hand' = [hand EXCEPT ![d].step = "fail"]
    /\ UNCHANGED <<payments, emitted, acked, store, refunds>>

\* Whatever another delivery has made of the event; the provider gets an error.
MarkFailed(d) ==
    /\ hand[d].step = "fail"
    /\ store' = [store EXCEPT ![hand[d].event] = "failed"]
    /\ hand' = [hand EXCEPT ![d] = Free]
    /\ UNCHANGED <<payments, emitted, acked, faults, refunds>>

-----------------------------------------------------------------------------
\* A process dies; what it did not write stays as it was. (One that has written
\* nothing yet is left out: it might as well not have begun.)
Crash ==
    /\ faults < MaxFaults /\ faults' = faults + 1
    /\ \/ /\ \E i \in Request :
                 job[i].step \in {"call", "write"} /\ job' = [job EXCEPT ![i] = Idle]
          /\ UNCHANGED <<hand, refund>>
       \/ /\ \E d \in Delivery :
                 hand[d].step \in {"process", "fail"} /\ hand' = [hand EXCEPT ![d] = Free]
          /\ UNCHANGED <<job, refund>>
       \/ /\ \E r \in Refund :
                 /\ refund[r].step \in {"call", "mark", "refresh", "write"}
                 /\ refund' = [refund EXCEPT ![r].step = "lost"]
          /\ UNCHANGED <<job, hand>>
    /\ UNCHANGED <<order, lapsed, status, ref, linked, emitted, acked, store, sold, crossed,
                   raced, reported>>

Initiation(i) ==
    InitiatePayment(i) \/ CreatePayment(i) \/ CallProvider(i) \/ MarkPayment(i)
RefundStep(r) ==
    \/ RequestRefund(r) \/ InsertRefund(r) \/ CallRefund(r)
    \/ MarkRefund(r) \/ RefreshRead(r) \/ RefreshWrite(r)
Handling(d) ==
    \/ Record(d) \/ SkipEvent(d) \/ ApplyPaymentEvent(d) \/ ApplyRefundEvent(d)
    \/ AbortEvent(d) \/ MarkFailed(d)

Next ==
    \/ \E i \in Request : Initiation(i)
    \/ Lapse \/ ExpireReservation \/ CancelOrder
    \/ \E r \in Refund : RefundStep(r)
    \/ Emit
    \/ \E d \in Delivery, e \in Events : Receive(d, e)
    \/ \E d \in Delivery : Handling(d)
    \/ Crash

Spec == Init /\ [][Next]_vars

\* A delivery that was begun goes on, and the provider repeats the report of a
\* success until it is answered: however often it is refused, it comes again.
Successes == {e \in PaymentEvents : e.status = "succeeded"}
FairSpec ==
    /\ Spec
    /\ \A d \in Delivery : WF_vars(Handling(d))
    /\ SF_vars(\E d \in Delivery, e \in Successes : Receive(d, e))

-----------------------------------------------------------------------------
OrderStatuses == {"pending_payment", "completed", "cancelled", "expired", "payment_failed",
                  "payment_cancelled"}
JobSteps == {"idle", "create", "call", "write"}
RefundSteps == {"idle", "insert", "call", "mark", "refresh", "write", "done", "lost"}

\* Values of every variable: a request on its way has a payment that exists and
\* an amount that is something and no more than was paid, and a delivery an event
\* the provider sent.
TypeOK ==
    /\ order \in OrderStatuses /\ lapsed \in BOOLEAN
    /\ status \in [Payment -> {"none"} \cup Active \cup Final]
    /\ ref \subseteq Payment \ Having({"none"}) /\ linked \subseteq ref
    /\ \A i \in Request :
          /\ job[i].step \in JobSteps
          /\ job[i].next \in Answers \cup {"none"}
          /\ job[i].step \in {"call", "write"} => job[i].pay \in Payment \ Having({"none"})
    /\ emitted \subseteq Events /\ acked \subseteq emitted
    /\ store \in [Events -> {"none", "processing", "processed", "skipped", "failed"}]
    /\ \A d \in Delivery :
          /\ hand[d].step \in {"idle", "record", "process", "fail"}
          /\ hand[d].step # "idle" => hand[d].event \in emitted
    /\ \A r \in Refund :
          /\ refund[r].step \in RefundSteps
          /\ refund[r].status \in {"none", "created", "pending", "succeeded", "failed", "cancelled"}
          /\ refund[r].step # "idle" => refund[r].pay \in ref /\ refund[r].amount \in 1 .. Price
    /\ faults \in 0 .. MaxFaults /\ sold \in BOOLEAN /\ crossed \in BOOLEAN /\ raced \in BOOLEAN
    /\ reported \subseteq ref

\* However initiations, repeated webhooks and the end of the hold interleave, an
\* order was completed exactly if a payment of it is paid, and only one payment
\* is; until it is given back, or the order ends, the customer was sent to no
\* second checkout. (An initiation that outlasts the payment and its refund may
\* still make another: the index does not cover refunded payments.)
\* This excludes initiations that wrote over each other's payment: nothing in the
\* code guards that write.
PaidOnce ==
    ~ crossed =>
        /\ sold <=> Having(Paid) # {}
        /\ Having({"partially_refunded", "refunded"}) = {} =>
               /\ Cardinality(Having(Paid)) <= 1
               /\ order \in {"pending_payment", "completed"} => Cardinality(linked) <= 1

\* Refund requests that did not use a sum that changed before they acted on it
\* reserve no more than was paid. Where no request is under way or was lost, the
\* payment's status says how much its refunds gave back; it says more only if the
\* provider itself reported the payment as given back, and never less. (What the
\* provider gives back unasked has no refund and is not in any sum.)
RefundsAgree ==
    ~ raced /\ ~ crossed =>
        \A p \in Payment :
            /\ Reserved(p) <= Price
            /\ \/ \E r \in Refund :
                      refund[r].pay = p /\ refund[r].step \in {"refresh", "write", "lost"}
               \/ IF Refunded(p) = 0
                  THEN status[p] \in {"partially_refunded", "refunded"} <=> p \in reported
                  ELSE \/ status[p] = "partially_refunded" /\ Refunded(p) < Price
                       \/ status[p] = "refunded" /\ (Refunded(p) >= Price \/ p \in reported)

\* What the check of a refund's amount is for, with nothing left out: refunds never
\* reserve more than was paid, two requests at once included.
RefundsWithinPrice == \A p \in Payment : Reserved(p) <= Price


=============================================================================

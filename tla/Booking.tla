------------------------------ MODULE Booking ------------------------------
(***************************************************************************)
(* The booking core: seat counters of sessions, orders, tickets, and the   *)
(* requests that read and change them concurrently.                        *)
(*                                                                         *)
(* A command that runs inside run_transaction_with_retry is ONE action:    *)
(* MongoDB's snapshot isolation lets a transaction commit only when no     *)
(* document it writes was written since its snapshot, and every two        *)
(* conflicting booking transactions write a common document (the session's *)
(* seat counter, a ticket or an order).  What happens outside a            *)
(* transaction is not merged with it: the clock a request reads when it    *)
(* arrives, the completion of ended sessions, the reads that build a view  *)
(* of an order, the aggregate that view writes back, and the check-in      *)
(* update are steps of their own, so that other requests run in between.   *)
(*                                                                         *)
(* A request that is rejected, answered or lost in a crash ends with       *)
(* EndRequest; a transaction that raises has no effect at all.             *)
(***************************************************************************)
EXTENDS Naturals, FiniteSets, Domain

CONSTANTS
    Sessions,    \* sessions of the one hall
    Orders,      \* identities of orders that customers may place
    Seats,       \* seats of the hall
    Workers,     \* requests served concurrently
    StartTimes,  \* the start times an administrator may choose
    Running,     \* length of a session
    Hold,        \* reservation_hold_minutes
    MaxTime,     \* bound: the clock stops here
    None         \* "no session", "no target"

ASSUME ConstantsAssumption ==
    /\ IsFiniteSet(Orders) /\ IsFiniteSet(Seats)
    /\ StartTimes \subseteq Nat \ {0}
    /\ Running \in Nat \ {0}
    /\ Hold \in Nat \ {0}
    /\ MaxTime \in Nat
    /\ None \notin Sessions /\ None \notin Orders

Capacity == Cardinality(Seats)

\* An order holds at most one ticket per seat, so a ticket is named by both.
Tickets == Orders \X Seats

VARIABLES
    clock,
    sessionStatus,   \* [Sessions -> SessionStatuses]
    startTime,       \* [Sessions -> Nat]
    availableSeats,  \* [Sessions -> Nat]: the stored counter
    orderStatus,     \* [Orders -> OrderStatuses or "none"]: the stored aggregate
    orderSession,    \* [Orders -> Sessions or None]
    expiresAt,       \* [Orders -> Nat]: expires_at of the order and its tickets
    ticketStatus,    \* [Tickets -> TicketStatuses or "none"]
    checkedIn,       \* tickets whose checked_in_at is set
    req              \* [Workers -> the local state of the request being served]

sessionVars == <<sessionStatus, startTime, availableSeats>>
orderVars   == <<orderStatus, orderSession, expiresAt>>
ticketVars  == <<ticketStatus, checkedIn>>
vars == <<clock, sessionVars, orderVars, ticketVars, req>>

(***************************************************************************)
(* Local state of a request.  now: the time it captured; target: the order *)
(* or session it works on across steps; op: what it will do with the order *)
(* it opened; seen: the order status it read; derived: the aggregate it is *)
(* about to write; admits: its entry decision.                             *)
(***************************************************************************)
PCs == {"idle", "arrived", "begun", "review", "opened", "reread", "synced",
        "loaded", "built", "editing"}

IdleRequest ==
    [pc |-> "idle", now |-> 0, target |-> None, op |-> "none",
     seen |-> "none", derived |-> "none", admits |-> FALSE]

Requests ==
    [pc : PCs, now : Nat, target : Sessions \cup Orders \cup {None},
     op : {"none", "view", "checkin"}, seen : OrderStatuses \cup {"none"},
     derived : OrderStatuses \cup {"none"}, admits : BOOLEAN]

\* The payment outcomes that release a pending order.
ReleaseOutcomes == {"failed", "cancelled", "expired"}

TypeOK ==
    /\ clock \in Nat
    /\ sessionStatus \in [Sessions -> SessionStatuses]
    /\ startTime \in [Sessions -> Nat]
    /\ availableSeats \in [Sessions -> 0 .. Capacity]
    /\ orderStatus \in [Orders -> OrderStatuses \cup {"none"}]
    /\ orderSession \in [Orders -> Sessions \cup {None}]
    /\ expiresAt \in [Orders -> Nat]
    /\ ticketStatus \in [Tickets -> TicketStatuses \cup {"none"}]
    /\ checkedIn \subseteq Tickets
    /\ req \in [Workers -> Requests]

Init ==
    /\ clock = 0
    /\ sessionStatus = [ses \in Sessions |-> "scheduled"]
    /\ startTime \in [Sessions -> StartTimes]
    /\ availableSeats = [ses \in Sessions |-> Capacity]
    /\ orderStatus = [o \in Orders |-> "none"]
    /\ orderSession = [o \in Orders |-> None]
    /\ expiresAt = [o \in Orders |-> 0]
    /\ ticketStatus = [t \in Tickets |-> "none"]
    /\ checkedIn = {}
    /\ req = [w \in Workers |-> IdleRequest]

-----------------------------------------------------------------------------
(***************************************************************************)
(* Queries over a ticket collection ts.                                    *)
(***************************************************************************)

TicketsOf(ts, o) == {t \in Tickets : t[1] = o /\ ts[t] # "none"}

WithStatus(ts, T, S) == {t \in T : ts[t] \in S}

SessionTickets(ses) == {t \in Tickets : orderSession[t[1]] = ses}

\* The tickets that occupy a seat of session ses.
Blocking(ts, ses) == WithStatus(ts, SessionTickets(ses), BlockingStatuses)

\* A bug that sweeps the whole hall on behalf of one session.
StaleHoldsAnywhere(ses, now) ==
    {t \in WithStatus(ticketStatus, Tickets, {"reserved"}) : expiresAt[t[1]] <= now}

\* A bug at the boundary: a hold that ends now is not over yet.
StaleHoldsLate(ses, now) ==
    {t \in WithStatus(ticketStatus, SessionTickets(ses), {"reserved"}) :
        expiresAt[t[1]] < now}

\* list_expired_reserved_by_session: holds that have elapsed at time `now`.
StaleHolds(ses, now) ==
    {t \in WithStatus(ticketStatus, SessionTickets(ses), {"reserved"}) :
        expiresAt[t[1]] <= now}

OwnersOf(T) == {t[1] : t \in T}

\* update_many: the tickets of T take status st.
Mark(ts, T, st) == [t \in Tickets |-> IF t \in T THEN st ELSE ts[t]]

\* A bug that refreshes the aggregate without reading the tickets again.
RefreshFromOldTickets(os, ts, O) ==
    [o \in Orders |->
        IF o \in O THEN AggregateStatus(os[o], {ticketStatus[t] : t \in TicketsOf(ts, o)})
                   ELSE os[o]]

\* refresh_order_aggregate for each order of O, from the tickets in ts.
Refresh(os, ts, O) ==
    [o \in Orders |->
        IF o \in O THEN AggregateStatus(os[o], {ts[t] : t \in TicketsOf(ts, o)})
                   ELSE os[o]]

\* increment_available_seats: refused when the counter would exceed the hall.
CanRestore(ses, n) == availableSeats[ses] + n <= Capacity

Restore(ses, n) == [availableSeats EXCEPT ![ses] = @ + n]

\* A bug that completes a session when it starts.
CompletedAtStart(now, starts) ==
    [ses \in Sessions |->
        IF sessionStatus[ses] = "scheduled" /\ starts[ses] <= now
        THEN "completed" ELSE sessionStatus[ses]]

\* sync_completed_sessions: the session statuses once ended sessions complete.
CompletedBy(now, starts) ==
    [ses \in Sessions |->
        IF sessionStatus[ses] = "scheduled" /\ starts[ses] + Running <= now
        THEN "completed" ELSE sessionStatus[ses]]

-----------------------------------------------------------------------------
(***************************************************************************)
(* The life of a request.                                                  *)
(***************************************************************************)

Tick ==
    /\ clock < MaxTime
    /\ clock' = clock + 1
    /\ UNCHANGED <<sessionVars, orderVars, ticketVars, req>>

\* A request arrives, or a customer cancellation goes on to read the order
\* back: either way the handler captures the time here, once.
Arrive(w) ==
    /\ req[w].pc \in {"idle", "review"}
    /\ req' = [req EXCEPT ![w].pc = "arrived", ![w].now = clock]
    /\ UNCHANGED <<clock, sessionVars, orderVars, ticketVars>>

\* Every handler but the payment webhook first completes ended sessions.
SyncCompleted(w) ==
    /\ req[w].pc = "arrived"
    /\ sessionStatus' = CompletedBy(req[w].now, startTime)
    /\ req' = [req EXCEPT ![w].pc = "begun"]
    /\ UNCHANGED <<clock, startTime, availableSeats, orderVars, ticketVars>>

\* The response is sent, the request is rejected, or the process serving it
\* dies: nothing it has not written yet is ever written.
EndRequest(w) ==
    /\ req[w].pc # "idle"
    /\ req' = [req EXCEPT ![w] = IdleRequest]
    /\ UNCHANGED <<clock, sessionVars, orderVars, ticketVars>>

\* w serves a new request and has completed the ended sessions.
Ready(w) == req[w].pc = "begun" /\ req[w].target = None

\* w serves a webhook: it has captured the time and nothing else.
AtWebhook(w) == req[w].pc = "arrived" /\ req[w].target = None

Finished(w) == req' = [req EXCEPT ![w] = IdleRequest]

-----------------------------------------------------------------------------
(***************************************************************************)
(* Expiry of elapsed holds (commands/reservation_expiry.py): the tickets   *)
(* expire, their seats return to the counter, their orders are refreshed.  *)
(* The same transaction step opens purchases, cancellations and views.     *)
(***************************************************************************)

ExpiredTickets(ses, now) == Mark(ticketStatus, StaleHolds(ses, now), "expired")

ExpiredOrders(ses, now) ==
    Refresh(orderStatus, ExpiredTickets(ses, now), OwnersOf(StaleHolds(ses, now)))

\* A bug that returns one seat per expiry run, however many holds it expired.
ExpiredSeatsOnce(ses, now) ==
    IF StaleHolds(ses, now) = {} THEN availableSeats ELSE Restore(ses, 1)

ExpiredSeats(ses, now) == Restore(ses, Cardinality(StaleHolds(ses, now)))

\* The expiry transaction of session ses at time `now`, as a state change.
ReleaseStaleHolds(ses, now) ==
    /\ CanRestore(ses, Cardinality(StaleHolds(ses, now)))
    /\ ticketStatus' = ExpiredTickets(ses, now)
    /\ availableSeats' = ExpiredSeats(ses, now)
    /\ orderStatus' = ExpiredOrders(ses, now)

\* sync_expired_reservations_for_session, called from the schedule, the seat
\* map and the ticket and order lists; a handler may go on to other sessions.
ExpireHolds(w, ses) ==
    /\ Ready(w)
    /\ StaleHolds(ses, req[w].now) # {}
    /\ ReleaseStaleHolds(ses, req[w].now)
    /\ UNCHANGED <<clock, sessionStatus, startTime, orderSession, expiresAt,
                   checkedIn, req>>

-----------------------------------------------------------------------------
(***************************************************************************)
(* Placing an order (commands/order_purchase.py).                          *)
(***************************************************************************)

\* A bug that sells seats of any session that has not started.
PurchasableFuture(ses, now, free, n) == startTime[ses] > now /\ free >= n

\* _get_purchase_blocker and the guard of the seat decrement agree on this.
Purchasable(ses, now, free, n) ==
    /\ sessionStatus[ses] = "scheduled"
    /\ startTime[ses] > now
    /\ free >= n

\* A bug that asks only whether a seat has been paid for.
SeatsFreeUnlessSold(ts, ses, S) ==
    \A t \in Blocking(ts, ses) : t[2] \in S => ts[t] # "purchased"

\* find_by_session_and_seat finds no blocking ticket for any seat of S; the
\* unique partial index on (session, row, number) says the same at insertion.
SeatsFree(ts, ses, S) == \A t \in Blocking(ts, ses) : t[2] \notin S

\* A customer reserves the seats S: elapsed holds expire, the session and
\* each seat are checked, then the counter, the order and its tickets are
\* written in the same transaction.
Purchase(w, o, ses, S) ==
    LET now  == req[w].now
        free == ExpiredSeats(ses, now)
    IN  /\ Ready(w)
        /\ orderStatus[o] = "none"
        /\ S # {}
        /\ CanRestore(ses, Cardinality(StaleHolds(ses, now)))
        /\ Purchasable(ses, now, free[ses], Cardinality(S))
        /\ SeatsFree(ExpiredTickets(ses, now), ses, S)
        /\ availableSeats' = [free EXCEPT ![ses] = @ - Cardinality(S)]
        /\ orderStatus' = [ExpiredOrders(ses, now) EXCEPT ![o] = "pending_payment"]
        /\ orderSession' = [orderSession EXCEPT ![o] = ses]
        /\ expiresAt' = [expiresAt EXCEPT ![o] = now + Hold]
        /\ ticketStatus' = Mark(ExpiredTickets(ses, now), {o} \X S, "reserved")
        /\ Finished(w)
        /\ UNCHANGED <<clock, sessionStatus, startTime, checkedIn>>

-----------------------------------------------------------------------------
(***************************************************************************)
(* The two ends of a payment, as the webhook transaction applies them to   *)
(* the booking (services/payment.py).                                      *)
(***************************************************************************)

\* A bug that sells whatever part of the order is still reserved.
FinalizablePart(o, now) ==
    /\ orderStatus[o] = "pending_payment"
    /\ expiresAt[o] > now
    /\ CompletedBy(now, startTime)[orderSession[o]] = "scheduled"
    /\ startTime[orderSession[o]] > now

\* The checks of _finalize_transaction.  When one fails the whole
\* transaction is rolled back, the expiry it may have run included.
Finalizable(o, now) ==
    /\ orderStatus[o] = "pending_payment"
    /\ expiresAt[o] > now
    /\ CompletedBy(now, startTime)[orderSession[o]] = "scheduled"
    /\ startTime[orderSession[o]] > now
    /\ \A t \in TicketsOf(ticketStatus, o) : ticketStatus[t] = "reserved"

\* A successful payment sells the reserved tickets of order o.
Finalize(w, o) ==
    LET now  == req[w].now
        held == WithStatus(ticketStatus, TicketsOf(ticketStatus, o), {"reserved"})
        sold == Mark(ticketStatus, held, "purchased")
    IN  /\ AtWebhook(w)
        /\ Finalizable(o, now)
        /\ sessionStatus' = CompletedBy(now, startTime)
        /\ ticketStatus' = sold
        /\ orderStatus' = Refresh(orderStatus, sold, {o})
        /\ Finished(w)
        /\ UNCHANGED <<clock, startTime, availableSeats, orderSession,
                       expiresAt, checkedIn>>

\* A bug that stores the payment's outcome as the ticket's status.
ReleasedAsOutcome(outcome) == outcome

ReleasedTicketStatus(outcome) ==
    IF outcome = "cancelled" THEN "cancelled" ELSE "expired"

ReleasedOrderStatus(outcome) ==
    CASE outcome = "failed"    -> "payment_failed"
      [] outcome = "cancelled" -> "payment_cancelled"
      [] outcome = "expired"   -> "expired"

\* A payment that fails, is cancelled or expires releases a pending order;
\* the refreshed aggregate is then overwritten with the reason.
Release(w, o, outcome) ==
    LET held == WithStatus(ticketStatus, TicketsOf(ticketStatus, o), {"reserved"})
        ses  == orderSession[o]
    IN  /\ AtWebhook(w)
        /\ orderStatus[o] = "pending_payment"
        /\ held # {}
        /\ CanRestore(ses, Cardinality(held))
        /\ ticketStatus' = Mark(ticketStatus, held, ReleasedTicketStatus(outcome))
        /\ availableSeats' = Restore(ses, Cardinality(held))
        /\ orderStatus' = [orderStatus EXCEPT ![o] = ReleasedOrderStatus(outcome)]
        /\ Finished(w)
        /\ UNCHANGED <<clock, sessionStatus, startTime, orderSession, expiresAt,
                       checkedIn>>

-----------------------------------------------------------------------------
(***************************************************************************)
(* Cancellations (commands/order_cancellation.py, ticket_cancellation.py,  *)
(* session_cancellation.py).                                               *)
(***************************************************************************)

\* A bug that cancels tickets of a guest who is already in the hall.
CancellableUnchecked(T, ses, now) ==
    /\ sessionStatus[ses] \in {"scheduled", "cancelled"}
    /\ startTime[ses] > now

\* The blockers shared by order and ticket cancellation, for the tickets T.
Cancellable(T, ses, now) ==
    /\ T \cap checkedIn = {}
    /\ sessionStatus[ses] \in {"scheduled", "cancelled"}
    /\ startTime[ses] > now

\* The owner or an administrator cancels what is left of an order.  Elapsed
\* holds of the session expire in the same transaction.  The customer's
\* handler then opens the order afresh; the administrator's builds the view
\* from the order document the transaction returned.
CancelOrder(w, o, actor) ==
    LET now    == req[w].now
        ses    == orderSession[o]
        before == ExpiredTickets(ses, now)
        free   == ExpiredSeats(ses, now)
        active == WithStatus(before, TicketsOf(before, o), BlockingStatuses)
        after  == Mark(before, active, "cancelled")
        orders == Refresh(ExpiredOrders(ses, now), after, {o})
    IN  /\ Ready(w)
        /\ orderStatus[o] # "none"
        /\ active # {}
        /\ Cancellable(active, ses, now)
        /\ free[ses] + Cardinality(active) <= Capacity
        /\ ticketStatus' = after
        /\ availableSeats' = [free EXCEPT ![ses] = @ + Cardinality(active)]
        /\ orderStatus' = orders
        /\ req' = [req EXCEPT ![w] =
                     IF actor = "customer"
                     THEN [IdleRequest EXCEPT !.pc = "review", !.target = o]
                     ELSE [IdleRequest EXCEPT !.pc = "synced", !.now = clock,
                             !.target = o, !.op = "view", !.seen = orders[o]]]
        /\ UNCHANGED <<clock, sessionStatus, startTime, orderSession, expiresAt,
                       checkedIn>>

\* A bug that refuses only tickets that were cancelled before.
NotCancelled(t) == ticketStatus[t] \notin {"none", "cancelled"}

\* Only a held or a sold ticket can be cancelled.
Active(t) == ticketStatus[t] \in BlockingStatuses

\* One ticket is cancelled.  An elapsed hold is refused: the expiry run for
\* it is rolled back with the transaction.
CancelTicket(w, t) ==
    LET now   == req[w].now
        ses   == orderSession[t[1]]
        after == Mark(ticketStatus, {t}, "cancelled")
    IN  /\ Ready(w)
        /\ Active(t)
        /\ ticketStatus[t] = "reserved" => expiresAt[t[1]] > now
        /\ Cancellable({t}, ses, now)
        /\ CanRestore(ses, 1)
        /\ ticketStatus' = after
        /\ availableSeats' = Restore(ses, 1)
        /\ orderStatus' = Refresh(orderStatus, after, {t[1]})
        /\ Finished(w)
        /\ UNCHANGED <<clock, sessionStatus, startTime, orderSession, expiresAt,
                       checkedIn>>

\* A bug whose cascade reaches paid tickets only.
CascadeSold(ses) == WithStatus(ticketStatus, SessionTickets(ses), {"purchased"})

\* The tickets a session cancellation cancels: elapsed holds are among them.
Cascade(ses) == Blocking(ticketStatus, ses)

\* An administrator cancels a future session with all its active tickets.
CancelSession(w, ses) ==
    LET after == Mark(ticketStatus, Cascade(ses), "cancelled")
    IN  /\ Ready(w)
        /\ sessionStatus[ses] = "scheduled"
        /\ startTime[ses] > req[w].now
        /\ Cascade(ses) \cap checkedIn = {}
        /\ CanRestore(ses, Cardinality(Cascade(ses)))
        /\ sessionStatus' = [sessionStatus EXCEPT ![ses] = "cancelled"]
        /\ ticketStatus' = after
        /\ availableSeats' = Restore(ses, Cardinality(Cascade(ses)))
        /\ orderStatus' = Refresh(orderStatus, after, OwnersOf(Cascade(ses)))
        /\ Finished(w)
        /\ UNCHANGED <<clock, startTime, orderSession, expiresAt, checkedIn>>

-----------------------------------------------------------------------------
(***************************************************************************)
(* Editing and deleting a session (services/admin.py).                     *)
(***************************************************************************)

\* update_session, first half: elapsed holds expire, then the session must
\* be a future one with every seat free.  Nothing protects that reading.
CheckEditable(w, ses) ==
    /\ Ready(w)
    /\ sessionStatus[ses] = "scheduled"
    /\ startTime[ses] > req[w].now
    /\ ReleaseStaleHolds(ses, req[w].now)
    /\ availableSeats'[ses] = Capacity
    /\ Blocking(ticketStatus', ses) = {}
    /\ req' = [req EXCEPT ![w].pc = "editing", ![w].target = ses]
    /\ UNCHANGED <<clock, sessionStatus, startTime, orderSession, expiresAt,
                   checkedIn>>

\* A bug that trusts the reading made before the slot was validated.
EditableAsRead(ses, now) == TRUE

\* The filter of update_session_if_editable.
Editable(ses, now) ==
    /\ sessionStatus[ses] = "scheduled"
    /\ startTime[ses] > now
    /\ availableSeats[ses] = Capacity

\* update_session, second half: one guarded document update, not in a
\* transaction, then another completion of ended sessions.
MoveSession(w, start) ==
    LET now == req[w].now
        ses == req[w].target
    IN  /\ req[w].pc = "editing"
        /\ start > now
        /\ Editable(ses, now)
        /\ startTime' = [startTime EXCEPT ![ses] = start]
        /\ sessionStatus' = CompletedBy(now, startTime')
        /\ Finished(w)
        /\ UNCHANGED <<clock, availableSeats, orderVars, ticketVars>>

\* A bug that deletes a session as soon as no seat of it is taken.
DeletableWhenEmpty(ses) == Blocking(ticketStatus, ses) = {}

\* Only a session for which no ticket was ever stored may be deleted.
Deletable(ses) ==
    \A t \in SessionTickets(ses) : ticketStatus[t] = "none"

DeleteSession(w, ses) ==
    /\ Ready(w)
    /\ sessionStatus[ses] # "deleted"
    /\ Deletable(ses)
    /\ sessionStatus' = [CompletedBy(req[w].now, startTime) EXCEPT ![ses] = "deleted"]
    /\ Finished(w)
    /\ UNCHANGED <<clock, startTime, availableSeats, orderVars, ticketVars>>

-----------------------------------------------------------------------------
(***************************************************************************)
(* Reading an order and checking it in (services/order.py).  Nothing here  *)
(* is a transaction but the expiry of elapsed holds.                       *)
(***************************************************************************)

\* The handler reads the order document.
OpenOrder(w, o, op) ==
    /\ req[w].pc = "begun"
    /\ \/ req[w].target = None
       \/ req[w].target = o /\ op = "view"
    /\ orderStatus[o] # "none"
    /\ req' = [req EXCEPT ![w] = [@ EXCEPT !.pc = "opened", !.target = o,
                                           !.op = op, !.seen = orderStatus[o]]]
    /\ UNCHANGED <<clock, sessionVars, orderVars, ticketVars>>

\* Elapsed holds of the order's session expire; only if there were any does
\* the handler read the order again.
SyncHolds(w) ==
    LET ses == orderSession[req[w].target]
        now == req[w].now
    IN  /\ req[w].pc = "opened"
        /\ IF StaleHolds(ses, now) = {}
           THEN /\ req' = [req EXCEPT ![w].pc = "synced"]
                /\ UNCHANGED <<availableSeats, orderStatus, ticketStatus>>
           ELSE /\ ReleaseStaleHolds(ses, now)
                /\ req' = [req EXCEPT ![w].pc = "reread"]
        /\ UNCHANGED <<clock, sessionStatus, startTime, orderSession, expiresAt,
                       checkedIn>>

ReadBack(w) ==
    /\ req[w].pc = "reread"
    /\ req' = [req EXCEPT ![w].pc = "synced",
                          ![w].seen = orderStatus[req[w].target]]
    /\ UNCHANGED <<clock, sessionVars, orderVars, ticketVars>>

\* The tickets of order o that a guest may still enter with.
Admissible(o) ==
    WithStatus(ticketStatus, TicketsOf(ticketStatus, o), {"purchased"}) \ checkedIn

\* _get_order_validity, for an order whose normalised status is `status`.
AdmitsEntry(o, status, now) ==
    /\ status \in {"completed", "partially_cancelled"}
    /\ sessionStatus[orderSession[o]] = "scheduled"
    /\ startTime[orderSession[o]] > now
    /\ Admissible(o) # {}

\* What is left to do once the view is built: only an admitted check-in goes on.
Built(r) ==
    IF r.op = "checkin" /\ r.admits
    THEN [r EXCEPT !.pc = "built", !.seen = "none", !.derived = "none"]
    ELSE IdleRequest

\* The handler reads the session and the tickets and derives the aggregate
\* from them and from the order document it has had all along.  Of what it
\* read, only the aggregate and the entry decision are used from here on.
LoadTickets(w) ==
    LET o      == req[w].target
        status == AggregateStatus(req[w].seen,
                     {ticketStatus[t] : t \in TicketsOf(ticketStatus, o)})
        admits == req[w].op = "checkin" /\ AdmitsEntry(o, status, req[w].now)
        loaded == [req[w] EXCEPT !.pc = "loaded", !.derived = status,
                      !.now = 0, !.seen = "none", !.admits = admits]
    IN  /\ req[w].pc = "synced"
        /\ req' = [req EXCEPT ![w] =
                     IF status = req[w].seen THEN Built(loaded) ELSE loaded]
        /\ UNCHANGED <<clock, sessionVars, orderVars, ticketVars>>

\* _synchronize_order_aggregate: the derived status is written over whatever
\* the order document holds by now.
WriteAggregate(w) ==
    /\ req[w].pc = "loaded"
    /\ orderStatus' = [orderStatus EXCEPT ![req[w].target] = req[w].derived]
    /\ req' = [req EXCEPT ![w] = Built(@)]
    /\ UNCHANGED <<clock, sessionVars, orderSession, expiresAt, ticketVars>>

\* The filter of check_in_many_by_order, as the update finds the tickets.
CheckInTargets(o) == Admissible(o)

\* One update_many outside a transaction; the order is then read back and
\* its view built again.
CheckIn(w) ==
    LET o == req[w].target
    IN  /\ req[w].pc = "built"
        /\ CheckInTargets(o) # {}
        /\ checkedIn' = checkedIn \cup CheckInTargets(o)
        /\ req' = [req EXCEPT ![w] = [@ EXCEPT !.pc = "reread", !.op = "view",
                                               !.admits = FALSE]]
        /\ UNCHANGED <<clock, sessionVars, orderVars, ticketStatus>>

-----------------------------------------------------------------------------
Next ==
    \/ Tick
    \/ \E w \in Workers :
        \/ Arrive(w)
        \/ SyncCompleted(w)
        \/ EndRequest(w)
        \/ \E ses \in Sessions :
            \/ ExpireHolds(w, ses)
            \/ CancelSession(w, ses)
            \/ CheckEditable(w, ses)
            \/ DeleteSession(w, ses)
            \/ \E o \in Orders, S \in SUBSET Seats : Purchase(w, o, ses, S)
        \/ \E start \in StartTimes : MoveSession(w, start)
        \/ \E t \in Tickets : CancelTicket(w, t)
        \/ \E o \in Orders :
            \/ Finalize(w, o)
            \/ \E outcome \in ReleaseOutcomes : Release(w, o, outcome)
            \/ \E actor \in {"customer", "admin"} : CancelOrder(w, o, actor)
            \/ \E op \in {"view", "checkin"} : OpenOrder(w, o, op)
        \/ SyncHolds(w)
        \/ ReadBack(w)
        \/ LoadTickets(w)
        \/ WriteAggregate(w)
        \/ CheckIn(w)

Spec == Init /\ [][Next]_vars

(***************************************************************************)
(* There is no background worker: a hold is released only by a request     *)
(* that comes by.  The fairness says that such requests keep coming to     *)
(* every server task, that a task that serves one eventually finishes, and *)
(* that, again and again, one of them looks at the session's holds.        *)
(***************************************************************************)
Fairness ==
    \A w \in Workers :
        /\ WF_vars(Arrive(w))
        /\ WF_vars(EndRequest(w))
        /\ SF_vars(SyncCompleted(w))
        /\ \A ses \in Sessions : SF_vars(ExpireHolds(w, ses))

FairSpec == Spec /\ Fairness

-----------------------------------------------------------------------------
(***************************************************************************)
(* Safety.                                                                 *)
(***************************************************************************)

\* The stored seat counter of every session is exactly the hall minus the
\* reserved and purchased tickets of that session: no interleaving of
\* purchases, expiries, cancellations and webhooks leaks or invents a seat.
SeatCounterExact ==
    \A ses \in Sessions :
        availableSeats[ses] = Capacity - Cardinality(Blocking(ticketStatus, ses))

\* No seat of a session is held or sold to two orders at once.
NoDoubleBooking ==
    \A ses \in Sessions : \A t, u \in Blocking(ticketStatus, ses) :
        t[2] = u[2] => t = u

\* A cancelled or deleted session has no reserved or purchased ticket left:
\* nobody keeps paying for, or holding a seat in, a screening that is off.
CancelledSessionEmpty ==
    \A ses \in Sessions :
        sessionStatus[ses] \in {"cancelled", "deleted"}
            => Blocking(ticketStatus, ses) = {}

\* A guest who was let in keeps a purchased ticket, although check-in is an
\* unprotected update that races the cancellation of the same tickets.
CheckedInHonoured == \A t \in checkedIn : ticketStatus[t] = "purchased"

\* An order is stored as pending exactly while some ticket of it is held, in
\* spite of the unguarded aggregate writes of the read path.
PendingIffHeld ==
    \A o \in Orders :
        orderStatus[o] = "pending_payment"
            <=> \E s \in Seats : ticketStatus[<<o, s>>] = "reserved"

\* An order with a purchased ticket is stored with a status that admits its
\* guests, whichever stale aggregate was written last.
SoldOrderAdmits ==
    \A o \in Orders :
        (\E s \in Seats : ticketStatus[<<o, s>>] = "purchased")
            => orderStatus[o] \in {"completed", "partially_cancelled"}

\* The session of an order is never deleted, so no order loses its view.
OrdersKeepTheirSession ==
    \A o \in Orders :
        orderStatus[o] # "none"
            => orderSession[o] \in Sessions /\ sessionStatus[orderSession[o]] # "deleted"

\* A session is completed only when it has really ended, although requests
\* with an old clock complete sessions that others are moving.
CompletedIsOver ==
    \A ses \in Sessions :
        sessionStatus[ses] = "completed" => startTime[ses] + Running <= clock

(***************************************************************************)
(* What a step may never do.                                               *)
(***************************************************************************)

\* A session somebody holds or bought a seat for is never moved to another
\* time, although the editor's check and its update are separate steps.
SoldSessionNotMoved ==
    [][\A ses \in Sessions :
          startTime'[ses] # startTime[ses] => Blocking(ticketStatus, ses) = {}]_vars

\* A released ticket stays released and an order that left "pending" never
\* becomes pending again: no late webhook, retry or stale aggregate write
\* revives a hold on a seat that may be somebody else's by now.
ReleasedForGood ==
    [][/\ \A t \in Tickets :
            ticketStatus[t] \in {"cancelled", "expired"} => ticketStatus'[t] = ticketStatus[t]
       /\ \A o \in Orders :
            orderStatus[o] \notin {"none", "pending_payment"}
                => orderStatus'[o] # "pending_payment"]_vars

\* The tickets whose seats a step takes away from their orders.
SeatsLost == {t \in Tickets : /\ ticketStatus[t] \in BlockingStatuses
                              /\ ticketStatus'[t] \notin BlockingStatuses}

Elapsed(t) == ticketStatus[t] = "reserved" /\ clock >= expiresAt[t[1]]

\* A step that takes seats away stays within one session: no other session's
\* counter, status or ticket moves with them.  And it takes them from one
\* order: the seats of a second one go only as holds that have elapsed or with
\* a session that is cancelled.  So a cascade, an expiry or a cancellation run
\* for one customer or screening never costs another one a seat.
OthersKept ==
    /\ \A t \in SeatsLost : \A ses \in Sessions \ {orderSession[t[1]]} :
          /\ availableSeats'[ses] = availableSeats[ses]
          /\ sessionStatus'[ses] = sessionStatus[ses]
          /\ \A u \in SessionTickets(ses) : ticketStatus'[u] = ticketStatus[u]
    /\ \A t, u \in SeatsLost : t[1] # u[1] =>
          \/ Elapsed(t) \/ Elapsed(u)
          \/ sessionStatus'[orderSession[t[1]]] = "cancelled"

OthersKeepTheirSeats == [][OthersKept]_vars

(***************************************************************************)
(* Liveness.                                                               *)
(***************************************************************************)

\* A hold that has elapsed does not block its seat for ever, as long as
\* requests keep coming.
HoldsReleased == \A t \in Tickets : Elapsed(t) ~> ticketStatus[t] # "reserved"

(***************************************************************************)
(* What the repository says and the code does not keep.                    *)
(***************************************************************************)

Quiescent == \A w \in Workers : req[w].pc = "idle"

\* _synchronize_order_aggregate promises to "Keep stored order aggregate
\* fields aligned with nested tickets": with no request in flight, the stored
\* status is the one its tickets imply.
AggregateAligned ==
    Quiescent =>
        \A o \in Orders :
            orderStatus[o] # "none" =>
                orderStatus[o] = AggregateStatus(orderStatus[o],
                    {ticketStatus[t] : t \in TicketsOf(ticketStatus, o)})

\* The aggregate refresh "preserves payment release statuses": an order
\* released by a failed or cancelled payment keeps telling so.
ReleaseReasonKept ==
    [][\A o \in Orders :
          orderStatus[o] \in PaymentReleaseStatuses => orderStatus'[o] = orderStatus[o]]_vars

=============================================================================

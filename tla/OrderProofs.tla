---------------------------- MODULE OrderProofs ----------------------------
(***************************************************************************)
(* The life of an order, for any number of orders, seats, sessions and     *)
(* requests: its stored status fits its tickets as far as anybody relies   *)
(* on, although views write it without a guard; what was released stays    *)
(* released; its session stays; who was let in keeps the ticket; and no    *)
(* session is completed before its end.                                    *)
(*                                                                         *)
(* Every step moves each order in one of six ways (OrderStep).  The        *)
(* invariant Life is preserved by each of them.                            *)
(***************************************************************************)
EXTENDS BookingProofs

\* The statuses of the stored tickets of order p.
StatusesOf(ts, p) == {ts[t] : t \in TicketsOf(ts, p)}

(***************************************************************************)
(* What a step may make of an order: ts and os are the tickets and orders  *)
(* it leaves behind.                                                       *)
(***************************************************************************)

Keeps(p, ts, os) ==
    /\ os[p] = orderStatus[p]
    /\ \A s \in Seats : ts[<<p, s>>] = ticketStatus[<<p, s>>]

\* The ticket gives its seat back; not that of a guest who was let in.
GivenUp(t, ts) ==
    /\ ticketStatus[t] \in BlockingStatuses
    /\ ts[t] \in {"cancelled", "expired"}
    /\ ticketStatus[t] = "purchased" => t \notin checkedIn

GivesUp(p, ts, os) ==
    /\ orderStatus[p] # "none"
    /\ \A s \in Seats : ts[<<p, s>>] = ticketStatus[<<p, s>>] \/ GivenUp(<<p, s>>, ts)
    /\ \E current : os[p] = AggregateStatus(current, StatusesOf(ts, p))

\* A payment released what the order held.
IsReleased(p, ts, os) ==
    /\ orderStatus[p] = "pending_payment"
    /\ \A s \in Seats :
          IF ticketStatus[<<p, s>>] = "reserved" THEN ts[<<p, s>>] \in {"cancelled", "expired"}
          ELSE ts[<<p, s>>] = ticketStatus[<<p, s>>]
    /\ os[p] \in PaymentReleaseStatuses \cup {"expired"}
    /\ os[p] = "expired" =>
          \A s \in Seats : ticketStatus[<<p, s>>] = "reserved" => ts[<<p, s>>] = "expired"

IsSold(p, ts, os) ==
    /\ orderStatus[p] = "pending_payment"
    /\ \A s \in Seats :
          \/ ticketStatus[<<p, s>>] = "none" /\ ts[<<p, s>>] = "none"
          \/ ticketStatus[<<p, s>>] = "reserved" /\ ts[<<p, s>>] = "purchased"
    /\ \E current : os[p] = AggregateStatus(current, StatusesOf(ts, p))

IsPlaced(p, ts, os) ==
    /\ orderStatus[p] = "none" /\ os[p] = "pending_payment"
    /\ \A s \in Seats : ts[<<p, s>>] \in {"none", "reserved"}
    /\ \E s \in Seats : ts[<<p, s>>] = "reserved"

\* A view wrote the aggregate it had derived.
IsOverwritten(p, ts, os) ==
    /\ \E w \in Workers :
          req[w].pc = "loaded" /\ req[w].target = p /\ os[p] = req[w].derived
    /\ \A s \in Seats : ts[<<p, s>>] = ticketStatus[<<p, s>>]

OrderStep(p, ts, os) ==
    \/ Keeps(p, ts, os) \/ GivesUp(p, ts, os) \/ IsReleased(p, ts, os)
    \/ IsSold(p, ts, os) \/ IsPlaced(p, ts, os) \/ IsOverwritten(p, ts, os)

OrdersStep == \A p \in Orders : OrderStep(p, ticketStatus', orderStatus')

-----------------------------------------------------------------------------
(***************************************************************************)
(* Every step is an OrderStep of each order.                               *)
(***************************************************************************)

\* Which statuses an order's tickets have, seat by seat.
LEMMA StatusesBySeat ==
    ASSUME NEW p \in Orders, NEW ts, NEW x
    PROVE  x \in StatusesOf(ts, p) <=> x # "none" /\ \E s \in Seats : ts[<<p, s>>] = x
<1>1. ASSUME x \in StatusesOf(ts, p)
      PROVE  x # "none" /\ \E s \in Seats : ts[<<p, s>>] = x
  <2>1. PICK t \in TicketsOf(ts, p) : ts[t] = x
    BY <1>1 DEF StatusesOf
  <2>2. PICK o \in Orders, s \in Seats : t = <<o, s>>
    BY <2>1 DEF TicketsOf, Tickets
  <2>. QED  BY <2>1, <2>2 DEF TicketsOf
<1>2. ASSUME x # "none", NEW s \in Seats, ts[<<p, s>>] = x
      PROVE  x \in StatusesOf(ts, p)
  <2>1. <<p, s>> \in TicketsOf(ts, p)
    BY <1>2 DEF TicketsOf, Tickets
  <2>. QED  BY <1>2, <2>1 DEF StatusesOf
<1>. QED  BY <1>1, <1>2

LEMMA SameStatuses ==
    ASSUME NEW p \in Orders, NEW ts, NEW us, \A s \in Seats : ts[<<p, s>>] = us[<<p, s>>]
    PROVE  StatusesOf(ts, p) = StatusesOf(us, p)
<1>1. \A x : x \in StatusesOf(ts, p) <=> x \in StatusesOf(us, p)
  BY StatusesBySeat
<1>. QED  BY <1>1

\* Marking tickets, read seat by seat.
LEMMA MarkedSeat ==
    ASSUME NEW p \in Orders, NEW s \in Seats, NEW ts, NEW T, NEW st
    PROVE  Mark(ts, T, st)[<<p, s>>] = IF <<p, s>> \in T THEN st ELSE ts[<<p, s>>]
BY DEF Mark, Tickets

LEMMA RefreshedOrder ==
    ASSUME NEW p \in Orders, NEW os, NEW ts, NEW O
    PROVE  Refresh(os, ts, O)[p] = IF p \in O THEN AggregateStatus(os[p], StatusesOf(ts, p))
                                   ELSE os[p]
BY DEF Refresh, StatusesOf

\* The expiry of elapsed holds, alone or at the head of a transaction.
LEMMA ExpiryMoves ==
    ASSUME IInv, NEW ses \in Sessions, NEW now, NEW p \in Orders
    PROVE  \/ Keeps(p, ExpiredTickets(ses, now), ExpiredOrders(ses, now))
           \/ GivesUp(p, ExpiredTickets(ses, now), ExpiredOrders(ses, now))
<1>. DEFINE T == StaleHolds(ses, now)
            ts == ExpiredTickets(ses, now)
            os == ExpiredOrders(ses, now)
<1>1. \A t \in T : t \in Tickets /\ ticketStatus[t] = "reserved" /\ t[1] \in OwnersOf(T)
  BY DEF StaleHolds, WithStatus, SessionTickets, OwnersOf
<1>2. \A s \in Seats : ts[<<p, s>>] = IF <<p, s>> \in T THEN "expired" ELSE ticketStatus[<<p, s>>]
  BY MarkedSeat DEF ExpiredTickets
<1>3. os[p] = IF p \in OwnersOf(T) THEN AggregateStatus(orderStatus[p], StatusesOf(ts, p))
              ELSE orderStatus[p]
  BY RefreshedOrder DEF ExpiredOrders
<1>4. CASE p \in OwnersOf(T)
  <2>1. PICK t \in T : t[1] = p
    BY <1>4 DEF OwnersOf
  <2>2. orderStatus[p] # "none"
    BY <1>1, <2>1, TicketsArePlaced DEF IInv, Placed
  <2>3. \A s \in Seats : ts[<<p, s>>] = ticketStatus[<<p, s>>] \/ GivenUp(<<p, s>>, ts)
    BY <1>1, <1>2 DEF GivenUp, BlockingStatuses
  <2>. HIDE DEF ts, os, T
  <2>. QED  BY <1>3, <1>4, <2>2, <2>3 DEF GivesUp, ts, os
<1>5. CASE p \notin OwnersOf(T)
  <2>1. \A s \in Seats : <<p, s>> \notin T
    BY <1>1, <1>5
  <2>. QED  BY <1>2, <1>3, <1>5, <2>1 DEF Keeps
<1>. QED  BY <1>4, <1>5

\* How an order moves depends on its own seats only.
LEMMA MovesAlike ==
    ASSUME NEW p \in Orders, NEW ts, NEW us, NEW os, NEW ps,
           \A s \in Seats : ts[<<p, s>>] = us[<<p, s>>], os[p] = ps[p],
           Keeps(p, us, ps) \/ GivesUp(p, us, ps)
    PROVE  Keeps(p, ts, os) \/ GivesUp(p, ts, os)
<1>1. StatusesOf(ts, p) = StatusesOf(us, p)
  BY SameStatuses
<1>. QED  BY <1>1 DEF Keeps, GivesUp, GivenUp

LEMMA ExpiryOrders ==
    ASSUME IInv, NEW w \in Workers,
           \/ \E ses \in Sessions : ExpireHolds(w, ses) \/ CheckEditable(w, ses)
           \/ SyncHolds(w)
    PROVE  OrdersStep
<1>1. \/ UNCHANGED <<ticketStatus, orderStatus>>
      \/ \E ses \in Sessions : ReleaseStaleHolds(ses, req[w].now)
  <2>1. CASE SyncHolds(w)
    <3>1. orderSession[req[w].target] \in Sessions
      BY <2>1 DEF SyncHolds, IInv, OrdersPlaced, Placed, RequestsAnchored, Anchored
    <3>. QED  BY <2>1, <3>1 DEF SyncHolds
  <2>. QED  BY <2>1 DEF ExpireHolds, CheckEditable
<1>2. CASE UNCHANGED <<ticketStatus, orderStatus>>
  BY <1>2 DEF OrdersStep, OrderStep, Keeps
<1>3. ASSUME NEW ses \in Sessions, ReleaseStaleHolds(ses, req[w].now)
      PROVE  OrdersStep
  BY <1>3, ExpiryMoves DEF ReleaseStaleHolds, OrdersStep, OrderStep
<1>. QED  BY <1>1, <1>2, <1>3

LEMMA CancelTicketOrders ==
    ASSUME IInv, NEW w \in Workers, NEW t \in Tickets, CancelTicket(w, t)
    PROVE  OrdersStep
<1>. SUFFICES ASSUME NEW p \in Orders
              PROVE  OrderStep(p, ticketStatus', orderStatus')
  BY DEF OrdersStep
<1>1. /\ ticketStatus' = Mark(ticketStatus, {t}, "cancelled")
      /\ orderStatus' = Refresh(orderStatus, ticketStatus', {t[1]})
      /\ ticketStatus[t] \in BlockingStatuses /\ t \notin checkedIn
  BY DEF CancelTicket, Active, Cancellable
<1>2. \A s \in Seats :
         ticketStatus'[<<p, s>>] = IF <<p, s>> = t THEN "cancelled" ELSE ticketStatus[<<p, s>>]
  BY <1>1, MarkedSeat
<1>3. orderStatus'[p] = IF p = t[1] THEN AggregateStatus(orderStatus[p], StatusesOf(ticketStatus', p))
                        ELSE orderStatus[p]
  BY <1>1, RefreshedOrder
<1>4. CASE p = t[1]
  <2>1. orderStatus[p] # "none"
    BY <1>1, <1>4, TicketsArePlaced DEF IInv, Placed, BlockingStatuses
  <2>2. \A s \in Seats : ticketStatus'[<<p, s>>] = ticketStatus[<<p, s>>]
                            \/ GivenUp(<<p, s>>, ticketStatus')
    BY <1>1, <1>2 DEF GivenUp
  <2>. QED  BY <1>3, <1>4, <2>1, <2>2 DEF OrderStep, GivesUp
<1>5. CASE p # t[1]
  BY <1>2, <1>3, <1>5 DEF OrderStep, Keeps
<1>. QED  BY <1>4, <1>5

LEMMA CancelSessionOrders ==
    ASSUME IInv, NEW w \in Workers, NEW ses \in Sessions, CancelSession(w, ses)
    PROVE  OrdersStep
<1>. SUFFICES ASSUME NEW p \in Orders
              PROVE  OrderStep(p, ticketStatus', orderStatus')
  BY DEF OrdersStep
<1>. DEFINE T == Cascade(ses)
<1>1. /\ ticketStatus' = Mark(ticketStatus, T, "cancelled")
      /\ orderStatus' = Refresh(orderStatus, ticketStatus', OwnersOf(T))
      /\ T \cap checkedIn = {}
  BY DEF CancelSession
<1>2. \A t \in T : t \in Tickets /\ ticketStatus[t] \in BlockingStatuses
  BY DEF Cascade, Blocking, WithStatus, SessionTickets
<1>. HIDE DEF T
<1>3. \A s \in Seats :
         ticketStatus'[<<p, s>>] = IF <<p, s>> \in T THEN "cancelled" ELSE ticketStatus[<<p, s>>]
  BY <1>1, MarkedSeat
<1>4. orderStatus'[p] = IF p \in OwnersOf(T) THEN AggregateStatus(orderStatus[p], StatusesOf(ticketStatus', p))
                        ELSE orderStatus[p]
  BY <1>1, RefreshedOrder
<1>5. CASE p \in OwnersOf(T)
  <2>1. PICK t \in T : t[1] = p
    BY <1>5 DEF OwnersOf
  <2>2. orderStatus[p] # "none"
    BY <1>2, <2>1, TicketsArePlaced DEF IInv, Placed, BlockingStatuses
  <2>3. \A s \in Seats : ticketStatus'[<<p, s>>] = ticketStatus[<<p, s>>]
                            \/ GivenUp(<<p, s>>, ticketStatus')
    BY <1>1, <1>2, <1>3 DEF GivenUp
  <2>. QED  BY <1>4, <1>5, <2>2, <2>3 DEF OrderStep, GivesUp
<1>6. CASE p \notin OwnersOf(T)
  <2>1. \A s \in Seats : <<p, s>> \notin T
    BY <1>6 DEF OwnersOf
  <2>. QED  BY <1>3, <1>4, <1>6, <2>1 DEF OrderStep, Keeps
<1>. QED  BY <1>5, <1>6

LEMMA CancelOrderOrders ==
    ASSUME IInv, NEW w \in Workers, NEW o \in Orders, NEW actor \in {"customer", "admin"},
           CancelOrder(w, o, actor)
    PROVE  OrdersStep
<1>. SUFFICES ASSUME NEW p \in Orders
              PROVE  OrderStep(p, ticketStatus', orderStatus')
  BY DEF OrdersStep
<1>. DEFINE now    == req[w].now
            ses    == orderSession[o]
            before == ExpiredTickets(ses, now)
            early  == ExpiredOrders(ses, now)
            active == WithStatus(before, TicketsOf(before, o), BlockingStatuses)
<1>1. orderStatus[o] # "none" /\ ses \in Sessions
  BY DEF CancelOrder, IInv, OrdersPlaced
<1>2. /\ ticketStatus' = Mark(before, active, "cancelled")
      /\ orderStatus' = Refresh(early, ticketStatus', {o})
      /\ active \cap checkedIn = {}
  BY DEF CancelOrder, Cancellable
<1>3. \A t \in active : t[1] = o /\ before[t] \in BlockingStatuses
  BY DEF WithStatus, TicketsOf
<1>4. Keeps(p, before, early) \/ GivesUp(p, before, early)
  BY <1>1, ExpiryMoves
<1>. HIDE DEF active, before, early, ses
<1>5. \A s \in Seats :
         ticketStatus'[<<p, s>>] = IF <<p, s>> \in active THEN "cancelled" ELSE before[<<p, s>>]
  BY <1>2, MarkedSeat
<1>6. orderStatus'[p] = IF p = o THEN AggregateStatus(early[p], StatusesOf(ticketStatus', p))
                        ELSE early[p]
  BY <1>2, RefreshedOrder
<1>7. CASE p = o
  <2>1. \A s \in Seats : \/ before[<<p, s>>] = ticketStatus[<<p, s>>]
                         \/ GivenUp(<<p, s>>, before)
    BY <1>4 DEF Keeps, GivesUp
  <2>2. \A s \in Seats : ticketStatus'[<<p, s>>] = ticketStatus[<<p, s>>]
                            \/ GivenUp(<<p, s>>, ticketStatus')
    BY <1>2, <1>3, <1>5, <2>1 DEF GivenUp, BlockingStatuses
  <2>. QED  BY <1>1, <1>6, <1>7, <2>2 DEF OrderStep, GivesUp
<1>8. CASE p # o
  <2>1. \A s \in Seats : ticketStatus'[<<p, s>>] = before[<<p, s>>]
    BY <1>3, <1>5, <1>8
  <2>. QED  BY <1>4, <1>6, <1>8, <2>1, MovesAlike DEF OrderStep
<1>. QED  BY <1>7, <1>8

\* Which of an order's seats a payment acts on: those it still holds.
LEMMA HeldSeats ==
    ASSUME NEW p \in Orders, NEW o \in Orders, NEW s \in Seats
    PROVE  <<p, s>> \in WithStatus(ticketStatus, TicketsOf(ticketStatus, o), {"reserved"})
             <=> p = o /\ ticketStatus[<<p, s>>] = "reserved"
BY DEF WithStatus, TicketsOf, Tickets

LEMMA ReleaseOrders ==
    ASSUME IInv, NEW w \in Workers, NEW o \in Orders, NEW outcome \in ReleaseOutcomes,
           Release(w, o, outcome)
    PROVE  OrdersStep
<1>. SUFFICES ASSUME NEW p \in Orders
              PROVE  OrderStep(p, ticketStatus', orderStatus')
  BY DEF OrdersStep
<1>. DEFINE held == WithStatus(ticketStatus, TicketsOf(ticketStatus, o), {"reserved"})
            st   == ReleasedTicketStatus(outcome)
<1>1. /\ orderStatus[o] = "pending_payment"
      /\ ticketStatus' = Mark(ticketStatus, held, st)
      /\ orderStatus' = [orderStatus EXCEPT ![o] = ReleasedOrderStatus(outcome)]
  BY DEF Release
<1>2. /\ st \in {"cancelled", "expired"}
      /\ ReleasedOrderStatus(outcome) \in PaymentReleaseStatuses \cup {"expired"}
      /\ ReleasedOrderStatus(outcome) = "expired" => st = "expired"
  BY DEF ReleaseOutcomes, ReleasedTicketStatus, ReleasedOrderStatus, PaymentReleaseStatuses
<1>. HIDE DEF st
<1>3. \A s \in Seats :
         ticketStatus'[<<p, s>>] = IF p = o /\ ticketStatus[<<p, s>>] = "reserved" THEN st
                                   ELSE ticketStatus[<<p, s>>]
  <2>. HIDE DEF held
  <2>1. \A s \in Seats :
           ticketStatus'[<<p, s>>] = IF <<p, s>> \in held THEN st ELSE ticketStatus[<<p, s>>]
    BY <1>1, MarkedSeat
  <2>. QED  BY <2>1, HeldSeats DEF held
<1>4. orderStatus'[p] = IF p = o THEN ReleasedOrderStatus(outcome) ELSE orderStatus[p]
  BY <1>1 DEF IInv, TypeOK
<1>. QED  BY <1>1, <1>2, <1>3, <1>4 DEF OrderStep, IsReleased, Keeps

LEMMA FinalizeOrders ==
    ASSUME IInv, NEW w \in Workers, NEW o \in Orders, Finalize(w, o)
    PROVE  OrdersStep
<1>. SUFFICES ASSUME NEW p \in Orders
              PROVE  OrderStep(p, ticketStatus', orderStatus')
  BY DEF OrdersStep
<1>. DEFINE held == WithStatus(ticketStatus, TicketsOf(ticketStatus, o), {"reserved"})
<1>1. /\ orderStatus[o] = "pending_payment"
      /\ \A t \in TicketsOf(ticketStatus, o) : ticketStatus[t] = "reserved"
      /\ ticketStatus' = Mark(ticketStatus, held, "purchased")
      /\ orderStatus' = Refresh(orderStatus, ticketStatus', {o})
  BY DEF Finalize, Finalizable
<1>2. \A s \in Seats : ticketStatus[<<o, s>>] \in {"none", "reserved"}
  BY <1>1 DEF TicketsOf, Tickets
<1>3. \A s \in Seats :
         ticketStatus'[<<p, s>>] = IF p = o /\ ticketStatus[<<p, s>>] = "reserved" THEN "purchased"
                                   ELSE ticketStatus[<<p, s>>]
  <2>. HIDE DEF held
  <2>1. \A s \in Seats :
           ticketStatus'[<<p, s>>] = IF <<p, s>> \in held THEN "purchased" ELSE ticketStatus[<<p, s>>]
    BY <1>1, MarkedSeat
  <2>. QED  BY <2>1, HeldSeats DEF held
<1>4. orderStatus'[p] = IF p = o THEN AggregateStatus(orderStatus[p], StatusesOf(ticketStatus', p))
                        ELSE orderStatus[p]
  BY <1>1, RefreshedOrder
<1>5. CASE p = o
  BY <1>1, <1>2, <1>3, <1>4, <1>5 DEF OrderStep, IsSold
<1>6. CASE p # o
  BY <1>3, <1>4, <1>6 DEF OrderStep, Keeps
<1>. QED  BY <1>5, <1>6

LEMMA PurchaseOrders ==
    ASSUME IInv, NEW w \in Workers, NEW o \in Orders, NEW ses \in Sessions,
           NEW S \in SUBSET Seats, Purchase(w, o, ses, S)
    PROVE  OrdersStep
<1>. SUFFICES ASSUME NEW p \in Orders
              PROVE  OrderStep(p, ticketStatus', orderStatus')
  BY DEF OrdersStep
<1>. DEFINE before == ExpiredTickets(ses, req[w].now)
            early  == ExpiredOrders(ses, req[w].now)
<1>1. /\ orderStatus[o] = "none" /\ S # {}
      /\ ticketStatus' = Mark(before, {o} \X S, "reserved")
      /\ orderStatus' = [early EXCEPT ![o] = "pending_payment"]
  BY DEF Purchase
<1>2. /\ early \in [Orders -> OrderStatuses \cup {"none"}]
      /\ \A t \in Tickets : before[t] = "none" <=> ticketStatus[t] = "none"
  BY ExpiryKeepsPlaced DEF IInv
<1>3. Keeps(p, before, early) \/ GivesUp(p, before, early)
  BY ExpiryMoves
<1>. HIDE DEF before, early
<1>4. \A s \in Seats :
         ticketStatus'[<<p, s>>] = IF p = o /\ s \in S THEN "reserved" ELSE before[<<p, s>>]
  <2>1. \A s \in Seats : <<p, s>> \in {o} \X S <=> p = o /\ s \in S
    OBVIOUS
  <2>. QED  BY <1>1, <2>1, MarkedSeat
<1>5. orderStatus'[p] = IF p = o THEN "pending_payment" ELSE early[p]
  BY <1>1, <1>2
<1>6. CASE p = o
  <2>1. \A s \in Seats : <<o, s>> \in Tickets /\ ticketStatus[<<o, s>>] = "none"
    BY <1>1 DEF IInv, OrdersPlaced, Tickets
  <2>2. PICK s \in Seats : s \in S
    BY <1>1
  <2>. QED  BY <1>1, <1>2, <1>4, <1>5, <1>6, <2>1, <2>2 DEF OrderStep, IsPlaced
<1>7. CASE p # o
  <2>1. Keeps(p, ticketStatus', orderStatus') \/ GivesUp(p, ticketStatus', orderStatus')
    BY <1>3, <1>4, <1>5, <1>7, MovesAlike
  <2>. QED  BY <2>1 DEF OrderStep
<1>. QED  BY <1>6, <1>7

LEMMA OverwritingOrders ==
    ASSUME IInv, NEW w \in Workers, WriteAggregate(w)
    PROVE  OrdersStep
BY DEF WriteAggregate, ticketVars, OrdersStep, OrderStep, IsOverwritten, Keeps, IInv, TypeOK

\* The steps that write neither an order's status nor a ticket's.
LEMMA UntouchedOrders ==
    ASSUME \/ Tick \/ UNCHANGED vars
           \/ \E w \in Workers :
                \/ Arrive(w) \/ SyncCompleted(w) \/ EndRequest(w)
                \/ ReadBack(w) \/ LoadTickets(w) \/ CheckIn(w)
                \/ \E start \in StartTimes : MoveSession(w, start)
                \/ \E ses \in Sessions : DeleteSession(w, ses)
                \/ \E o \in Orders, op \in {"view", "checkin"} : OpenOrder(w, o, op)
    PROVE  UNCHANGED <<orderStatus, ticketStatus>> /\ OrdersStep
<1>1. UNCHANGED <<orderStatus, ticketStatus>>
  BY DEF Tick, vars, Arrive, SyncCompleted, EndRequest, ReadBack, LoadTickets, CheckIn,
         MoveSession, DeleteSession, OpenOrder, orderVars, ticketVars
<1>. QED  BY <1>1 DEF OrdersStep, OrderStep, Keeps

LEMMA NextOrders == IInv /\ [Next]_vars => OrdersStep
<1>. SUFFICES ASSUME IInv, [Next]_vars PROVE OrdersStep
  OBVIOUS
<1>1. CASE UNCHANGED vars \/ Tick
  BY <1>1, UntouchedOrders
<1>2. ASSUME NEW w \in Workers,
             \/ Arrive(w) \/ SyncCompleted(w) \/ EndRequest(w)
             \/ ReadBack(w) \/ LoadTickets(w) \/ CheckIn(w)
             \/ \E start \in StartTimes : MoveSession(w, start)
             \/ \E ses \in Sessions : DeleteSession(w, ses)
             \/ \E o \in Orders, op \in {"view", "checkin"} : OpenOrder(w, o, op)
      PROVE  OrdersStep
  BY <1>2, UntouchedOrders
<1>3. ASSUME NEW w \in Workers,
             \/ \E ses \in Sessions : ExpireHolds(w, ses) \/ CheckEditable(w, ses)
             \/ SyncHolds(w)
      PROVE  OrdersStep
  BY <1>3, ExpiryOrders
<1>4. ASSUME NEW w \in Workers, \E ses \in Sessions : CancelSession(w, ses)
      PROVE  OrdersStep
  BY <1>4, CancelSessionOrders
<1>5. ASSUME NEW w \in Workers, NEW ses \in Sessions, NEW o \in Orders,
             NEW S \in SUBSET Seats, Purchase(w, o, ses, S)
      PROVE  OrdersStep
  BY <1>5, PurchaseOrders
<1>6. ASSUME NEW w \in Workers, \E t \in Tickets : CancelTicket(w, t)
      PROVE  OrdersStep
  BY <1>6, CancelTicketOrders
<1>7. ASSUME NEW w \in Workers, NEW o \in Orders,
             \/ Finalize(w, o)
             \/ \E outcome \in ReleaseOutcomes : Release(w, o, outcome)
             \/ \E actor \in {"customer", "admin"} : CancelOrder(w, o, actor)
      PROVE  OrdersStep
  BY <1>7, FinalizeOrders, ReleaseOrders, CancelOrderOrders
<1>8. ASSUME NEW w \in Workers, WriteAggregate(w)
      PROVE  OrdersStep
  BY <1>8, OverwritingOrders
<1>. QED
  BY <1>1, <1>2, <1>3, <1>4, <1>5, <1>6, <1>7, <1>8 DEF Next

-----------------------------------------------------------------------------
(***************************************************************************)
(* The status of an order fits its tickets, and so does every aggregate a  *)
(* view is still going to write.                                           *)
(***************************************************************************)

Has(ts, p, st) == \E s \in Seats : ts[<<p, s>>] = st

\* Status st fits the tickets of order p as far as anybody relies on.
Fits(st, ts, p) ==
    /\ st = "pending_payment" <=> Has(ts, p, "reserved")
    /\ Has(ts, p, "purchased") => st \in {"completed", "partially_cancelled"}
    /\ st # "none" => \E s \in Seats : ts[<<p, s>>] # "none"

StoredFits == \A p \in Orders : Fits(orderStatus[p], ticketStatus, p)

\* What a view has read of its order is still good enough: an order that was
\* not pending when it was read holds no seat, and a derived aggregate fits
\* the tickets and does not make the order pending.
Reading(r, ts) ==
    /\ r.pc \in {"opened", "synced"} /\ r.seen # "pending_payment"
          => ~ Has(ts, r.target, "reserved")
    /\ r.pc = "loaded"
          => r.derived # "pending_payment" /\ Fits(r.derived, ts, r.target)

ReadingsFit == \A w \in Workers : Reading(req[w], ticketStatus)

Life ==
    /\ IInv
    /\ StoredFits
    /\ ReadingsFit
    /\ CheckedInHonoured

\* An aggregate fits the tickets it is derived from, whatever the order's
\* status was, unless some are held and others sold.
LEMMA AggregateFits ==
    ASSUME NEW p \in Orders, NEW ts, NEW current,
           \A s \in Seats : ts[<<p, s>>] \in TicketStatuses \cup {"none"},
           \E s \in Seats : ts[<<p, s>>] # "none",
           ~ (Has(ts, p, "reserved") /\ Has(ts, p, "purchased"))
    PROVE  Fits(AggregateStatus(current, StatusesOf(ts, p)), ts, p)
<1>. DEFINE S == StatusesOf(ts, p)
<1>1. /\ "reserved" \in S <=> Has(ts, p, "reserved")
      /\ "purchased" \in S <=> Has(ts, p, "purchased")
      /\ \E x \in TicketStatuses : x \in S
  BY StatusesBySeat DEF Has
<1>. HIDE DEF S
<1>2. ~ ("reserved" \in S /\ "purchased" \in S)
  BY <1>1
<1>3. /\ AggregateStatus(current, S) = "pending_payment" <=> "reserved" \in S
      /\ "purchased" \in S => AggregateStatus(current, S) \in {"completed", "partially_cancelled"}
  BY <1>1, <1>2 DEF AggregateStatus, DerivedStatus, PaymentReleaseStatuses, TicketStatuses
<1>. QED  BY <1>1, <1>3 DEF Fits, S

\* Every way an order moves keeps its status fitting.
LEMMA FitsCarriesOver ==
    ASSUME Life, NEW p \in Orders, NEW ts, NEW os, OrderStep(p, ts, os),
           \A s \in Seats : ts[<<p, s>>] \in TicketStatuses \cup {"none"}
    PROVE  Fits(os[p], ts, p)
<1>1. Fits(orderStatus[p], ticketStatus, p)
  BY DEF Life, StoredFits
<1>2. ~ (Has(ticketStatus, p, "reserved") /\ Has(ticketStatus, p, "purchased"))
  BY <1>1 DEF Fits
<1>3. CASE Keeps(p, ts, os)
  BY <1>1, <1>3 DEF Keeps, Fits, Has
<1>4. CASE GivesUp(p, ts, os)
  <2>1. \E s \in Seats : ts[<<p, s>>] # "none"
    <3>1. PICK s \in Seats : ticketStatus[<<p, s>>] # "none"
      BY <1>1, <1>4 DEF Fits, GivesUp
    <3>. QED  BY <1>4, <3>1 DEF GivesUp, GivenUp
  <2>2. /\ Has(ts, p, "reserved") => Has(ticketStatus, p, "reserved")
        /\ Has(ts, p, "purchased") => Has(ticketStatus, p, "purchased")
    BY <1>4 DEF GivesUp, GivenUp, Has
  <2>. QED  BY <1>2, <1>4, <2>1, <2>2, AggregateFits DEF GivesUp
<1>5. CASE IsReleased(p, ts, os)
  <2>1. PICK s \in Seats : ticketStatus[<<p, s>>] = "reserved"
    BY <1>1, <1>5 DEF IsReleased, Fits, Has
  <2>2. ts[<<p, s>>] # "none" /\ ~ Has(ts, p, "reserved") /\ ~ Has(ts, p, "purchased")
    BY <1>2, <1>5, <2>1 DEF IsReleased, Has
  <2>. QED  BY <1>5, <2>2 DEF IsReleased, Fits, PaymentReleaseStatuses
<1>6. CASE IsSold(p, ts, os)
  <2>1. PICK s \in Seats : ticketStatus[<<p, s>>] = "reserved"
    BY <1>1, <1>6 DEF IsSold, Fits, Has
  <2>2. ts[<<p, s>>] # "none" /\ ~ Has(ts, p, "reserved")
    BY <1>6, <2>1 DEF IsSold, Has
  <2>. QED  BY <1>6, <2>2, AggregateFits DEF IsSold
<1>7. CASE IsPlaced(p, ts, os)
  BY <1>7 DEF IsPlaced, Fits, Has
<1>8. CASE IsOverwritten(p, ts, os)
  BY <1>8 DEF IsOverwritten, Life, ReadingsFit, Reading, Fits, Has
<1>. QED  BY <1>3, <1>4, <1>5, <1>6, <1>7, <1>8 DEF OrderStep

\* An order that holds no seat never holds one again.
LEMMA NeverHeldAgain ==
    ASSUME Life, NEW p \in Orders, NEW ts, NEW os, OrderStep(p, ts, os),
           orderStatus[p] # "none", ~ Has(ticketStatus, p, "reserved")
    PROVE  /\ Keeps(p, ts, os) \/ GivesUp(p, ts, os) \/ IsOverwritten(p, ts, os)
           /\ ~ Has(ts, p, "reserved")
<1>1. orderStatus[p] # "pending_payment"
  BY DEF Life, StoredFits, Fits
<1>. QED  BY <1>1 DEF OrderStep, IsReleased, IsSold, IsPlaced, Has, Keeps, GivesUp,
                      GivenUp, IsOverwritten

\* What a view has read stays good enough while its order moves.
LEMMA ReadingCarriesOver ==
    ASSUME Life, NEW r \in Requests, Anchored(Placed, r), Reading(r, ticketStatus),
           NEW ts, NEW os, \A p \in Orders : OrderStep(p, ts, os)
    PROVE  Reading(r, ts)
<1>. DEFINE p == r.target
<1>1. CASE r.pc \in {"opened", "synced"} /\ r.seen # "pending_payment"
  <2>1. p \in Orders /\ orderStatus[p] # "none" /\ ~ Has(ticketStatus, p, "reserved")
    BY <1>1 DEF Anchored, Placed, Reading
  <2>. QED  BY <1>1, <2>1, NeverHeldAgain DEF Reading
<1>2. CASE r.pc = "loaded"
  <2>1. p \in Orders /\ orderStatus[p] # "none" /\ r.derived \in OrderStatuses
    BY <1>2 DEF Anchored, Placed
  <2>2. r.derived # "pending_payment" /\ Fits(r.derived, ticketStatus, p)
    BY <1>2 DEF Reading
  <2>3. ~ Has(ticketStatus, p, "reserved")
    BY <2>2 DEF Fits
  <2>4. /\ Keeps(p, ts, os) \/ GivesUp(p, ts, os) \/ IsOverwritten(p, ts, os)
        /\ ~ Has(ts, p, "reserved")
    BY <2>1, <2>3, NeverHeldAgain
  <2>5. /\ Has(ts, p, "purchased") => Has(ticketStatus, p, "purchased")
        /\ \A s \in Seats : ticketStatus[<<p, s>>] # "none" => ts[<<p, s>>] # "none"
    BY <2>4 DEF Keeps, GivesUp, GivenUp, IsOverwritten, Has
  <2>. QED  BY <1>2, <2>2, <2>4, <2>5 DEF Reading, Fits
<1>3. CASE ~ (r.pc \in {"opened", "synced"} /\ r.seen # "pending_payment") /\ r.pc # "loaded"
  BY <1>3 DEF Reading
<1>. QED  BY <1>1, <1>2, <1>3

-----------------------------------------------------------------------------
(***************************************************************************)
(* Every step preserves Life.                                              *)
(***************************************************************************)

\* What a step does to the requests: it may change one, and what that one
\* has read fits the tickets the step leaves behind.
ReadsStep ==
    \/ UNCHANGED req
    \/ \E w \in Workers : \E r :
          req' = [req EXCEPT ![w] = r] /\ Reading(r, ticketStatus')

ChecksInStep ==
    \/ UNCHANGED checkedIn
    \/ /\ UNCHANGED ticketStatus
       /\ \A t \in checkedIn' \ checkedIn : ticketStatus[t] = "purchased"

LEMMA LifeCarriesOver ==
    ASSUME Life, IInv', OrdersStep, ReadsStep, ChecksInStep
    PROVE  Life'
<1>1. StoredFits'
  <2>. SUFFICES ASSUME NEW p \in Orders
                PROVE  Fits(orderStatus'[p], ticketStatus', p)
    BY DEF StoredFits, Fits, Has
  <2>1. \A s \in Seats : ticketStatus'[<<p, s>>] \in TicketStatuses \cup {"none"}
    BY DEF IInv, TypeOK, Tickets
  <2>. QED  BY <2>1, FitsCarriesOver DEF OrdersStep
<1>2. ReadingsFit'
  <2>1. \A w \in Workers : Reading(req[w], ticketStatus')
    BY ReadingCarriesOver DEF Life, IInv, TypeOK, RequestsAnchored, ReadingsFit, OrdersStep
  <2>2. req \in [Workers -> Requests]
    BY DEF Life, IInv, TypeOK
  <2>3. \A w \in Workers : Reading(req'[w], ticketStatus')
    BY <2>1, <2>2 DEF ReadsStep
  <2>. QED  BY <2>3 DEF ReadingsFit, Reading, Fits, Has
<1>3. CheckedInHonoured'
  <2>1. ASSUME NEW t \in checkedIn
        PROVE  ticketStatus'[t] = "purchased"
    <3>1. PICK p \in Orders, s \in Seats : t = <<p, s>>
      BY DEF Life, IInv, TypeOK, Tickets
    <3>2. ticketStatus[<<p, s>>] = "purchased"
      BY <3>1 DEF Life, CheckedInHonoured
    <3>3. orderStatus[p] # "none"
      BY <3>2 DEF Life, IInv, OrdersPlaced
    <3>4. OrderStep(p, ticketStatus', orderStatus')
      BY DEF OrdersStep
    <3>. QED  BY <3>1, <3>2, <3>3, <3>4
              DEF OrderStep, Keeps, GivesUp, GivenUp, IsReleased, IsSold, IsPlaced, IsOverwritten
  <2>. QED  BY <2>1 DEF ChecksInStep, CheckedInHonoured
<1>. QED  BY <1>1, <1>2, <1>3 DEF Life

\* The readings of the read path.
LEMMA ReadPathReads ==
    ASSUME Life, NEW w \in Workers,
           \/ SyncHolds(w) \/ ReadBack(w) \/ LoadTickets(w) \/ WriteAggregate(w) \/ CheckIn(w)
           \/ \E o \in Orders, op \in {"view", "checkin"} : OpenOrder(w, o, op)
    PROVE  ReadsStep
<1>0. /\ req \in [Workers -> Requests] /\ req[w] \in Requests
      /\ Reading(req[w], ticketStatus) /\ Anchored(Placed, req[w])
  BY DEF Life, IInv, TypeOK, ReadingsFit, RequestsAnchored
<1>1. ASSUME NEW o \in Orders, NEW op \in {"view", "checkin"}, OpenOrder(w, o, op)
      PROVE  ReadsStep
  <2>. DEFINE r == [req[w] EXCEPT !.pc = "opened", !.target = o, !.op = op,
                                  !.seen = orderStatus[o]]
  <2>1. req' = [req EXCEPT ![w] = r] /\ UNCHANGED ticketStatus
    BY <1>1 DEF OpenOrder, ticketVars
  <2>2. r.pc = "opened" /\ r.target = o /\ r.seen = orderStatus[o]
    BY <1>0 DEF Requests
  <2>3. Reading(r, ticketStatus')
    BY <2>1, <2>2 DEF Life, StoredFits, Fits, Reading
  <2>. QED  BY <2>1, <2>3 DEF ReadsStep
<1>2. CASE SyncHolds(w)
  <2>1. CASE req' = [req EXCEPT ![w].pc = "synced"] /\ UNCHANGED ticketStatus
    <3>. DEFINE r == [req[w] EXCEPT !.pc = "synced"]
    <3>1. req' = [req EXCEPT ![w] = r]
      BY <2>1
    <3>2. r.pc = "synced" /\ r.target = req[w].target /\ r.seen = req[w].seen
      BY <1>0 DEF Requests
    <3>3. req[w].pc = "opened"
      BY <1>2 DEF SyncHolds
    <3>4. Reading(r, ticketStatus')
      BY <1>0, <2>1, <3>2, <3>3 DEF Reading
    <3>. QED  BY <3>1, <3>4 DEF ReadsStep
  <2>2. CASE req' = [req EXCEPT ![w].pc = "reread"]
    <3>. DEFINE r == [req[w] EXCEPT !.pc = "reread"]
    <3>1. req' = [req EXCEPT ![w] = r] /\ r.pc = "reread"
      BY <1>0, <2>2 DEF Requests
    <3>2. Reading(r, ticketStatus')
      BY <3>1 DEF Reading
    <3>. QED  BY <3>1, <3>2 DEF ReadsStep
  <2>. QED  BY <1>2, <2>1, <2>2 DEF SyncHolds
<1>3. CASE ReadBack(w)
  <2>. DEFINE r == [req[w] EXCEPT !.pc = "synced", !.seen = orderStatus[req[w].target]]
  <2>1. req' = [req EXCEPT ![w] = r] /\ UNCHANGED ticketStatus
    BY <1>0, <1>3 DEF ReadBack, ticketVars
  <2>2. /\ r.pc = "synced" /\ r.target = req[w].target
        /\ r.seen = orderStatus[req[w].target]
    BY <1>0 DEF Requests
  <2>3. req[w].target \in Orders
    BY <1>0, <1>3 DEF ReadBack, Anchored, Placed
  <2>4. Reading(r, ticketStatus')
    BY <2>1, <2>2, <2>3 DEF Life, StoredFits, Fits, Reading
  <2>. QED  BY <2>1, <2>4 DEF ReadsStep
<1>4. CASE LoadTickets(w)
  <2>. DEFINE p      == req[w].target
              status == AggregateStatus(req[w].seen, StatusesOf(ticketStatus, p))
              admits == req[w].op = "checkin" /\ AdmitsEntry(p, status, req[w].now)
              loaded == [req[w] EXCEPT !.pc = "loaded", !.derived = status,
                           !.now = 0, !.seen = "none", !.admits = admits]
              r      == IF status = req[w].seen THEN Built(loaded) ELSE loaded
  <2>1. req' = [req EXCEPT ![w] = r] /\ UNCHANGED ticketStatus /\ req[w].pc = "synced"
    BY <1>4 DEF LoadTickets, ticketVars, StatusesOf
  <2>2. p \in Orders /\ orderStatus[p] # "none"
    BY <1>0, <2>1 DEF Anchored, Placed
  <2>3. /\ loaded.pc = "loaded" /\ loaded.target = p /\ loaded.derived = status
        /\ Built(loaded).pc \notin {"opened", "synced", "loaded"}
    <3>. HIDE DEF status, admits
    <3>. QED  BY <1>0 DEF Requests, Built, IdleRequest
  <2>4. Fits(status, ticketStatus, p)
    <3>1. Fits(orderStatus[p], ticketStatus, p)
      BY <2>2 DEF Life, StoredFits
    <3>2. \A s \in Seats : ticketStatus[<<p, s>>] \in TicketStatuses \cup {"none"}
      BY <2>2 DEF Life, IInv, TypeOK, Tickets
    <3>. QED  BY <2>2, <3>1, <3>2, AggregateFits DEF Fits
  <2>5. status # req[w].seen => status # "pending_payment"
    BY <1>0, <2>1, <2>4 DEF Reading, Fits
  <2>6. Reading(r, ticketStatus)
    <3>. HIDE DEF status, loaded
    <3>. QED  BY <2>3, <2>4, <2>5 DEF Reading
  <2>. HIDE DEF r
  <2>. QED  BY <2>1, <2>6 DEF ReadsStep
<1>5. CASE WriteAggregate(w)
  <2>1. req' = [req EXCEPT ![w] = Built(req[w])]
    BY <1>5 DEF WriteAggregate
  <2>2. Built(req[w]).pc \notin {"opened", "synced", "loaded"}
    BY <1>0 DEF Requests, Built, IdleRequest
  <2>. QED  BY <2>1, <2>2 DEF ReadsStep, Reading
<1>6. CASE CheckIn(w)
  <2>. DEFINE r == [req[w] EXCEPT !.pc = "reread", !.op = "view", !.admits = FALSE]
  <2>1. req' = [req EXCEPT ![w] = r] /\ r.pc = "reread"
    BY <1>0, <1>6 DEF CheckIn, Requests
  <2>2. Reading(r, ticketStatus')
    BY <2>1 DEF Reading
  <2>. QED  BY <2>1, <2>2 DEF ReadsStep
<1>. QED  BY <1>1, <1>2, <1>3, <1>4, <1>5, <1>6

\* An administrator's cancellation goes on with the order it wrote.
LEMMA CancelOrderReads ==
    ASSUME Life, IInv', NEW w \in Workers, NEW o \in Orders,
           NEW actor \in {"customer", "admin"}, CancelOrder(w, o, actor)
    PROVE  ReadsStep
<1>. DEFINE ses    == orderSession[o]
            before == ExpiredTickets(ses, req[w].now)
            active == WithStatus(before, TicketsOf(before, o), BlockingStatuses)
            orders == Refresh(ExpiredOrders(ses, req[w].now),
                              Mark(before, active, "cancelled"), {o})
            mine   == [IdleRequest EXCEPT !.pc = "review", !.target = o]
            theirs == [IdleRequest EXCEPT !.pc = "synced", !.now = clock,
                         !.target = o, !.op = "view", !.seen = orders[o]]
<1>1. req' = [req EXCEPT ![w] = IF actor = "customer" THEN mine ELSE theirs]
      /\ orderStatus' = orders
  BY DEF CancelOrder
<1>. HIDE DEF orders
<1>2. OrderStep(o, ticketStatus', orderStatus')
  BY CancelOrderOrders DEF Life, OrdersStep
<1>3. Fits(orderStatus'[o], ticketStatus', o)
  <2>1. \A s \in Seats : ticketStatus'[<<o, s>>] \in TicketStatuses \cup {"none"}
    BY DEF IInv, TypeOK, Tickets
  <2>. QED  BY <1>2, <2>1, FitsCarriesOver
<1>4. /\ mine.pc = "review"
      /\ theirs.pc = "synced" /\ theirs.target = o /\ theirs.seen = orders[o]
  BY DEF IdleRequest
<1>5. Reading(mine, ticketStatus') /\ Reading(theirs, ticketStatus')
  <2>. HIDE DEF mine, theirs
  <2>. QED  BY <1>1, <1>3, <1>4 DEF Reading, Fits
<1>. HIDE DEF mine, theirs
<1>. QED  BY <1>1, <1>5 DEF ReadsStep

\* The other steps leave a request behind that has read nothing it will use.
LEMMA OtherReads ==
    ASSUME Life, NEW w \in Workers,
           \/ Arrive(w) \/ SyncCompleted(w) \/ EndRequest(w)
           \/ \E start \in StartTimes : MoveSession(w, start)
           \/ \E ses \in Sessions : \/ ExpireHolds(w, ses) \/ CancelSession(w, ses)
                                    \/ CheckEditable(w, ses) \/ DeleteSession(w, ses)
                                    \/ \E o \in Orders, S \in SUBSET Seats : Purchase(w, o, ses, S)
           \/ \E t \in Tickets : CancelTicket(w, t)
           \/ \E o \in Orders : \/ Finalize(w, o)
                                \/ \E outcome \in ReleaseOutcomes : Release(w, o, outcome)
    PROVE  ReadsStep
<1>0. req \in [Workers -> Requests] /\ req[w] \in Requests
  BY DEF Life, IInv, TypeOK
<1>1. \/ UNCHANGED req
      \/ Finished(w)
      \/ req' = [req EXCEPT ![w].pc = "arrived", ![w].now = clock]
      \/ req' = [req EXCEPT ![w].pc = "begun"]
      \/ \E ses \in Sessions : req' = [req EXCEPT ![w].pc = "editing", ![w].target = ses]
  BY DEF Arrive, SyncCompleted, EndRequest, MoveSession, ExpireHolds, CancelSession,
         CheckEditable, DeleteSession, Purchase, CancelTicket, Finalize, Release, Finished
<1>2. \A r : r.pc \notin {"opened", "synced", "loaded"} => Reading(r, ticketStatus')
  BY DEF Reading
<1>3. CASE Finished(w)
  BY <1>2, <1>3 DEF Finished, IdleRequest, ReadsStep
<1>4. CASE req' = [req EXCEPT ![w].pc = "arrived", ![w].now = clock]
  <2>. DEFINE r == [req[w] EXCEPT !.pc = "arrived", !.now = clock]
  <2>1. req' = [req EXCEPT ![w] = r] /\ r.pc = "arrived"
    BY <1>0, <1>4 DEF Requests
  <2>. QED  BY <1>2, <2>1 DEF ReadsStep
<1>5. CASE req' = [req EXCEPT ![w].pc = "begun"]
  <2>. DEFINE r == [req[w] EXCEPT !.pc = "begun"]
  <2>1. req' = [req EXCEPT ![w] = r] /\ r.pc = "begun"
    BY <1>0, <1>5 DEF Requests
  <2>. QED  BY <1>2, <2>1 DEF ReadsStep
<1>6. ASSUME NEW ses \in Sessions, req' = [req EXCEPT ![w].pc = "editing", ![w].target = ses]
      PROVE  ReadsStep
  <2>. DEFINE r == [req[w] EXCEPT !.pc = "editing", !.target = ses]
  <2>1. req' = [req EXCEPT ![w] = r] /\ r.pc = "editing"
    BY <1>0, <1>6 DEF Requests
  <2>. QED  BY <1>2, <2>1 DEF ReadsStep
<1>. QED  BY <1>1, <1>3, <1>4, <1>5, <1>6 DEF ReadsStep

\* Only a check-in touches the entries, and it admits paid tickets only.
LEMMA NextChecksIn == [Next]_vars => ChecksInStep
<1>. SUFFICES ASSUME [Next]_vars PROVE ChecksInStep
  OBVIOUS
<1>1. CASE UNCHANGED vars \/ Tick
  BY <1>1 DEF vars, Tick, ticketVars, ChecksInStep
<1>2. ASSUME NEW w \in Workers, CheckIn(w)
      PROVE  ChecksInStep
  BY <1>2 DEF CheckIn, CheckInTargets, Admissible, WithStatus, ChecksInStep
<1>3. ASSUME NEW w \in Workers,
             \/ Arrive(w) \/ SyncCompleted(w) \/ EndRequest(w) \/ SyncHolds(w)
             \/ ReadBack(w) \/ LoadTickets(w) \/ WriteAggregate(w)
             \/ \E start \in StartTimes : MoveSession(w, start)
      PROVE  ChecksInStep
  BY <1>3 DEF Arrive, SyncCompleted, EndRequest, SyncHolds, ReadBack, LoadTickets,
              WriteAggregate, MoveSession, ticketVars, ChecksInStep
<1>4. ASSUME NEW w \in Workers, NEW ses \in Sessions,
             \/ ExpireHolds(w, ses) \/ CancelSession(w, ses)
             \/ CheckEditable(w, ses) \/ DeleteSession(w, ses)
             \/ \E o \in Orders, S \in SUBSET Seats : Purchase(w, o, ses, S)
      PROVE  ChecksInStep
  BY <1>4 DEF ExpireHolds, CancelSession, CheckEditable, DeleteSession, Purchase,
              ticketVars, ChecksInStep
<1>5. ASSUME NEW w \in Workers,
             \/ \E t \in Tickets : CancelTicket(w, t)
             \/ \E o \in Orders :
                   \/ Finalize(w, o)
                   \/ \E outcome \in ReleaseOutcomes : Release(w, o, outcome)
                   \/ \E actor \in {"customer", "admin"} : CancelOrder(w, o, actor)
                   \/ \E op \in {"view", "checkin"} : OpenOrder(w, o, op)
      PROVE  ChecksInStep
  BY <1>5 DEF CancelTicket, Finalize, Release, CancelOrder, OpenOrder, ticketVars, ChecksInStep
<1>. QED  BY <1>1, <1>2, <1>3, <1>4, <1>5 DEF Next

LEMMA InitLife == Init => Life
<1>. SUFFICES ASSUME Init PROVE Life
  OBVIOUS
<1>1. StoredFits
  BY DEF Init, StoredFits, Fits, Has, Tickets
<1>2. ReadingsFit
  BY DEF Init, ReadingsFit, Reading, IdleRequest
<1>. QED  BY <1>1, <1>2, InitIInv DEF Life, CheckedInHonoured, Init

LEMMA NextLife == Life /\ [Next]_vars => Life'
<1>. SUFFICES ASSUME Life, [Next]_vars PROVE Life'
  OBVIOUS
<1>1. IInv' /\ OrdersStep /\ ChecksInStep
  BY NextIInv, NextOrders, NextChecksIn DEF Life
<1>2. ReadsStep
  <2>1. CASE UNCHANGED vars \/ Tick
    BY <2>1 DEF vars, Tick, ReadsStep
  <2>2. ASSUME NEW w \in Workers,
               \/ SyncHolds(w) \/ ReadBack(w) \/ LoadTickets(w) \/ WriteAggregate(w) \/ CheckIn(w)
               \/ \E o \in Orders, op \in {"view", "checkin"} : OpenOrder(w, o, op)
        PROVE  ReadsStep
    BY <2>2, ReadPathReads
  <2>3. ASSUME NEW w \in Workers, NEW o \in Orders,
               \E actor \in {"customer", "admin"} : CancelOrder(w, o, actor)
        PROVE  ReadsStep
    BY <1>1, <2>3, CancelOrderReads
  <2>4. ASSUME NEW w \in Workers,
               \/ Arrive(w) \/ SyncCompleted(w) \/ EndRequest(w)
               \/ \E start \in StartTimes : MoveSession(w, start)
               \/ \E ses \in Sessions : \/ ExpireHolds(w, ses) \/ CancelSession(w, ses)
                                        \/ CheckEditable(w, ses) \/ DeleteSession(w, ses)
                                        \/ \E o \in Orders, S \in SUBSET Seats : Purchase(w, o, ses, S)
               \/ \E t \in Tickets : CancelTicket(w, t)
               \/ \E o \in Orders : \/ Finalize(w, o)
                                    \/ \E outcome \in ReleaseOutcomes : Release(w, o, outcome)
        PROVE  ReadsStep
    BY <2>4, OtherReads
  <2>. QED  BY <2>1, <2>2, <2>3, <2>4 DEF Next
<1>. QED  BY <1>1, <1>2, LifeCarriesOver

LEMMA LifeInvariance == Spec => []Life
BY InitLife, NextLife, PTL DEF Spec

-----------------------------------------------------------------------------
(***************************************************************************)
(* What follows for orders and guests.                                     *)
(***************************************************************************)

\* An order is pending exactly while it holds a seat: the purchase, expiry,
\* payment and cancellation transactions keep it so, and a stale aggregate
\* that a view writes is never "pending" and never hides a held seat.
THEOREM PendingOrdersHoldSeats == Spec => []PendingIffHeld
<1>1. Life => PendingIffHeld
  BY DEF Life, StoredFits, Fits, Has, PendingIffHeld
<1>. QED  BY <1>1, LifeInvariance, PTL

\* An order with a paid seat has a status that admits its guests, whichever
\* view wrote its aggregate last.
THEOREM SoldOrdersAdmit == Spec => []SoldOrderAdmits
<1>1. Life => SoldOrderAdmits
  BY DEF Life, StoredFits, Fits, Has, SoldOrderAdmits
<1>. QED  BY <1>1, LifeInvariance, PTL

\* Who was let in keeps the ticket: no cancellation, expiry or payment that
\* runs beside the check-in takes it away.
THEOREM GuestsKeepTheirTickets == Spec => []CheckedInHonoured
<1>1. Life => CheckedInHonoured
  BY DEF Life
<1>. QED  BY <1>1, LifeInvariance, PTL

\* Neither a late payment nor a stale view brings a released ticket, or an
\* order that is no longer pending, back to life.
THEOREM ReleasedStaysReleased == Spec => ReleasedForGood
<1>1. ASSUME Life, [Next]_vars
      PROVE  /\ \A t \in Tickets :
                  ticketStatus[t] \in {"cancelled", "expired"} => ticketStatus'[t] = ticketStatus[t]
             /\ \A o \in Orders :
                  orderStatus[o] \notin {"none", "pending_payment"}
                      => orderStatus'[o] # "pending_payment"
  <2>1. OrdersStep
    BY <1>1, NextOrders DEF Life
  <2>2. ASSUME NEW t \in Tickets, ticketStatus[t] \in {"cancelled", "expired"}
        PROVE  ticketStatus'[t] = ticketStatus[t]
    <3>1. PICK p \in Orders, s \in Seats : t = <<p, s>>
      BY DEF Tickets
    <3>2. orderStatus[p] # "none"
      BY <1>1, <2>2, <3>1 DEF Life, IInv, OrdersPlaced
    <3>. QED  BY <2>1, <2>2, <3>1, <3>2
              DEF OrdersStep, OrderStep, Keeps, GivesUp, GivenUp, IsReleased, IsSold, IsPlaced,
                  IsOverwritten, BlockingStatuses
  <2>3. ASSUME NEW o \in Orders, orderStatus[o] \notin {"none", "pending_payment"}
        PROVE  orderStatus'[o] # "pending_payment"
    <3>1. OrderStep(o, ticketStatus', orderStatus')
      BY <2>1 DEF OrdersStep
    <3>2. ~ Has(ticketStatus, o, "reserved")
      BY <1>1, <2>3 DEF Life, StoredFits, Fits
    <3>3. ~ Has(ticketStatus', o, "reserved")
      BY <1>1, <2>3, <3>1, <3>2, NeverHeldAgain
    <3>4. \A s \in Seats : ticketStatus'[<<o, s>>] \in TicketStatuses \cup {"none"}
      BY <1>1, NextIInv DEF Life, IInv, TypeOK, Tickets
    <3>5. Fits(orderStatus'[o], ticketStatus', o)
      BY <1>1, <3>1, <3>4, FitsCarriesOver
    <3>. QED  BY <3>3, <3>5 DEF Fits
  <2>. QED  BY <2>2, <2>3
<1>2. Life /\ [Next]_vars =>
         [/\ \A t \in Tickets :
                ticketStatus[t] \in {"cancelled", "expired"} => ticketStatus'[t] = ticketStatus[t]
          /\ \A o \in Orders :
                orderStatus[o] \notin {"none", "pending_payment"}
                    => orderStatus'[o] # "pending_payment"]_vars
  BY <1>1
<1>. QED  BY <1>2, LifeInvariance, PTL DEF Spec, ReleasedForGood

-----------------------------------------------------------------------------
(***************************************************************************)
(* Alignment.  As long as no order changes under a view that has read it,  *)
(* every order is stored with the status its tickets imply, and no view    *)
(* has anything to write.                                                  *)
(***************************************************************************)

AlignedWith(st, ts, p) == st = AggregateStatus(st, StatusesOf(ts, p))

StoredAligned ==
    \A p \in Orders : orderStatus[p] # "none" => AlignedWith(orderStatus[p], ticketStatus, p)

\* A view in progress has seen the status that is stored, and writes nothing.
UpToDate(r, os) ==
    /\ r.pc \in {"opened", "synced"} => r.seen = os[r.target]
    /\ r.pc # "loaded"

ViewsUpToDate == \A w \in Workers : UpToDate(req[w], orderStatus)

Aligned == StoredAligned /\ ViewsUpToDate

\* No order's status changes between the reading of a view and its end.
Undisturbed ==
    \A w \in Workers :
        req[w].pc \in {"opened", "synced"} /\ req'[w] = req[w]
            => orderStatus'[req[w].target] = orderStatus[req[w].target]

\* One request is served at a time.
OneAtATime ==
    \A v, w \in Workers : req[v].pc # "idle" /\ req[w].pc # "idle" => v = w

\* A refreshed aggregate is aligned, whatever was stored before.
LEMMA RefreshedIsAligned ==
    ASSUME NEW p, NEW ts, NEW current
    PROVE  AlignedWith(AggregateStatus(current, StatusesOf(ts, p)), ts, p)
<1>. DEFINE S == StatusesOf(ts, p)
<1>1. DerivedStatus(S) \notin PaymentReleaseStatuses
  <2>. HIDE DEF S
  <2>. QED  BY DEF DerivedStatus, PaymentReleaseStatuses
<1>. HIDE DEF S
<1>. QED  BY <1>1 DEF AlignedWith, AggregateStatus, S

\* An order that moves, other than by a view's writing, ends aligned.
LEMMA AlignmentCarriesOver ==
    ASSUME Life, StoredAligned, ViewsUpToDate, NEW p \in Orders, NEW ts, NEW os,
           OrderStep(p, ts, os), os[p] # "none",
           \A s \in Seats : ts[<<p, s>>] \in TicketStatuses \cup {"none"}
    PROVE  AlignedWith(os[p], ts, p)
<1>1. CASE Keeps(p, ts, os)
  <2>1. StatusesOf(ts, p) = StatusesOf(ticketStatus, p)
    BY <1>1, SameStatuses DEF Keeps
  <2>. QED  BY <1>1, <2>1 DEF Keeps, StoredAligned, AlignedWith
<1>2. CASE GivesUp(p, ts, os) \/ IsSold(p, ts, os)
  BY <1>2, RefreshedIsAligned DEF GivesUp, IsSold
<1>. DEFINE S == StatusesOf(ts, p)
<1>3. \A x : x \in S <=> x # "none" /\ Has(ts, p, x)
  BY StatusesBySeat DEF Has
<1>4. CASE IsReleased(p, ts, os)
  <2>1. Fits(orderStatus[p], ticketStatus, p) /\ orderStatus[p] = "pending_payment"
    BY <1>4 DEF Life, StoredFits, IsReleased
  <2>2. Has(ticketStatus, p, "reserved") /\ ~ Has(ticketStatus, p, "purchased")
    BY <2>1 DEF Fits
  <2>3. ~ Has(ts, p, "reserved") /\ ~ Has(ts, p, "purchased")
    BY <1>4, <2>2 DEF IsReleased, Has
  <2>4. os[p] = "expired" => Has(ts, p, "expired")
    BY <1>4, <2>2 DEF IsReleased, Has
  <2>5. "reserved" \notin S /\ "purchased" \notin S /\ (os[p] = "expired" => "expired" \in S)
    BY <1>3, <2>3, <2>4
  <2>. HIDE DEF S
  <2>6. DerivedStatus(S) \in {"cancelled", "expired"} /\ ("expired" \in S => DerivedStatus(S) = "expired")
    BY <2>5 DEF DerivedStatus
  <2>. QED  BY <1>4, <2>5, <2>6 DEF IsReleased, AlignedWith, AggregateStatus, PaymentReleaseStatuses, S
<1>5. CASE IsPlaced(p, ts, os)
  <2>1. "reserved" \in S
    BY <1>3, <1>5 DEF IsPlaced, Has
  <2>. HIDE DEF S
  <2>2. DerivedStatus(S) = "pending_payment"
    BY <2>1 DEF DerivedStatus
  <2>. QED  BY <1>5, <2>2 DEF IsPlaced, AlignedWith, AggregateStatus, PaymentReleaseStatuses, S
<1>6. ~ IsOverwritten(p, ts, os)
  BY DEF IsOverwritten, ViewsUpToDate, UpToDate
<1>. QED  BY <1>1, <1>2, <1>4, <1>5, <1>6 DEF OrderStep

\* What a step leaves behind in the one request it may change.
FreshStep ==
    \/ UNCHANGED req
    \/ \E w \in Workers : \E r :
          req' = [req EXCEPT ![w] = r] /\ UpToDate(r, orderStatus')

\* The steps of the read path: a view reads what is stored, and derives that.
LEMMA ReadPathFresh ==
    ASSUME Life, Aligned, Undisturbed, NEW w \in Workers,
           \/ SyncHolds(w) \/ ReadBack(w) \/ LoadTickets(w) \/ WriteAggregate(w) \/ CheckIn(w)
           \/ \E o \in Orders, op \in {"view", "checkin"} : OpenOrder(w, o, op)
    PROVE  FreshStep
<1>0. /\ req \in [Workers -> Requests] /\ req[w] \in Requests
      /\ UpToDate(req[w], orderStatus) /\ Anchored(Placed, req[w])
  BY DEF Life, IInv, TypeOK, RequestsAnchored, Aligned, ViewsUpToDate
<1>1. ASSUME NEW o \in Orders, NEW op \in {"view", "checkin"}, OpenOrder(w, o, op)
      PROVE  FreshStep
  <2>. DEFINE r == [req[w] EXCEPT !.pc = "opened", !.target = o, !.op = op,
                                  !.seen = orderStatus[o]]
  <2>1. req' = [req EXCEPT ![w] = r] /\ UNCHANGED orderStatus
    BY <1>1 DEF OpenOrder, orderVars
  <2>2. r.pc = "opened" /\ r.target = o /\ r.seen = orderStatus[o]
    BY <1>0 DEF Requests
  <2>3. UpToDate(r, orderStatus')
    BY <2>1, <2>2 DEF UpToDate
  <2>. QED  BY <2>1, <2>3 DEF FreshStep
<1>2. CASE SyncHolds(w)
  <2>1. CASE req' = [req EXCEPT ![w].pc = "synced"] /\ UNCHANGED orderStatus
    <3>. DEFINE r == [req[w] EXCEPT !.pc = "synced"]
    <3>1. req' = [req EXCEPT ![w] = r] /\ req[w].pc = "opened"
      BY <1>2, <2>1 DEF SyncHolds
    <3>2. r.pc = "synced" /\ r.target = req[w].target /\ r.seen = req[w].seen
      BY <1>0 DEF Requests
    <3>3. UpToDate(r, orderStatus')
      BY <1>0, <2>1, <3>1, <3>2 DEF UpToDate
    <3>. QED  BY <3>1, <3>3 DEF FreshStep
  <2>2. CASE req' = [req EXCEPT ![w].pc = "reread"]
    <3>. DEFINE r == [req[w] EXCEPT !.pc = "reread"]
    <3>1. req' = [req EXCEPT ![w] = r] /\ r.pc = "reread"
      BY <1>0, <2>2 DEF Requests
    <3>2. UpToDate(r, orderStatus')
      BY <3>1 DEF UpToDate
    <3>. QED  BY <3>1, <3>2 DEF FreshStep
  <2>. QED  BY <1>2, <2>1, <2>2 DEF SyncHolds
<1>3. CASE ReadBack(w)
  <2>. DEFINE r == [req[w] EXCEPT !.pc = "synced", !.seen = orderStatus[req[w].target]]
  <2>1. req' = [req EXCEPT ![w] = r] /\ UNCHANGED orderStatus
    BY <1>0, <1>3 DEF ReadBack, orderVars
  <2>2. /\ r.pc = "synced" /\ r.target = req[w].target
        /\ r.seen = orderStatus[req[w].target]
    BY <1>0 DEF Requests
  <2>3. UpToDate(r, orderStatus')
    BY <2>1, <2>2 DEF UpToDate
  <2>. QED  BY <2>1, <2>3 DEF FreshStep
<1>4. CASE LoadTickets(w)
  <2>. DEFINE p      == req[w].target
              status == AggregateStatus(req[w].seen, StatusesOf(ticketStatus, p))
              admits == req[w].op = "checkin" /\ AdmitsEntry(p, status, req[w].now)
              loaded == [req[w] EXCEPT !.pc = "loaded", !.derived = status,
                           !.now = 0, !.seen = "none", !.admits = admits]
              r      == IF status = req[w].seen THEN Built(loaded) ELSE loaded
  <2>1. req' = [req EXCEPT ![w] = r] /\ req[w].pc = "synced"
    BY <1>4 DEF LoadTickets, StatusesOf
  <2>2. p \in Orders /\ orderStatus[p] # "none"
    BY <1>0, <2>1 DEF Anchored, Placed
  <2>3. Built(loaded).pc \notin {"opened", "synced", "loaded"}
    <3>. HIDE DEF status, admits
    <3>. QED  BY <1>0 DEF Requests, Built, IdleRequest
  <2>4. status = req[w].seen
    BY <1>0, <2>1, <2>2 DEF UpToDate, Aligned, StoredAligned, AlignedWith
  <2>5. UpToDate(r, orderStatus')
    <3>. HIDE DEF status, loaded
    <3>. QED  BY <2>3, <2>4 DEF UpToDate
  <2>. HIDE DEF r
  <2>. QED  BY <2>1, <2>5 DEF FreshStep
<1>5. ~ WriteAggregate(w)
  BY <1>0 DEF WriteAggregate, UpToDate
<1>6. CASE CheckIn(w)
  <2>. DEFINE r == [req[w] EXCEPT !.pc = "reread", !.op = "view", !.admits = FALSE]
  <2>1. req' = [req EXCEPT ![w] = r] /\ r.pc = "reread"
    BY <1>0, <1>6 DEF CheckIn, Requests
  <2>2. UpToDate(r, orderStatus')
    BY <2>1 DEF UpToDate
  <2>. QED  BY <2>1, <2>2 DEF FreshStep
<1>. QED  BY <1>1, <1>2, <1>3, <1>4, <1>5, <1>6

\* An administrator's cancellation goes on with the order as it has written it.
LEMMA CancelOrderFresh ==
    ASSUME Life, NEW w \in Workers, NEW o \in Orders,
           NEW actor \in {"customer", "admin"}, CancelOrder(w, o, actor)
    PROVE  FreshStep
<1>. DEFINE ses    == orderSession[o]
            before == ExpiredTickets(ses, req[w].now)
            active == WithStatus(before, TicketsOf(before, o), BlockingStatuses)
            orders == Refresh(ExpiredOrders(ses, req[w].now),
                              Mark(before, active, "cancelled"), {o})
            mine   == [IdleRequest EXCEPT !.pc = "review", !.target = o]
            theirs == [IdleRequest EXCEPT !.pc = "synced", !.now = clock,
                         !.target = o, !.op = "view", !.seen = orders[o]]
<1>1. req' = [req EXCEPT ![w] = IF actor = "customer" THEN mine ELSE theirs]
      /\ orderStatus' = orders
  BY DEF CancelOrder
<1>. HIDE DEF orders
<1>2. /\ mine.pc = "review"
      /\ theirs.pc = "synced" /\ theirs.target = o /\ theirs.seen = orders[o]
  BY DEF IdleRequest
<1>3. UpToDate(mine, orderStatus') /\ UpToDate(theirs, orderStatus')
  <2>. HIDE DEF mine, theirs
  <2>. QED  BY <1>1, <1>2 DEF UpToDate
<1>. HIDE DEF mine, theirs
<1>. QED  BY <1>1, <1>3 DEF FreshStep

\* The other steps leave no view in progress behind.
LEMMA OtherFresh ==
    ASSUME Life, NEW w \in Workers,
           \/ Arrive(w) \/ SyncCompleted(w) \/ EndRequest(w)
           \/ \E start \in StartTimes : MoveSession(w, start)
           \/ \E ses \in Sessions : \/ ExpireHolds(w, ses) \/ CancelSession(w, ses)
                                    \/ CheckEditable(w, ses) \/ DeleteSession(w, ses)
                                    \/ \E o \in Orders, S \in SUBSET Seats : Purchase(w, o, ses, S)
           \/ \E t \in Tickets : CancelTicket(w, t)
           \/ \E o \in Orders : \/ Finalize(w, o)
                                \/ \E outcome \in ReleaseOutcomes : Release(w, o, outcome)
    PROVE  FreshStep
<1>0. req \in [Workers -> Requests] /\ req[w] \in Requests
  BY DEF Life, IInv, TypeOK
<1>1. \/ UNCHANGED req
      \/ Finished(w)
      \/ req' = [req EXCEPT ![w].pc = "arrived", ![w].now = clock]
      \/ req' = [req EXCEPT ![w].pc = "begun"]
      \/ \E ses \in Sessions : req' = [req EXCEPT ![w].pc = "editing", ![w].target = ses]
  BY DEF Arrive, SyncCompleted, EndRequest, MoveSession, ExpireHolds, CancelSession,
         CheckEditable, DeleteSession, Purchase, CancelTicket, Finalize, Release, Finished
<1>2. \A r : r.pc \notin {"opened", "synced", "loaded"} => UpToDate(r, orderStatus')
  BY DEF UpToDate
<1>3. CASE Finished(w)
  BY <1>2, <1>3 DEF Finished, IdleRequest, FreshStep
<1>4. CASE req' = [req EXCEPT ![w].pc = "arrived", ![w].now = clock]
  <2>. DEFINE r == [req[w] EXCEPT !.pc = "arrived", !.now = clock]
  <2>1. req' = [req EXCEPT ![w] = r] /\ r.pc = "arrived"
    BY <1>0, <1>4 DEF Requests
  <2>. QED  BY <1>2, <2>1 DEF FreshStep
<1>5. CASE req' = [req EXCEPT ![w].pc = "begun"]
  <2>. DEFINE r == [req[w] EXCEPT !.pc = "begun"]
  <2>1. req' = [req EXCEPT ![w] = r] /\ r.pc = "begun"
    BY <1>0, <1>5 DEF Requests
  <2>. QED  BY <1>2, <2>1 DEF FreshStep
<1>6. ASSUME NEW ses \in Sessions, req' = [req EXCEPT ![w].pc = "editing", ![w].target = ses]
      PROVE  FreshStep
  <2>. DEFINE r == [req[w] EXCEPT !.pc = "editing", !.target = ses]
  <2>1. req' = [req EXCEPT ![w] = r] /\ r.pc = "editing"
    BY <1>0, <1>6 DEF Requests
  <2>. QED  BY <1>2, <2>1 DEF FreshStep
<1>. QED  BY <1>1, <1>3, <1>4, <1>5, <1>6 DEF FreshStep

LEMMA NextAligned == Life /\ Aligned /\ [Next]_vars /\ Undisturbed => Aligned'
<1>. SUFFICES ASSUME Life, Aligned, [Next]_vars, Undisturbed PROVE Aligned'
  OBVIOUS
<1>1. IInv' /\ OrdersStep
  BY NextIInv, NextOrders DEF Life
<1>2. FreshStep
  <2>1. CASE UNCHANGED vars \/ Tick
    BY <2>1 DEF vars, Tick, FreshStep
  <2>2. ASSUME NEW w \in Workers,
               \/ SyncHolds(w) \/ ReadBack(w) \/ LoadTickets(w) \/ WriteAggregate(w) \/ CheckIn(w)
               \/ \E o \in Orders, op \in {"view", "checkin"} : OpenOrder(w, o, op)
        PROVE  FreshStep
    BY <2>2, ReadPathFresh
  <2>3. ASSUME NEW w \in Workers, NEW o \in Orders,
               \E actor \in {"customer", "admin"} : CancelOrder(w, o, actor)
        PROVE  FreshStep
    BY <2>3, CancelOrderFresh
  <2>4. ASSUME NEW w \in Workers,
               \/ Arrive(w) \/ SyncCompleted(w) \/ EndRequest(w)
               \/ \E start \in StartTimes : MoveSession(w, start)
               \/ \E ses \in Sessions : \/ ExpireHolds(w, ses) \/ CancelSession(w, ses)
                                        \/ CheckEditable(w, ses) \/ DeleteSession(w, ses)
                                        \/ \E o \in Orders, S \in SUBSET Seats : Purchase(w, o, ses, S)
               \/ \E t \in Tickets : CancelTicket(w, t)
               \/ \E o \in Orders : \/ Finalize(w, o)
                                    \/ \E outcome \in ReleaseOutcomes : Release(w, o, outcome)
        PROVE  FreshStep
    BY <2>4, OtherFresh
  <2>. QED  BY <2>1, <2>2, <2>3, <2>4 DEF Next
<1>3. StoredAligned'
  <2>. SUFFICES ASSUME NEW p \in Orders, orderStatus'[p] # "none"
                PROVE  AlignedWith(orderStatus'[p], ticketStatus', p)
    BY DEF StoredAligned, AlignedWith, StatusesOf, TicketsOf
  <2>1. \A s \in Seats : ticketStatus'[<<p, s>>] \in TicketStatuses \cup {"none"}
    BY <1>1 DEF IInv, TypeOK, Tickets
  <2>. QED  BY <1>1, <2>1, AlignmentCarriesOver DEF OrdersStep, Aligned
<1>4. ViewsUpToDate'
  <2>1. \A v \in Workers : req'[v] = req[v] => UpToDate(req'[v], orderStatus')
    BY DEF Undisturbed, Aligned, ViewsUpToDate, UpToDate
  <2>2. req \in [Workers -> Requests]
    BY DEF Life, IInv, TypeOK
  <2>3. \A v \in Workers : UpToDate(req'[v], orderStatus')
    BY <1>2, <2>1, <2>2 DEF FreshStep
  <2>. QED  BY <2>3 DEF ViewsUpToDate, UpToDate
<1>. QED  BY <1>3, <1>4 DEF Aligned

LEMMA InitAligned == Init => Aligned
BY DEF Init, Aligned, StoredAligned, ViewsUpToDate, UpToDate, IdleRequest

\* Order documents stay "aligned with nested tickets" as long as no order
\* changes between a view's reading of it and that view's end, for any number
\* of requests beside it (_synchronize_order_aggregate).
THEOREM AlignedUnlessOvertaken == Spec /\ [][Undisturbed]_vars => []AggregateAligned
<1>1. Life /\ Aligned /\ [Next]_vars /\ [Undisturbed]_vars => Aligned'
  <2>. SUFFICES ASSUME Life, Aligned, [Next]_vars, UNCHANGED vars PROVE Undisturbed
    BY NextAligned
  <2>. QED  BY DEF vars, orderVars, Undisturbed
<1>2. Aligned => AggregateAligned
  BY DEF Aligned, StoredAligned, AlignedWith, StatusesOf, AggregateAligned
<1>. QED  BY <1>1, <1>2, InitAligned, LifeInvariance, PTL DEF Spec

\* A request that is alone disturbs nobody.
LEMMA AloneUndisturbed ==
    ASSUME TypeOK, OneAtATime, [Next]_vars
    PROVE  Undisturbed
<1>. SUFFICES ASSUME NEW w \in Workers, req[w].pc \in {"opened", "synced"}, req'[w] = req[w]
              PROVE  UNCHANGED orderStatus
  BY DEF Undisturbed
<1>0. req \in [Workers -> Requests]
  BY DEF TypeOK
<1>1. ASSUME NEW v \in Workers, req[v].pc \notin {"idle", "opened", "synced"} PROVE FALSE
  BY <1>1 DEF OneAtATime
<1>2. ASSUME NEW v \in Workers, SyncHolds(v) PROVE UNCHANGED orderStatus
  <2>1. v = w
    BY <1>2 DEF SyncHolds, OneAtATime
  <2>2. CASE req' = [req EXCEPT ![v].pc = "reread"]
    <3>1. req'[w].pc = "reread"
      BY <1>0, <2>1, <2>2 DEF Requests
    <3>. QED  BY <3>1
  <2>. QED  BY <1>2, <2>2 DEF SyncHolds
<1>3. ASSUME NEW v \in Workers,
             \/ \E ses \in Sessions :
                   \/ ExpireHolds(v, ses) \/ CancelSession(v, ses)
                   \/ CheckEditable(v, ses) \/ DeleteSession(v, ses)
                   \/ \E o \in Orders, S \in SUBSET Seats : Purchase(v, o, ses, S)
             \/ \E start \in StartTimes : MoveSession(v, start)
             \/ \E t \in Tickets : CancelTicket(v, t)
             \/ \E o \in Orders :
                   \/ Finalize(v, o)
                   \/ \E outcome \in ReleaseOutcomes : Release(v, o, outcome)
                   \/ \E actor \in {"customer", "admin"} : CancelOrder(v, o, actor)
             \/ WriteAggregate(v)
      PROVE  UNCHANGED orderStatus
  BY <1>1, <1>3 DEF ExpireHolds, CancelSession, CheckEditable, DeleteSession, Purchase,
     MoveSession, CancelTicket, Finalize, Release, CancelOrder, WriteAggregate, Ready, AtWebhook
<1>4. ASSUME \/ UNCHANGED vars \/ Tick
             \/ \E v \in Workers :
                   \/ Arrive(v) \/ SyncCompleted(v) \/ EndRequest(v)
                   \/ ReadBack(v) \/ LoadTickets(v) \/ CheckIn(v)
                   \/ \E o \in Orders, op \in {"view", "checkin"} : OpenOrder(v, o, op)
      PROVE  UNCHANGED orderStatus
  BY <1>4, UntouchedOrders
<1>. QED  BY <1>2, <1>3, <1>4 DEF Next

\* Requests served one at a time leave every order aligned, whichever of them
\* are cut short (_synchronize_order_aggregate).
THEOREM AlignedOneAtATime == Spec /\ []OneAtATime => []AggregateAligned
<1>1. Life => TypeOK
  BY DEF Life, IInv
<1>2. TypeOK /\ OneAtATime /\ [Next]_vars => [Undisturbed]_vars
  BY AloneUndisturbed
<1>3. Spec /\ []OneAtATime => [][Undisturbed]_vars
  BY <1>1, <1>2, LifeInvariance, PTL DEF Spec
<1>. QED  BY <1>3, AlignedUnlessOvertaken, PTL

-----------------------------------------------------------------------------
(***************************************************************************)
(* The session of an order, and the completion of sessions.                *)
(***************************************************************************)

\* The steps that neither place an order nor delete or move a session.
SessionsStep ==
    /\ UNCHANGED <<startTime, orderSession>>
    /\ \A ses \in Sessions :
          \/ sessionStatus'[ses] = sessionStatus[ses]
          \/ sessionStatus'[ses] = "cancelled"
          \/ sessionStatus'[ses] = "completed"
                /\ \E w \in Workers : startTime[ses] + Running <= req[w].now

LEMMA OtherSteps ==
    ASSUME TypeOK,
           \/ Tick \/ UNCHANGED vars
           \/ \E w \in Workers :
                \/ Arrive(w) \/ SyncCompleted(w) \/ EndRequest(w) \/ SyncHolds(w)
                \/ ReadBack(w) \/ LoadTickets(w) \/ WriteAggregate(w) \/ CheckIn(w)
                \/ \E ses \in Sessions : \/ ExpireHolds(w, ses) \/ CancelSession(w, ses)
                                         \/ CheckEditable(w, ses)
                \/ \E t \in Tickets : CancelTicket(w, t)
                \/ \E o \in Orders :
                      \/ Finalize(w, o)
                      \/ \E outcome \in ReleaseOutcomes : Release(w, o, outcome)
                      \/ \E actor \in {"customer", "admin"} : CancelOrder(w, o, actor)
                      \/ \E op \in {"view", "checkin"} : OpenOrder(w, o, op)
    PROVE  SessionsStep
<1>1. ASSUME Tick \/ UNCHANGED vars
      PROVE  SessionsStep
  BY <1>1 DEF Tick, vars, sessionVars, orderVars, SessionsStep
<1>2. ASSUME NEW w \in Workers,
             \/ Arrive(w) \/ EndRequest(w) \/ SyncHolds(w)
             \/ ReadBack(w) \/ LoadTickets(w) \/ WriteAggregate(w) \/ CheckIn(w)
             \/ \E o \in Orders, op \in {"view", "checkin"} : OpenOrder(w, o, op)
      PROVE  SessionsStep
  BY <1>2 DEF Arrive, EndRequest, SyncHolds, ReadBack, LoadTickets, WriteAggregate, CheckIn,
              OpenOrder, sessionVars, orderVars, SessionsStep
<1>3. ASSUME NEW w \in Workers, \E ses \in Sessions : ExpireHolds(w, ses) \/ CheckEditable(w, ses)
      PROVE  SessionsStep
  BY <1>3 DEF ExpireHolds, CheckEditable, SessionsStep
<1>4. ASSUME NEW w \in Workers, NEW ses \in Sessions, CancelSession(w, ses)
      PROVE  SessionsStep
  BY <1>4 DEF CancelSession, SessionsStep, TypeOK
<1>5. ASSUME NEW w \in Workers,
             \/ \E t \in Tickets : CancelTicket(w, t)
             \/ \E o \in Orders :
                   \/ \E outcome \in ReleaseOutcomes : Release(w, o, outcome)
                   \/ \E actor \in {"customer", "admin"} : CancelOrder(w, o, actor)
      PROVE  SessionsStep
  BY <1>5 DEF CancelTicket, Release, CancelOrder, SessionsStep
<1>6. ASSUME NEW w \in Workers, SyncCompleted(w) \/ \E o \in Orders : Finalize(w, o)
      PROVE  SessionsStep
  <2>1. sessionStatus' = CompletedBy(req[w].now, startTime) /\ UNCHANGED <<startTime, orderSession>>
    BY <1>6 DEF SyncCompleted, Finalize, orderVars
  <2>. QED  BY <2>1 DEF CompletedBy, SessionsStep
<1>. QED  BY <1>1, <1>2, <1>3, <1>4, <1>5, <1>6

LEMMA NextSessions ==
    ASSUME TypeOK, [Next]_vars
    PROVE  \/ SessionsStep
           \/ \E w \in Workers, start \in StartTimes : MoveSession(w, start)
           \/ \E w \in Workers, ses \in Sessions : DeleteSession(w, ses)
           \/ \E w \in Workers, o \in Orders, ses \in Sessions, S \in SUBSET Seats :
                 Purchase(w, o, ses, S)
BY OtherSteps DEF Next

\* An order's session stays: it can be deleted only when no ticket was ever
\* stored for it, and an order is never without one.
LEMMA SessionsKept ==
    ASSUME Life, OrdersKeepTheirSession, [Next]_vars
    PROVE  OrdersKeepTheirSession'
<1>0. OrdersPlaced' /\ OrdersPlaced /\ TypeOK
  BY NextIInv DEF Life, IInv
<1>1. ASSUME NEW o \in Orders, orderSession'[o] = orderSession[o], orderStatus'[o] # "none"
      PROVE  /\ orderStatus[o] # "none" /\ orderSession[o] \in Sessions
             /\ sessionStatus[orderSession[o]] # "deleted"
  BY <1>0, <1>1, ConstantsAssumption DEF OrdersPlaced, OrdersKeepTheirSession
<1>2. CASE SessionsStep
  BY <1>1, <1>2 DEF SessionsStep, OrdersKeepTheirSession
<1>3. ASSUME NEW w \in Workers, NEW start \in StartTimes, MoveSession(w, start)
      PROVE  OrdersKeepTheirSession'
  <2>1. UNCHANGED orderSession /\ \E now, starts : sessionStatus' = CompletedBy(now, starts)
    BY <1>3 DEF MoveSession, orderVars
  <2>. QED  BY <1>1, <2>1 DEF CompletedBy, OrdersKeepTheirSession
<1>4. ASSUME NEW w \in Workers, NEW ses \in Sessions, DeleteSession(w, ses)
      PROVE  OrdersKeepTheirSession'
  <2>1. /\ UNCHANGED <<orderSession, orderStatus>> /\ Deletable(ses)
        /\ sessionStatus' = [CompletedBy(req[w].now, startTime) EXCEPT ![ses] = "deleted"]
    BY <1>4 DEF DeleteSession, orderVars
  <2>2. ASSUME NEW o \in Orders, orderStatus[o] # "none"
        PROVE  orderSession[o] # ses
    <3>1. PICK s \in Seats : ticketStatus[<<o, s>>] # "none"
      BY <2>2 DEF Life, StoredFits, Fits
    <3>. QED  BY <2>1, <3>1 DEF Deletable, SessionTickets, Tickets
  <2>. QED  BY <1>1, <2>1, <2>2 DEF CompletedBy, OrdersKeepTheirSession
<1>5. ASSUME NEW w \in Workers, NEW o \in Orders, NEW ses \in Sessions,
             NEW S \in SUBSET Seats, Purchase(w, o, ses, S)
      PROVE  OrdersKeepTheirSession'
  <2>1. /\ orderSession' = [orderSession EXCEPT ![o] = ses] /\ UNCHANGED sessionStatus
        /\ sessionStatus[ses] = "scheduled"
    BY <1>5 DEF Purchase, Purchasable
  <2>. QED  BY <1>0, <1>1, <2>1 DEF TypeOK, OrdersKeepTheirSession
<1>. QED  BY <1>0, <1>2, <1>3, <1>4, <1>5, NextSessions

\* No view, payment or ticket list loses the session its order belongs to.
THEOREM OrdersKeepSessions == Spec => []OrdersKeepTheirSession
<1>1. Init => OrdersKeepTheirSession
  BY DEF Init, OrdersKeepTheirSession
<1>2. Life /\ OrdersKeepTheirSession /\ [Next]_vars => OrdersKeepTheirSession'
  BY SessionsKept
<1>. QED  BY <1>1, <1>2, LifeInvariance, PTL DEF Spec

-----------------------------------------------------------------------------
\* The time a request has captured is never in the future.
ClocksBehind == \A w \in Workers : req[w].now <= clock

LEMMA ClocksStayBehind ==
    ASSUME TypeOK, ClocksBehind, [Next]_vars
    PROVE  ClocksBehind' /\ clock <= clock'
<1>0. /\ clock \in Nat /\ req \in [Workers -> Requests]
      /\ \A w \in Workers : req[w] \in Requests /\ req[w].now \in Nat
  BY DEF TypeOK, Requests
<1>1. CASE Tick \/ UNCHANGED vars
  BY <1>0, <1>1 DEF Tick, vars, ClocksBehind
<1>2. ASSUME NEW w \in Workers, NEW r,
             UNCHANGED clock, req' = [req EXCEPT ![w] = r], r.now \in {0, clock, req[w].now}
      PROVE  ClocksBehind' /\ clock <= clock'
  BY <1>0, <1>2 DEF ClocksBehind
<1>3. ASSUME NEW w \in Workers,
             \/ Arrive(w) \/ SyncCompleted(w) \/ EndRequest(w)
             \/ \E start \in StartTimes : MoveSession(w, start)
             \/ \E ses \in Sessions : \/ ExpireHolds(w, ses) \/ CancelSession(w, ses)
                                      \/ CheckEditable(w, ses) \/ DeleteSession(w, ses)
                                      \/ \E o \in Orders, S \in SUBSET Seats : Purchase(w, o, ses, S)
             \/ \E t \in Tickets : CancelTicket(w, t)
             \/ \E o \in Orders : \/ Finalize(w, o)
                                  \/ \E outcome \in ReleaseOutcomes : Release(w, o, outcome)
      PROVE  ClocksBehind' /\ clock <= clock'
  <2>1. /\ UNCHANGED clock
        /\ \/ UNCHANGED req
           \/ Finished(w)
           \/ req' = [req EXCEPT ![w].pc = "arrived", ![w].now = clock]
           \/ req' = [req EXCEPT ![w].pc = "begun"]
           \/ \E ses \in Sessions : req' = [req EXCEPT ![w].pc = "editing", ![w].target = ses]
    BY <1>3 DEF Arrive, SyncCompleted, EndRequest, MoveSession, ExpireHolds, CancelSession,
                CheckEditable, DeleteSession, Purchase, CancelTicket, Finalize, Release, Finished
  <2>. QED  BY <1>0, <2>1 DEF Finished, IdleRequest, Requests, ClocksBehind
<1>4. ASSUME NEW w \in Workers, NEW o \in Orders, NEW actor \in {"customer", "admin"},
             CancelOrder(w, o, actor)
      PROVE  ClocksBehind' /\ clock <= clock'
  <2>1. PICK seen :
           /\ UNCHANGED clock
           /\ req' = [req EXCEPT ![w] =
                        IF actor = "customer"
                        THEN [IdleRequest EXCEPT !.pc = "review", !.target = o]
                        ELSE [IdleRequest EXCEPT !.pc = "synced", !.now = clock,
                                !.target = o, !.op = "view", !.seen = seen]]
    BY <1>4 DEF CancelOrder
  <2>2. /\ [IdleRequest EXCEPT !.pc = "review", !.target = o].now = 0
        /\ [IdleRequest EXCEPT !.pc = "synced", !.now = clock,
              !.target = o, !.op = "view", !.seen = seen].now = clock
    BY DEF IdleRequest
  <2>. QED  BY <1>2, <2>1, <2>2
<1>5. ASSUME NEW w \in Workers,
             \/ SyncHolds(w) \/ ReadBack(w) \/ WriteAggregate(w) \/ CheckIn(w) \/ LoadTickets(w)
             \/ \E o \in Orders, op \in {"view", "checkin"} : OpenOrder(w, o, op)
      PROVE  ClocksBehind' /\ clock <= clock'
  <2>1. CASE SyncHolds(w)
    BY <1>0, <2>1 DEF SyncHolds, Requests, ClocksBehind
  <2>2. ASSUME NEW o \in Orders, NEW op \in {"view", "checkin"}, OpenOrder(w, o, op)
        PROVE  ClocksBehind' /\ clock <= clock'
    <3>. DEFINE r == [req[w] EXCEPT !.pc = "opened", !.target = o, !.op = op,
                                    !.seen = orderStatus[o]]
    <3>1. req' = [req EXCEPT ![w] = r] /\ UNCHANGED clock
      BY <2>2 DEF OpenOrder
    <3>2. r.now = req[w].now
      BY <1>0 DEF Requests
    <3>. HIDE DEF r
    <3>. QED  BY <1>2, <3>1, <3>2
  <2>3. CASE ReadBack(w)
    BY <1>0, <2>3 DEF ReadBack, Requests, ClocksBehind
  <2>4. CASE CheckIn(w)
    <3>. DEFINE r == [req[w] EXCEPT !.pc = "reread", !.op = "view", !.admits = FALSE]
    <3>1. req' = [req EXCEPT ![w] = r] /\ UNCHANGED clock
      BY <2>4 DEF CheckIn
    <3>2. r.now = req[w].now
      BY <1>0 DEF Requests
    <3>. HIDE DEF r
    <3>. QED  BY <1>2, <3>1, <3>2
  <2>5. CASE WriteAggregate(w)
    <3>1. req' = [req EXCEPT ![w] = Built(req[w])] /\ UNCHANGED clock
      BY <2>5 DEF WriteAggregate
    <3>2. Built(req[w]).now \in {0, req[w].now}
      BY <1>0 DEF Built, IdleRequest, Requests
    <3>. QED  BY <1>2, <3>1, <3>2
  <2>6. CASE LoadTickets(w)
    <3>. DEFINE status == AggregateStatus(req[w].seen,
                             {ticketStatus[t] : t \in TicketsOf(ticketStatus, req[w].target)})
                admits == req[w].op = "checkin" /\ AdmitsEntry(req[w].target, status, req[w].now)
                loaded == [req[w] EXCEPT !.pc = "loaded", !.derived = status,
                             !.now = 0, !.seen = "none", !.admits = admits]
    <3>1. /\ req' = [req EXCEPT ![w] = IF status = req[w].seen THEN Built(loaded) ELSE loaded]
          /\ UNCHANGED clock
      BY <2>6 DEF LoadTickets
    <3>2. loaded.now = 0 /\ Built(loaded).now = 0
      <4>. HIDE DEF status, admits
      <4>. QED  BY <1>0 DEF Built, IdleRequest, Requests
    <3>. HIDE DEF status, loaded
    <3>. QED  BY <1>2, <3>1, <3>2
  <2>. QED  BY <1>5, <2>1, <2>2, <2>3, <2>4, <2>5, <2>6
<1>. QED  BY <1>1, <1>3, <1>4, <1>5 DEF Next

LEMMA CompletionIsDue ==
    ASSUME IInv, ClocksBehind, CompletedIsOver, [Next]_vars
    PROVE  CompletedIsOver'
<1>0. /\ clock \in Nat /\ clock' \in Nat /\ clock <= clock'
      /\ \A w \in Workers : req[w].now \in Nat /\ req[w].now <= clock
      /\ \A ses \in Sessions : startTime[ses] + Running \in Nat
  <2>1. clock' \in Nat
    BY NextIInv DEF IInv, TypeOK
  <2>. QED  BY <2>1, ClocksStayBehind, ConstantsAssumption DEF IInv, TypeOK, Requests, ClocksBehind
<1>1. CASE SessionsStep
  BY <1>0, <1>1 DEF SessionsStep, CompletedIsOver
<1>2. ASSUME NEW w \in Workers, NEW start \in StartTimes, MoveSession(w, start)
      PROVE  CompletedIsOver'
  <2>1. /\ startTime' = [startTime EXCEPT ![req[w].target] = start]
        /\ sessionStatus' = CompletedBy(req[w].now, startTime')
        /\ sessionStatus[req[w].target] = "scheduled"
    BY <1>2 DEF MoveSession, Editable
  <2>2. start + Running \in Nat
    BY ConstantsAssumption
  <2>3. ASSUME NEW ses \in Sessions, sessionStatus'[ses] = "completed"
        PROVE  startTime'[ses] + Running <= clock'
    <3>1. \/ sessionStatus[ses] = "completed" /\ startTime'[ses] = startTime[ses]
          \/ startTime'[ses] + Running <= req[w].now
      BY <2>1, <2>3 DEF CompletedBy, IInv, TypeOK
    <3>2. startTime'[ses] + Running \in Nat
      BY <1>0, <2>1, <2>2 DEF IInv, TypeOK
    <3>. QED  BY <1>0, <3>1, <3>2 DEF CompletedIsOver
  <2>. QED  BY <2>3 DEF CompletedIsOver
<1>3. ASSUME NEW w \in Workers, NEW ses \in Sessions, DeleteSession(w, ses)
      PROVE  CompletedIsOver'
  <2>1. /\ UNCHANGED startTime
        /\ sessionStatus' = [CompletedBy(req[w].now, startTime) EXCEPT ![ses] = "deleted"]
    BY <1>3 DEF DeleteSession
  <2>2. ASSUME NEW other \in Sessions, sessionStatus'[other] = "completed"
        PROVE  \/ sessionStatus[other] = "completed"
               \/ startTime[other] + Running <= req[w].now
    BY <2>1, <2>2 DEF CompletedBy
  <2>. QED  BY <1>0, <2>1, <2>2 DEF CompletedIsOver
<1>4. ASSUME NEW w \in Workers, NEW o \in Orders, NEW ses \in Sessions,
             NEW S \in SUBSET Seats, Purchase(w, o, ses, S)
      PROVE  CompletedIsOver'
  BY <1>0, <1>4 DEF Purchase, CompletedIsOver
<1>. QED  BY <1>1, <1>2, <1>3, <1>4, NextSessions DEF IInv

\* However old the clock of the request that completes it, a completed
\* session is over: nobody moves a session that has been completed.
THEOREM CompletedSessionsAreOver == Spec => []CompletedIsOver
<1>1. Init => ClocksBehind /\ CompletedIsOver
  BY DEF Init, IdleRequest, ClocksBehind, CompletedIsOver
<1>2. IInv /\ ClocksBehind /\ CompletedIsOver /\ [Next]_vars
        => (ClocksBehind /\ CompletedIsOver)'
  BY ClocksStayBehind, CompletionIsDue DEF IInv
<1>. QED  BY <1>1, <1>2, Invariance, PTL DEF Spec

-----------------------------------------------------------------------------
(***************************************************************************)
(* What a step that takes seats away leaves to others.                     *)
(***************************************************************************)

\* Nothing of another session moves, and every seat lost is one of this one.
StaysWithin(ses) ==
    /\ \A t \in SeatsLost : orderSession[t[1]] = ses
    /\ \A other \in Sessions \ {ses} :
          /\ availableSeats'[other] = availableSeats[other]
          /\ sessionStatus'[other] = sessionStatus[other]
          /\ \A u \in SessionTickets(other) : ticketStatus'[u] = ticketStatus[u]

\* The seats lost are those of one order and of elapsed holds, or the session
\* is cancelled.
MayTake(ses) ==
    \/ sessionStatus'[ses] = "cancelled"
    \/ \E o \in Orders : \A t \in SeatsLost : t[1] = o \/ Elapsed(t)

LEMMA WithinOneSession ==
    ASSUME NEW ses \in Sessions, StaysWithin(ses), MayTake(ses)
    PROVE  OthersKept
BY DEF StaysWithin, MayTake, OthersKept

\* Seats are lost only by a change of a ticket.
LEMMA NothingLost ==
    ASSUME UNCHANGED ticketStatus
    PROVE  OthersKept
BY DEF SeatsLost, OthersKept

\* Marking tickets, ticket by ticket.
LEMMA MarkedTicket ==
    ASSUME NEW t \in Tickets, NEW ts, NEW T, NEW st
    PROVE  Mark(ts, T, st)[t] = IF t \in T THEN st ELSE ts[t]
BY DEF Mark

\* A hold that is stale for a request has elapsed by the clock.
LEMMA StaleIsElapsed ==
    ASSUME TypeOK, ClocksBehind, NEW w \in Workers, NEW ses \in Sessions,
           NEW t \in StaleHolds(ses, req[w].now)
    PROVE  /\ t \in Tickets /\ t[1] \in Orders /\ orderSession[t[1]] = ses
           /\ ticketStatus[t] = "reserved" /\ Elapsed(t)
<1>1. /\ t \in Tickets /\ t[1] \in Orders /\ orderSession[t[1]] = ses
      /\ ticketStatus[t] = "reserved" /\ expiresAt[t[1]] <= req[w].now
  BY DEF StaleHolds, WithStatus, SessionTickets, Tickets
<1>2. /\ expiresAt[t[1]] \in Nat /\ clock \in Nat /\ req[w].now \in Nat
      /\ req[w].now <= clock
  BY <1>1 DEF TypeOK, Requests, ClocksBehind
<1>. QED  BY <1>1, <1>2 DEF Elapsed

LEMMA ExpiryStays ==
    ASSUME TypeOK, ClocksBehind, NEW w \in Workers, NEW ses \in Sessions,
           ReleaseStaleHolds(ses, req[w].now), UNCHANGED sessionStatus
    PROVE  OthersKept
<1>. DEFINE T == StaleHolds(ses, req[w].now)
<1>1. \A t \in T : /\ t \in Tickets /\ t[1] \in Orders /\ orderSession[t[1]] = ses
                   /\ ticketStatus[t] = "reserved" /\ Elapsed(t)
  BY StaleIsElapsed
<1>2. /\ ticketStatus' = Mark(ticketStatus, T, "expired")
      /\ availableSeats' = Restore(ses, Cardinality(T))
  BY DEF ReleaseStaleHolds, ExpiredTickets, ExpiredSeats
<1>. HIDE DEF T
<1>3. \A t \in Tickets : ticketStatus'[t] = IF t \in T THEN "expired" ELSE ticketStatus[t]
  BY <1>2, MarkedTicket
<1>4. \A t \in SeatsLost : t \in T
  BY <1>3 DEF SeatsLost
<1>5. StaysWithin(ses)
  BY <1>1, <1>2, <1>3, <1>4 DEF StaysWithin, Restore, SessionTickets, TypeOK
<1>6. CASE SeatsLost = {}
  BY <1>6 DEF OthersKept
<1>7. CASE SeatsLost # {}
  <2>1. PICK o \in Orders : TRUE
    BY <1>1, <1>4, <1>7
  <2>2. MayTake(ses)
    BY <1>1, <1>4, <2>1 DEF MayTake
  <2>. QED  BY <1>5, <2>2, WithinOneSession
<1>. QED  BY <1>6, <1>7

LEMMA PurchaseStays ==
    ASSUME IInv, ClocksBehind, NEW w \in Workers, NEW o \in Orders, NEW ses \in Sessions,
           NEW S \in SUBSET Seats, Purchase(w, o, ses, S)
    PROVE  OthersKept
<1>. DEFINE T      == StaleHolds(ses, req[w].now)
            before == ExpiredTickets(ses, req[w].now)
            B      == {o} \X S
            free   == ExpiredSeats(ses, req[w].now)
<1>1. \A t \in T : /\ t \in Tickets /\ t[1] \in Orders /\ orderSession[t[1]] = ses
                   /\ ticketStatus[t] = "reserved" /\ Elapsed(t)
  BY StaleIsElapsed DEF IInv
<1>2. /\ ticketStatus' = Mark(before, B, "reserved")
      /\ availableSeats' = [free EXCEPT ![ses] = @ - Cardinality(S)]
      /\ UNCHANGED sessionStatus
      /\ orderStatus[o] = "none"
  BY DEF Purchase
<1>3. orderSession[o] \notin Sessions
  BY <1>2, ConstantsAssumption DEF IInv, OrdersPlaced
<1>4. \A t \in B : t[1] = o
  OBVIOUS
<1>5. \A other \in Sessions \ {ses} : availableSeats'[other] = availableSeats[other]
  BY <1>2 DEF ExpiredSeats, Restore, IInv, TypeOK
<1>6. \A t \in Tickets : before[t] = IF t \in T THEN "expired" ELSE ticketStatus[t]
  BY MarkedTicket DEF ExpiredTickets
<1>. HIDE DEF T, before, B
<1>7. \A t \in Tickets : ticketStatus'[t] = IF t \in B THEN "reserved" ELSE before[t]
  BY <1>2, MarkedTicket
<1>8. \A t \in SeatsLost : t \in T
  BY <1>6, <1>7 DEF SeatsLost, BlockingStatuses
<1>9. StaysWithin(ses)
  BY <1>1, <1>2, <1>3, <1>4, <1>5, <1>6, <1>7, <1>8 DEF StaysWithin, SessionTickets
<1>10. MayTake(ses)
  BY <1>1, <1>8 DEF MayTake
<1>. QED  BY <1>9, <1>10, WithinOneSession

LEMMA CancelOrderStays ==
    ASSUME IInv, ClocksBehind, NEW w \in Workers, NEW o \in Orders,
           NEW actor \in {"customer", "admin"}, CancelOrder(w, o, actor)
    PROVE  OthersKept
<1>. DEFINE ses    == orderSession[o]
            T      == StaleHolds(ses, req[w].now)
            before == ExpiredTickets(ses, req[w].now)
            active == WithStatus(before, TicketsOf(before, o), BlockingStatuses)
            free   == ExpiredSeats(ses, req[w].now)
<1>1. ses \in Sessions
  BY DEF CancelOrder, IInv, OrdersPlaced
<1>2. \A t \in T : /\ t \in Tickets /\ t[1] \in Orders /\ orderSession[t[1]] = ses
                   /\ ticketStatus[t] = "reserved" /\ Elapsed(t)
  BY <1>1, StaleIsElapsed DEF IInv
<1>3. /\ ticketStatus' = Mark(before, active, "cancelled")
      /\ availableSeats' = [free EXCEPT ![ses] = @ + Cardinality(active)]
      /\ UNCHANGED sessionStatus
  BY DEF CancelOrder
<1>4. \A t \in active : t[1] = o
  BY DEF WithStatus, TicketsOf
<1>5. \A other \in Sessions \ {ses} : availableSeats'[other] = availableSeats[other]
  BY <1>1, <1>3 DEF ExpiredSeats, Restore, IInv, TypeOK
<1>6. \A t \in Tickets : before[t] = IF t \in T THEN "expired" ELSE ticketStatus[t]
  BY MarkedTicket DEF ExpiredTickets
<1>. HIDE DEF T, before, active, free
<1>7. \A t \in Tickets : ticketStatus'[t] = IF t \in active THEN "cancelled" ELSE before[t]
  BY <1>3, MarkedTicket
<1>8. \A t \in SeatsLost : t \in T \/ t \in active
  BY <1>6, <1>7 DEF SeatsLost
<1>9. StaysWithin(ses)
  BY <1>2, <1>3, <1>4, <1>5, <1>6, <1>7, <1>8 DEF StaysWithin, SessionTickets
<1>10. MayTake(ses)
  BY <1>2, <1>4, <1>8 DEF MayTake
<1>. HIDE DEF ses
<1>. QED  BY <1>1, <1>9, <1>10, WithinOneSession

\* The cancellation of one ticket, of a session, and a payment's release.
LEMMA CancellationStays ==
    ASSUME IInv, NEW w \in Workers,
           \/ \E t \in Tickets : CancelTicket(w, t)
           \/ \E ses \in Sessions : CancelSession(w, ses)
           \/ \E o \in Orders, outcome \in ReleaseOutcomes : Release(w, o, outcome)
    PROVE  OthersKept
<1>1. ASSUME NEW ses \in Sessions, NEW T, NEW st, NEW n, MayTake(ses) \/ SeatsLost \subseteq {},
             \A t \in T : t \in Tickets /\ orderSession[t[1]] = ses,
             ticketStatus' = Mark(ticketStatus, T, st), availableSeats' = Restore(ses, n),
             \A other \in Sessions \ {ses} : sessionStatus'[other] = sessionStatus[other]
      PROVE  OthersKept
  <2>1. \A t \in Tickets : ticketStatus'[t] = IF t \in T THEN st ELSE ticketStatus[t]
    BY <1>1, MarkedTicket
  <2>2. StaysWithin(ses)
    BY <1>1, <2>1 DEF StaysWithin, SeatsLost, Restore, SessionTickets, IInv, TypeOK
  <2>. QED  BY <1>1, <2>2, WithinOneSession DEF OthersKept
<1>2. ASSUME NEW t \in Tickets, CancelTicket(w, t)
      PROVE  OthersKept
  <2>1. /\ orderSession[t[1]] \in Sessions /\ t[1] \in Orders
        /\ ticketStatus' = Mark(ticketStatus, {t}, "cancelled")
        /\ availableSeats' = Restore(orderSession[t[1]], 1) /\ UNCHANGED sessionStatus
    BY <1>2, TicketsArePlaced DEF CancelTicket, Active, BlockingStatuses, IInv, Placed
  <2>2. \A u \in Tickets : ticketStatus'[u] = IF u \in {t} THEN "cancelled" ELSE ticketStatus[u]
    BY <2>1, MarkedTicket
  <2>3. MayTake(orderSession[t[1]])
    BY <2>1, <2>2 DEF MayTake, SeatsLost
  <2>. QED  BY <1>1, <2>1, <2>3
<1>3. ASSUME NEW ses \in Sessions, CancelSession(w, ses)
      PROVE  OthersKept
  <2>1. /\ ticketStatus' = Mark(ticketStatus, Cascade(ses), "cancelled")
        /\ availableSeats' = Restore(ses, Cardinality(Cascade(ses)))
        /\ sessionStatus' = [sessionStatus EXCEPT ![ses] = "cancelled"]
    BY <1>3 DEF CancelSession
  <2>2. \A t \in Cascade(ses) : t \in Tickets /\ orderSession[t[1]] = ses
    BY DEF Cascade, Blocking, WithStatus, SessionTickets
  <2>3. /\ sessionStatus'[ses] = "cancelled"
        /\ \A other \in Sessions \ {ses} : sessionStatus'[other] = sessionStatus[other]
    BY <2>1 DEF IInv, TypeOK
  <2>. QED  BY <1>1, <2>1, <2>2, <2>3 DEF MayTake
<1>4. ASSUME NEW o \in Orders, NEW outcome \in ReleaseOutcomes, Release(w, o, outcome)
      PROVE  OthersKept
  <2>. DEFINE held == WithStatus(ticketStatus, TicketsOf(ticketStatus, o), {"reserved"})
  <2>1. /\ orderSession[o] \in Sessions
        /\ ticketStatus' = Mark(ticketStatus, held, ReleasedTicketStatus(outcome))
        /\ availableSeats' = Restore(orderSession[o], Cardinality(held))
        /\ UNCHANGED sessionStatus
    BY <1>4 DEF Release, IInv, OrdersPlaced
  <2>2. \A t \in held : t \in Tickets /\ t[1] = o
    BY DEF WithStatus, TicketsOf
  <2>. HIDE DEF held
  <2>3. \A u \in Tickets :
           ticketStatus'[u] = IF u \in held THEN ReleasedTicketStatus(outcome) ELSE ticketStatus[u]
    BY <2>1, MarkedTicket
  <2>4. MayTake(orderSession[o])
    BY <2>1, <2>2, <2>3 DEF MayTake, SeatsLost
  <2>. QED  BY <1>1, <2>1, <2>2, <2>4
<1>. QED  BY <1>2, <1>3, <1>4

LEMMA FinalizeLosesNone ==
    ASSUME NEW w \in Workers, NEW o \in Orders, Finalize(w, o)
    PROVE  OthersKept
<1>. DEFINE held == WithStatus(ticketStatus, TicketsOf(ticketStatus, o), {"reserved"})
<1>1. ticketStatus' = Mark(ticketStatus, held, "purchased")
  BY DEF Finalize
<1>. HIDE DEF held
<1>2. \A t \in Tickets : ticketStatus'[t] = IF t \in held THEN "purchased" ELSE ticketStatus[t]
  BY <1>1, MarkedTicket
<1>. QED  BY <1>2 DEF OthersKept, SeatsLost, BlockingStatuses

LEMMA NextKeepsOthers ==
    ASSUME IInv, ClocksBehind, [Next]_vars
    PROVE  OthersKept
<1>1. CASE UNCHANGED vars \/ Tick
  BY <1>1, NothingLost DEF vars, Tick, ticketVars
<1>2. ASSUME NEW w \in Workers,
             \/ Arrive(w) \/ SyncCompleted(w) \/ EndRequest(w)
             \/ ReadBack(w) \/ LoadTickets(w) \/ WriteAggregate(w) \/ CheckIn(w)
             \/ \E start \in StartTimes : MoveSession(w, start)
             \/ \E ses \in Sessions : DeleteSession(w, ses)
             \/ \E o \in Orders, op \in {"view", "checkin"} : OpenOrder(w, o, op)
      PROVE  OthersKept
  <2>1. Arrive(w) \/ SyncCompleted(w) \/ EndRequest(w) \/ ReadBack(w) \/ CheckIn(w)
           => UNCHANGED ticketStatus
    BY DEF Arrive, SyncCompleted, EndRequest, ReadBack, CheckIn, ticketVars
  <2>2. LoadTickets(w) \/ WriteAggregate(w) => UNCHANGED ticketStatus
    BY DEF LoadTickets, WriteAggregate, ticketVars
  <2>3. /\ \A start \in StartTimes : MoveSession(w, start) => UNCHANGED ticketStatus
        /\ \A ses \in Sessions : DeleteSession(w, ses) => UNCHANGED ticketStatus
    BY DEF MoveSession, DeleteSession, ticketVars
  <2>4. \A o \in Orders, op \in {"view", "checkin"} : OpenOrder(w, o, op) => UNCHANGED ticketStatus
    BY DEF OpenOrder, ticketVars
  <2>. QED  BY <1>2, <2>1, <2>2, <2>3, <2>4, NothingLost
<1>3. ASSUME NEW w \in Workers, NEW ses \in Sessions, ExpireHolds(w, ses) \/ CheckEditable(w, ses)
      PROVE  OthersKept
  BY <1>3, ExpiryStays DEF ExpireHolds, CheckEditable, IInv
<1>4. ASSUME NEW w \in Workers, SyncHolds(w)
      PROVE  OthersKept
  <2>1. orderSession[req[w].target] \in Sessions
    BY <1>4 DEF SyncHolds, IInv, OrdersPlaced, Placed, RequestsAnchored, Anchored
  <2>2. UNCHANGED sessionStatus
    BY <1>4 DEF SyncHolds
  <2>. QED  BY <1>4, <2>1, <2>2, ExpiryStays, NothingLost DEF SyncHolds, IInv
<1>. QED
  BY <1>1, <1>2, <1>3, <1>4, PurchaseStays, CancelOrderStays, CancellationStays,
     FinalizeLosesNone DEF Next

\* A request served for one customer or one screening never costs another one
\* a seat, however many sessions, orders and requests there are.
THEOREM OthersKeepSeats == Spec => OthersKeepTheirSeats
<1>1. Init => ClocksBehind
  BY DEF Init, IdleRequest, ClocksBehind
<1>2. IInv /\ ClocksBehind /\ [Next]_vars => ClocksBehind'
  BY ClocksStayBehind DEF IInv
<1>3. IInv /\ ClocksBehind /\ [Next]_vars => OthersKept
  BY NextKeepsOthers
<1>. QED  BY <1>1, <1>2, <1>3, Invariance, PTL DEF Spec, OthersKeepTheirSeats

=============================================================================

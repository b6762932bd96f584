--------------------------- MODULE BookingProofs ---------------------------
(***************************************************************************)
(* Theorems about Booking, for every set of sessions, every finite hall    *)
(* and set of orders, any number of concurrent requests and every hold     *)
(* time.  The argument is one inductive invariant, IInv: the type          *)
(* invariant, two facts about which documents exist (OrdersPlaced,         *)
(* RequestsAnchored), and the properties themselves.                       *)
(***************************************************************************)
EXTENDS Booking, TLAPS, FiniteSetTheorems

-----------------------------------------------------------------------------
(***************************************************************************)
(* The inductive invariant.                                                *)
(***************************************************************************)

Placed == {o \in Orders : orderStatus[o] # "none"}

\* An order document and its tickets appear together, and an order that
\* exists belongs to a session.
OrdersPlaced ==
    \A o \in Orders :
        IF orderStatus[o] = "none"
        THEN orderSession[o] = None /\ \A s \in Seats : ticketStatus[<<o, s>>] = "none"
        ELSE orderSession[o] \in Sessions

\* What a request holds on to across its steps exists; `placed` is the set of
\* orders that exist.
Anchored(placed, r) ==
    /\ r.pc \in {"idle", "arrived", "begun"} => r.target \in placed \cup {None}
    /\ r.pc \in {"review", "opened", "reread", "synced", "loaded", "built"}
          => r.target \in placed
    /\ r.pc = "editing" => r.target \in Sessions
    /\ r.pc = "loaded" => r.derived \in OrderStatuses

RequestsAnchored == \A w \in Workers : Anchored(Placed, req[w])

IInv ==
    /\ TypeOK
    /\ OrdersPlaced
    /\ RequestsAnchored
    /\ SeatCounterExact
    /\ NoDoubleBooking
    /\ CancelledSessionEmpty

-----------------------------------------------------------------------------
(***************************************************************************)
(* Lemmas about the operators of Domain and Booking.                       *)
(***************************************************************************)

\* The status derived from tickets is always a status an order can have.
LEMMA DerivedStatusType ==
    ASSUME NEW S
    PROVE  DerivedStatus(S) \in OrderStatuses
BY DEF DerivedStatus, OrderStatuses

\* So is the status an aggregate refresh stores.
LEMMA AggregateStatusType ==
    ASSUME NEW current, NEW S
    PROVE  AggregateStatus(current, S) \in OrderStatuses
BY DerivedStatusType DEF AggregateStatus, PaymentReleaseStatuses, OrderStatuses

\* A refresh gives each order it visits a proper status and no other order
\* a new one.
LEMMA RefreshType ==
    ASSUME NEW os \in [Orders -> OrderStatuses \cup {"none"}], NEW ts, NEW O
    PROVE  /\ Refresh(os, ts, O) \in [Orders -> OrderStatuses \cup {"none"}]
           /\ \A o \in Orders :
                 IF o \in O THEN Refresh(os, ts, O)[o] \in OrderStatuses
                            ELSE Refresh(os, ts, O)[o] = os[o]
BY AggregateStatusType DEF Refresh

\* The status of a ticket collection stays well typed when some of its
\* tickets are marked.
LEMMA MarkType ==
    ASSUME NEW ts \in [Tickets -> TicketStatuses \cup {"none"}], NEW T,
           NEW st \in TicketStatuses
    PROVE  Mark(ts, T, st) \in [Tickets -> TicketStatuses \cup {"none"}]
BY DEF Mark

\* There are finitely many tickets, so every set of them can be counted.
LEMMA TicketsFinite ==
    /\ IsFiniteSet(Tickets)
    /\ \A T \in SUBSET Tickets : IsFiniteSet(T) /\ Cardinality(T) \in Nat
<1>1. IsFiniteSet(Tickets)
  BY ConstantsAssumption, FS_Product DEF Tickets
<1>2. ASSUME NEW T \in SUBSET Tickets
      PROVE  IsFiniteSet(T) /\ Cardinality(T) \in Nat
  BY <1>1, FS_Subset, FS_CardinalityType
<1>. QED  BY <1>1, <1>2

LEMMA CapacityType == Capacity \in Nat
BY ConstantsAssumption, FS_CardinalityType DEF Capacity

-----------------------------------------------------------------------------
(***************************************************************************)
(* The three ways a transaction changes tickets, and what each does to the *)
(* seat counters.  Exact and Single are SeatCounterExact and               *)
(* NoDoubleBooking for any ticket collection and any counters.             *)
(***************************************************************************)

TicketMap == [Tickets -> TicketStatuses \cup {"none"}]

Exact(ts, seats) ==
    \A ses \in Sessions : seats[ses] = Capacity - Cardinality(Blocking(ts, ses))

Single(ts) ==
    \A ses \in Sessions : \A t, u \in Blocking(ts, ses) : t[2] = u[2] => t = u

\* Releasing blocking tickets of one session takes exactly them off that
\* session's blocking tickets and touches no other session's.
LEMMA ReleasedBlocking ==
    ASSUME NEW ts \in TicketMap, NEW ses \in Sessions,
           NEW T \in SUBSET Blocking(ts, ses), NEW st \in {"cancelled", "expired"},
           NEW other \in Sessions
    PROVE  Blocking(Mark(ts, T, st), other)
             = IF other = ses THEN Blocking(ts, other) \ T ELSE Blocking(ts, other)
BY DEF Blocking, WithStatus, SessionTickets, Mark, BlockingStatuses, TicketMap

\* Returning as many seats as tickets are released keeps the counters exact
\* and cannot make two tickets share a seat.
LEMMA ReleaseKeepsCounters ==
    ASSUME NEW ts \in TicketMap, NEW seats \in [Sessions -> Nat],
           NEW ses \in Sessions,
           NEW T \in SUBSET Blocking(ts, ses), NEW st \in {"cancelled", "expired"},
           Exact(ts, seats), Single(ts)
    PROVE  /\ Exact(Mark(ts, T, st), [seats EXCEPT ![ses] = @ + Cardinality(T)])
           /\ Single(Mark(ts, T, st))
           /\ Mark(ts, T, st) \in TicketMap
<1>1. /\ IsFiniteSet(Blocking(ts, ses))
      /\ Cardinality(Blocking(ts, ses)) \in Nat
      /\ Cardinality(T) \in Nat
  BY TicketsFinite DEF Blocking, WithStatus, SessionTickets
<1>2. Cardinality(Blocking(ts, ses) \ T) = Cardinality(Blocking(ts, ses)) - Cardinality(T)
  <2>1. Blocking(ts, ses) \cap T = T
    OBVIOUS
  <2>. QED  BY <1>1, <2>1, FS_Difference
<1>3. Exact(Mark(ts, T, st), [seats EXCEPT ![ses] = @ + Cardinality(T)])
  <2>. SUFFICES ASSUME NEW other \in Sessions
                PROVE  [seats EXCEPT ![ses] = @ + Cardinality(T)][other]
                         = Capacity - Cardinality(Blocking(Mark(ts, T, st), other))
    BY DEF Exact
  <2>1. CASE other = ses
    <3>1. seats[ses] = Capacity - Cardinality(Blocking(ts, ses))
      BY DEF Exact
    <3>2. Blocking(Mark(ts, T, st), other) = Blocking(ts, ses) \ T
      BY <2>1, ReleasedBlocking
    <3>3. [seats EXCEPT ![ses] = @ + Cardinality(T)][other] = seats[ses] + Cardinality(T)
      BY <2>1
    <3>. QED  BY <1>1, <1>2, <3>1, <3>2, <3>3, CapacityType
  <2>2. CASE other # ses
    BY <2>2, ReleasedBlocking DEF Exact
  <2>. QED  BY <2>1, <2>2
<1>4. Single(Mark(ts, T, st))
  BY ReleasedBlocking DEF Single
<1>5. Mark(ts, T, st) \in TicketMap
  BY MarkType DEF TicketMap, TicketStatuses
<1>. QED  BY <1>3, <1>4, <1>5

\* Selling held tickets moves no seat.
LEMMA SaleKeepsCounters ==
    ASSUME NEW ts \in TicketMap, NEW seats \in [Sessions -> Nat], NEW T \in SUBSET Tickets,
           \A t \in T : ts[t] = "reserved", Exact(ts, seats), Single(ts)
    PROVE  /\ \A ses \in Sessions : Blocking(Mark(ts, T, "purchased"), ses) = Blocking(ts, ses)
           /\ Exact(Mark(ts, T, "purchased"), seats)
           /\ Single(Mark(ts, T, "purchased"))
           /\ Mark(ts, T, "purchased") \in TicketMap
<1>1. ASSUME NEW ses \in Sessions
      PROVE  Blocking(Mark(ts, T, "purchased"), ses) = Blocking(ts, ses)
  BY DEF Blocking, WithStatus, SessionTickets, Mark, BlockingStatuses, TicketMap
<1>2. Mark(ts, T, "purchased") \in TicketMap
  BY MarkType DEF TicketMap, TicketStatuses
<1>. QED  BY <1>1, <1>2 DEF Exact, Single

\* The expiry of elapsed holds is a release.
LEMMA ExpiryKeepsCounters ==
    ASSUME TypeOK, SeatCounterExact, NoDoubleBooking, NEW ses \in Sessions, NEW now
    PROVE  /\ StaleHolds(ses, now) \in SUBSET Blocking(ticketStatus, ses)
           /\ Cardinality(StaleHolds(ses, now)) \in Nat
           /\ ExpiredSeats(ses, now) \in [Sessions -> Nat]
           /\ ExpiredTickets(ses, now) \in TicketMap
           /\ Exact(ExpiredTickets(ses, now), ExpiredSeats(ses, now))
           /\ Single(ExpiredTickets(ses, now))
<1>1. StaleHolds(ses, now) \in SUBSET Blocking(ticketStatus, ses)
  BY DEF StaleHolds, Blocking, WithStatus, BlockingStatuses
<1>2. Cardinality(StaleHolds(ses, now)) \in Nat
  BY TicketsFinite DEF StaleHolds, WithStatus, SessionTickets
<1>3. /\ ticketStatus \in TicketMap
      /\ availableSeats \in [Sessions -> Nat]
  BY CapacityType DEF TypeOK, TicketMap
<1>4. Exact(ticketStatus, availableSeats) /\ Single(ticketStatus)
  BY DEF SeatCounterExact, NoDoubleBooking, Exact, Single
<1>5. /\ Exact(ExpiredTickets(ses, now), ExpiredSeats(ses, now))
      /\ Single(ExpiredTickets(ses, now))
      /\ ExpiredTickets(ses, now) \in TicketMap
  BY <1>1, <1>3, <1>4, ReleaseKeepsCounters DEF ExpiredTickets, ExpiredSeats, Restore
<1>6. ExpiredSeats(ses, now) \in [Sessions -> Nat]
  BY <1>2, <1>3 DEF ExpiredSeats, Restore
<1>. QED  BY <1>1, <1>2, <1>5, <1>6

\* Where the order of a ticket that blocks, or is held, comes from: a ticket
\* that exists belongs to a placed order.
LEMMA TicketsArePlaced ==
    ASSUME TypeOK, OrdersPlaced, NEW t \in Tickets, ticketStatus[t] # "none"
    PROVE  t[1] \in Placed /\ orderSession[t[1]] \in Sessions
<1>1. PICK o \in Orders, s \in Seats : t = <<o, s>>
  BY DEF Tickets
<1>. QED  BY <1>1 DEF OrdersPlaced, Placed

\* The refresh of orders that are placed, from tickets none of which was
\* inserted or removed, changes neither which orders exist nor the types.
LEMMA RefreshKeepsPlaced ==
    ASSUME TypeOK, OrdersPlaced,
           NEW os \in [Orders -> OrderStatuses \cup {"none"}],
           \A o \in Orders : os[o] = "none" <=> orderStatus[o] = "none",
           NEW ts, NEW O \in SUBSET Placed
    PROVE  /\ Refresh(os, ts, O) \in [Orders -> OrderStatuses \cup {"none"}]
           /\ \A o \in Orders : Refresh(os, ts, O)[o] = "none" <=> orderStatus[o] = "none"
<1>1. "none" \notin OrderStatuses
  BY DEF OrderStatuses
<1>. QED  BY <1>1, RefreshType DEF Placed

\* The same for the expiry of elapsed holds.
LEMMA ExpiryKeepsPlaced ==
    ASSUME TypeOK, OrdersPlaced, NEW ses \in Sessions, NEW now
    PROVE  /\ ExpiredOrders(ses, now) \in [Orders -> OrderStatuses \cup {"none"}]
           /\ \A o \in Orders : ExpiredOrders(ses, now)[o] = "none" <=> orderStatus[o] = "none"
           /\ \A t \in Tickets : ExpiredTickets(ses, now)[t] = "none" <=> ticketStatus[t] = "none"
<1>1. OwnersOf(StaleHolds(ses, now)) \in SUBSET Placed
  <2>1. ASSUME NEW t \in StaleHolds(ses, now)  PROVE t[1] \in Placed
    BY TicketsArePlaced DEF StaleHolds, WithStatus, SessionTickets
  <2>. QED  BY <2>1 DEF OwnersOf
<1>2. orderStatus \in [Orders -> OrderStatuses \cup {"none"}]
  BY DEF TypeOK
<1>3. \A t \in Tickets : ExpiredTickets(ses, now)[t] = "none" <=> ticketStatus[t] = "none"
  BY DEF ExpiredTickets, Mark, StaleHolds, WithStatus
<1>. QED  BY <1>1, <1>2, <1>3, RefreshKeepsPlaced DEF ExpiredOrders

-----------------------------------------------------------------------------
(***************************************************************************)
(* How the parts of the invariant carry over a step.                       *)
(***************************************************************************)

\* Orders are never removed: what was anchored stays anchored.
LEMMA StillAnchored ==
    ASSUME RequestsAnchored, NEW placed, Placed \subseteq placed,
           req \in [Workers -> Requests],
           NEW w \in Workers, NEW r, Anchored(placed, r),
           NEW next, next = [req EXCEPT ![w] = r]
    PROVE  \A v \in Workers : Anchored(placed, next[v])
BY DEF RequestsAnchored, Anchored

LEMMA IdleAnchored ==
    /\ IdleRequest \in Requests
    /\ \A placed : Anchored(placed, IdleRequest)
BY DEF IdleRequest, Requests, PCs, OrderStatuses, Anchored

\* A step that keeps every order's session may be judged by the tickets and
\* counters it leaves behind.
LEMMA CountersCarryOver ==
    ASSUME UNCHANGED orderSession, Exact(ticketStatus', availableSeats'),
           Single(ticketStatus')
    PROVE  SeatCounterExact' /\ NoDoubleBooking'
BY DEF Exact, Single, SeatCounterExact, NoDoubleBooking, Blocking, WithStatus,
       SessionTickets

\* A step that blocks no further ticket of an existing session, and cancels
\* or deletes a session only when no ticket of it blocks afterwards.
LEMMA EmptinessCarriesOver ==
    ASSUME UNCHANGED orderSession,
           \A ses \in Sessions :
               sessionStatus'[ses] \in {"cancelled", "deleted"}
                   => Blocking(ticketStatus', ses) = {}
    PROVE  CancelledSessionEmpty'
BY DEF CancelledSessionEmpty, Blocking, WithStatus, SessionTickets

\* Completing ended sessions cancels and deletes none.
LEMMA CompletedByType ==
    ASSUME TypeOK, NEW now, NEW starts
    PROVE  /\ CompletedBy(now, starts) \in [Sessions -> SessionStatuses]
           /\ \A ses \in Sessions :
                 CompletedBy(now, starts)[ses] \in {"cancelled", "deleted"}
                     => sessionStatus[ses] = CompletedBy(now, starts)[ses]
BY DEF TypeOK, CompletedBy, SessionStatuses

\* A step that keeps the orders and the tickets keeps the placed orders.
LEMMA PlacementCarriesOver ==
    ASSUME TypeOK, OrdersPlaced, UNCHANGED orderSession,
           \A o \in Orders : orderStatus'[o] = "none" <=> orderStatus[o] = "none",
           \A t \in Tickets : ticketStatus'[t] = "none" <=> ticketStatus[t] = "none"
    PROVE  OrdersPlaced' /\ Placed' = Placed
BY DEF OrdersPlaced, Placed, Tickets

-----------------------------------------------------------------------------
(***************************************************************************)
(* Every step preserves the inductive invariant.                           *)
(***************************************************************************)

\* A step that writes no document, of the clock or of one request.
LEMMA QuietStep ==
    ASSUME IInv, UNCHANGED <<sessionVars, orderVars, ticketVars>>, clock' \in Nat,
           \/ UNCHANGED req
           \/ \E w \in Workers : \E r \in Requests :
                 Anchored(Placed, r) /\ req' = [req EXCEPT ![w] = r]
    PROVE  IInv'
<1>. USE DEF sessionVars, orderVars, ticketVars
<1>1. /\ req' \in [Workers -> Requests]
      /\ \A w \in Workers : Anchored(Placed, req'[w])
  BY StillAnchored DEF IInv, TypeOK, RequestsAnchored
<1>2. TypeOK'
  BY <1>1 DEF IInv, TypeOK
<1>3. OrdersPlaced' /\ Placed' = Placed
  BY DEF IInv, OrdersPlaced, Placed
<1>4. RequestsAnchored'
  BY <1>1, <1>3 DEF RequestsAnchored
<1>5. SeatCounterExact' /\ NoDoubleBooking' /\ CancelledSessionEmpty'
  BY DEF IInv, SeatCounterExact, NoDoubleBooking, CancelledSessionEmpty,
         Blocking, WithStatus, SessionTickets
<1>. QED  BY <1>2, <1>3, <1>4, <1>5 DEF IInv

\* A step that writes session statuses and start times only, completing
\* sessions and deleting at most sessions without blocking tickets.
LEMMA SessionStep ==
    ASSUME IInv, UNCHANGED <<clock, availableSeats, orderVars, ticketVars>>,
           sessionStatus' \in [Sessions -> SessionStatuses],
           startTime' \in [Sessions -> Nat],
           \A ses \in Sessions :
               sessionStatus'[ses] \in {"cancelled", "deleted"}
                   => Blocking(ticketStatus, ses) = {},
           NEW w \in Workers, NEW r \in Requests, Anchored(Placed, r),
           req' = [req EXCEPT ![w] = r]
    PROVE  IInv'
<1>. USE DEF orderVars, ticketVars
<1>1. TypeOK'
  BY DEF IInv, TypeOK
<1>2. OrdersPlaced' /\ Placed' = Placed
  BY DEF IInv, OrdersPlaced, Placed
<1>3. RequestsAnchored'
  <2>1. \A v \in Workers : Anchored(Placed, req'[v])
    BY StillAnchored DEF IInv, TypeOK
  <2>. QED  BY <1>2, <2>1 DEF RequestsAnchored
<1>4. SeatCounterExact' /\ NoDoubleBooking'
  BY DEF IInv, SeatCounterExact, NoDoubleBooking, Blocking, WithStatus, SessionTickets
<1>5. CancelledSessionEmpty'
  BY EmptinessCarriesOver
<1>. QED  BY <1>1, <1>2, <1>3, <1>4, <1>5 DEF IInv

\* A step that changes the status of existing tickets and orders, moves the
\* seat counters with them, and ends or continues its request.
LEMMA TicketStep ==
    ASSUME IInv, UNCHANGED <<clock, startTime, orderSession, expiresAt, checkedIn>>,
           sessionStatus' \in [Sessions -> SessionStatuses],
           availableSeats' \in [Sessions -> 0 .. Capacity],
           orderStatus' \in [Orders -> OrderStatuses \cup {"none"}],
           ticketStatus' \in TicketMap,
           \A o \in Orders : orderStatus'[o] = "none" <=> orderStatus[o] = "none",
           \A t \in Tickets : ticketStatus'[t] = "none" <=> ticketStatus[t] = "none",
           Exact(ticketStatus', availableSeats'), Single(ticketStatus'),
           \A ses \in Sessions :
               sessionStatus'[ses] \in {"cancelled", "deleted"}
                   => Blocking(ticketStatus', ses) = {},
           NEW w \in Workers, NEW r \in Requests, Anchored(Placed, r),
           req' = [req EXCEPT ![w] = r]
    PROVE  IInv'
<1>1. TypeOK'
  BY DEF IInv, TypeOK, TicketMap
<1>2. OrdersPlaced' /\ Placed' = Placed
  BY PlacementCarriesOver DEF IInv
<1>3. RequestsAnchored'
  <2>1. \A v \in Workers : Anchored(Placed, req'[v])
    BY StillAnchored DEF IInv, TypeOK
  <2>. QED  BY <1>2, <2>1 DEF RequestsAnchored
<1>4. SeatCounterExact' /\ NoDoubleBooking'
  BY CountersCarryOver
<1>5. CancelledSessionEmpty'
  BY EmptinessCarriesOver
<1>. QED  BY <1>1, <1>2, <1>3, <1>4, <1>5 DEF IInv

\* Expiry at the head of a transaction, and alone: the counters stay within
\* the hall and no session gets a blocking ticket.
LEMMA ExpiryFits ==
    ASSUME IInv, NEW ses \in Sessions, NEW now
    PROVE  /\ CanRestore(ses, Cardinality(StaleHolds(ses, now)))
                 => ExpiredSeats(ses, now) \in [Sessions -> 0 .. Capacity]
           /\ \A other \in Sessions :
                 Blocking(ExpiredTickets(ses, now), other) \subseteq Blocking(ticketStatus, other)
<1>1. Cardinality(StaleHolds(ses, now)) \in Nat
  BY ExpiryKeepsCounters DEF IInv
<1>2. \A other \in Sessions :
        Blocking(ExpiredTickets(ses, now), other) \subseteq Blocking(ticketStatus, other)
  BY DEF Blocking, WithStatus, SessionTickets, ExpiredTickets, Mark, BlockingStatuses
<1>3. CanRestore(ses, Cardinality(StaleHolds(ses, now)))
        => ExpiredSeats(ses, now) \in [Sessions -> 0 .. Capacity]
  BY <1>1, CapacityType DEF IInv, TypeOK, CanRestore, ExpiredSeats, Restore
<1>. QED  BY <1>2, <1>3

\* Requests that only read, and requests that end.
LEMMA QuietActions ==
    ASSUME IInv, NEW w \in Workers,
           \/ Arrive(w) \/ EndRequest(w) \/ ReadBack(w) \/ LoadTickets(w)
           \/ \E o \in Orders, op \in {"view", "checkin"} : OpenOrder(w, o, op)
    PROVE  IInv'
<1>. USE DEF IInv, TypeOK
<1>1. CASE Arrive(w)
  <2>1. PICK r : /\ r = [req[w] EXCEPT !.pc = "arrived", !.now = clock]
                 /\ req' = [req EXCEPT ![w] = r]
    BY <1>1 DEF Arrive
  <2>2. r \in Requests /\ Anchored(Placed, r)
    BY <1>1, <2>1 DEF Arrive, Requests, PCs, Anchored, RequestsAnchored
  <2>. QED  BY <1>1, <2>1, <2>2, QuietStep DEF Arrive
<1>2. CASE EndRequest(w)
  BY <1>2, IdleAnchored, QuietStep DEF EndRequest
<1>3. CASE ReadBack(w)
  <2>1. PICK r : /\ r = [req[w] EXCEPT !.pc = "synced", !.seen = orderStatus[req[w].target]]
                 /\ req' = [req EXCEPT ![w] = r]
    BY <1>3 DEF ReadBack
  <2>2. req[w].target \in Placed
    BY <1>3 DEF ReadBack, RequestsAnchored, Anchored
  <2>3. r \in Requests /\ Anchored(Placed, r)
    BY <2>1, <2>2 DEF Requests, PCs, Anchored, Placed
  <2>. QED  BY <1>3, <2>1, <2>3, QuietStep DEF ReadBack
<1>4. CASE LoadTickets(w)
  <2>. DEFINE o == req[w].target
              status == AggregateStatus(req[w].seen,
                           {ticketStatus[t] : t \in TicketsOf(ticketStatus, o)})
              admits == req[w].op = "checkin" /\ AdmitsEntry(o, status, req[w].now)
              loaded == [req[w] EXCEPT !.pc = "loaded", !.derived = status,
                            !.now = 0, !.seen = "none", !.admits = admits]
              r == IF status = req[w].seen THEN Built(loaded) ELSE loaded
  <2>1. req[w].target \in Placed
    BY <1>4 DEF LoadTickets, RequestsAnchored, Anchored
  <2>2. status \in OrderStatuses
    BY AggregateStatusType
  <2>3. admits \in BOOLEAN
    OBVIOUS
  <2>4. loaded \in Requests /\ Anchored(Placed, loaded)
    <3>. HIDE DEF status, admits
    <3>. QED  BY <2>1, <2>2, <2>3 DEF Requests, PCs, Anchored
  <2>5. Built(loaded) \in Requests /\ Anchored(Placed, Built(loaded))
    <3>. HIDE DEF loaded
    <3>1. CASE loaded.op = "checkin" /\ loaded.admits
      <4>1. loaded.target \in Placed
        BY <2>1, <2>4 DEF loaded, Requests
      <4>. QED  BY <2>4, <3>1, <4>1 DEF Built, Requests, PCs, Anchored
    <3>2. CASE ~ (loaded.op = "checkin" /\ loaded.admits)
      BY <3>2, IdleAnchored DEF Built
    <3>. QED  BY <3>1, <3>2
  <2>6. r \in Requests /\ Anchored(Placed, r) /\ req' = [req EXCEPT ![w] = r]
    BY <1>4, <2>4, <2>5 DEF LoadTickets
  <2>. HIDE DEF r
  <2>. QED  BY <1>4, <2>6, QuietStep DEF LoadTickets
<1>5. CASE \E o \in Orders, op \in {"view", "checkin"} : OpenOrder(w, o, op)
  <2>1. PICK o \in Orders, op \in {"view", "checkin"} : OpenOrder(w, o, op)
    BY <1>5
  <2>2. PICK r : /\ r = [req[w] EXCEPT !.pc = "opened", !.target = o, !.op = op,
                                       !.seen = orderStatus[o]]
                 /\ req' = [req EXCEPT ![w] = r]
    BY <2>1 DEF OpenOrder
  <2>3. req[w] \in Requests /\ orderStatus[o] \in OrderStatuses /\ o \in Placed
    BY <2>1 DEF OpenOrder, Placed
  <2>4. r \in Requests
    BY <2>2, <2>3 DEF Requests, PCs
  <2>5. Anchored(Placed, r)
    BY <2>2, <2>3 DEF Requests, Anchored
  <2>. QED  BY <2>1, <2>2, <2>4, <2>5, QuietStep DEF OpenOrder
<1>. HIDE DEF IInv, TypeOK
<1>. QED  BY <1>1, <1>2, <1>3, <1>4, <1>5

\* Requests that write session documents outside the ticket transactions.
LEMMA SessionActions ==
    ASSUME IInv, NEW w \in Workers,
           \/ SyncCompleted(w)
           \/ \E start \in StartTimes : MoveSession(w, start)
           \/ \E ses \in Sessions : DeleteSession(w, ses)
    PROVE  IInv'
<1>1. CASE SyncCompleted(w)
  <2>1. PICK r : r = [req[w] EXCEPT !.pc = "begun"] /\ req' = [req EXCEPT ![w] = r]
    BY <1>1 DEF SyncCompleted, IInv, TypeOK
  <2>2. r \in Requests /\ Anchored(Placed, r)
    BY <1>1, <2>1 DEF SyncCompleted, Requests, PCs, Anchored, RequestsAnchored, IInv, TypeOK
  <2>3. /\ sessionStatus' \in [Sessions -> SessionStatuses]
        /\ \A ses \in Sessions :
              sessionStatus'[ses] \in {"cancelled", "deleted"}
                  => Blocking(ticketStatus, ses) = {}
    BY <1>1, CompletedByType DEF SyncCompleted, IInv, CancelledSessionEmpty
  <2>4. startTime' \in [Sessions -> Nat]
    BY <1>1 DEF SyncCompleted, IInv, TypeOK
  <2>. QED  BY <1>1, <2>1, <2>2, <2>3, <2>4, SessionStep DEF SyncCompleted
<1>2. CASE \E start \in StartTimes : MoveSession(w, start)
  <2>1. PICK start \in StartTimes : MoveSession(w, start)
    BY <1>2
  <2>2. startTime' \in [Sessions -> Nat]
    BY <2>1, ConstantsAssumption DEF MoveSession, IInv, TypeOK
  <2>3. /\ sessionStatus' \in [Sessions -> SessionStatuses]
        /\ \A ses \in Sessions :
              sessionStatus'[ses] \in {"cancelled", "deleted"}
                  => Blocking(ticketStatus, ses) = {}
    BY <2>1, CompletedByType DEF MoveSession, IInv, CancelledSessionEmpty
  <2>. QED  BY <2>1, <2>2, <2>3, IdleAnchored, SessionStep DEF MoveSession, Finished
<1>3. CASE \E ses \in Sessions : DeleteSession(w, ses)
  <2>1. PICK ses \in Sessions : DeleteSession(w, ses)
    BY <1>3
  <2>2. Blocking(ticketStatus, ses) = {}
    BY <2>1 DEF DeleteSession, Deletable, Blocking, WithStatus, SessionTickets, BlockingStatuses
  <2>3. /\ sessionStatus' \in [Sessions -> SessionStatuses]
        /\ \A other \in Sessions :
              sessionStatus'[other] \in {"cancelled", "deleted"}
                  => Blocking(ticketStatus, other) = {}
    BY <2>1, <2>2, CompletedByType
    DEF DeleteSession, IInv, CancelledSessionEmpty, SessionStatuses
  <2>4. startTime' \in [Sessions -> Nat]
    BY <2>1 DEF DeleteSession, IInv, TypeOK
  <2>. QED  BY <2>1, <2>3, <2>4, IdleAnchored, SessionStep DEF DeleteSession, Finished
<1>. QED  BY <1>1, <1>2, <1>3

\* The expiry transaction, whoever runs it.
LEMMA ExpiryStep ==
    ASSUME IInv, NEW w \in Workers, NEW ses \in Sessions, NEW now,
           ReleaseStaleHolds(ses, now),
           UNCHANGED <<clock, sessionStatus, startTime, orderSession, expiresAt, checkedIn>>,
           NEW r \in Requests, Anchored(Placed, r), req' = [req EXCEPT ![w] = r]
    PROVE  IInv'
<1>1. /\ ticketStatus' = ExpiredTickets(ses, now)
      /\ availableSeats' = ExpiredSeats(ses, now)
      /\ orderStatus' = ExpiredOrders(ses, now)
      /\ availableSeats' \in [Sessions -> 0 .. Capacity]
  BY ExpiryFits DEF ReleaseStaleHolds
<1>2. /\ ticketStatus' \in TicketMap
      /\ Exact(ticketStatus', availableSeats')
      /\ Single(ticketStatus')
  BY <1>1, ExpiryKeepsCounters DEF IInv
<1>3. /\ orderStatus' \in [Orders -> OrderStatuses \cup {"none"}]
      /\ \A o \in Orders : orderStatus'[o] = "none" <=> orderStatus[o] = "none"
      /\ \A t \in Tickets : ticketStatus'[t] = "none" <=> ticketStatus[t] = "none"
  BY <1>1, ExpiryKeepsPlaced DEF IInv
<1>4. \A other \in Sessions :
         sessionStatus'[other] \in {"cancelled", "deleted"} => Blocking(ticketStatus', other) = {}
  BY <1>1, ExpiryFits DEF IInv, CancelledSessionEmpty
<1>5. sessionStatus' \in [Sessions -> SessionStatuses]
  BY DEF IInv, TypeOK
<1>. QED  BY <1>1, <1>2, <1>3, <1>4, <1>5, TicketStep

\* Elapsed holds expire on their own, before an edit, or under a view.
LEMMA ExpiryActions ==
    ASSUME IInv, NEW w \in Workers,
           \/ \E ses \in Sessions : ExpireHolds(w, ses) \/ CheckEditable(w, ses)
           \/ SyncHolds(w)
    PROVE  IInv'
<1>1. ASSUME NEW ses \in Sessions, ExpireHolds(w, ses)
      PROVE  IInv'
  <2>1. /\ req[w] \in Requests
        /\ Anchored(Placed, req[w])
        /\ req' = [req EXCEPT ![w] = req[w]]
    BY <1>1 DEF ExpireHolds, IInv, TypeOK, RequestsAnchored
  <2>. QED  BY <1>1, <2>1, ExpiryStep DEF ExpireHolds
<1>2. ASSUME NEW ses \in Sessions, CheckEditable(w, ses)
      PROVE  IInv'
  <2>1. PICK r : /\ r = [req[w] EXCEPT !.pc = "editing", !.target = ses]
                 /\ req' = [req EXCEPT ![w] = r]
    BY <1>2 DEF CheckEditable, IInv, TypeOK
  <2>2. r \in Requests /\ Anchored(Placed, r)
    BY <2>1 DEF Requests, PCs, Anchored, IInv, TypeOK
  <2>. QED  BY <1>2, <2>1, <2>2, ExpiryStep DEF CheckEditable
<1>3. CASE SyncHolds(w)
  <2>. DEFINE ses == orderSession[req[w].target]
              now == req[w].now
  <2>1. req[w].target \in Placed /\ req[w] \in Requests
    BY <1>3 DEF SyncHolds, IInv, RequestsAnchored, Anchored, TypeOK
  <2>2. ses \in Sessions
    BY <2>1 DEF IInv, OrdersPlaced, Placed
  <2>3. CASE StaleHolds(ses, now) = {}
    <3>1. PICK r : r = [req[w] EXCEPT !.pc = "synced"] /\ req' = [req EXCEPT ![w] = r]
      BY <1>3, <2>3 DEF SyncHolds, IInv, TypeOK
    <3>2. r \in Requests /\ Anchored(Placed, r)
      BY <2>1, <3>1 DEF Requests, PCs, Anchored
    <3>3. UNCHANGED <<sessionVars, orderVars, ticketVars>> /\ clock' \in Nat
      BY <1>3, <2>3 DEF SyncHolds, sessionVars, orderVars, ticketVars, IInv, TypeOK
    <3>. QED  BY <3>1, <3>2, <3>3, QuietStep
  <2>4. CASE StaleHolds(ses, now) # {}
    <3>1. PICK r : r = [req[w] EXCEPT !.pc = "reread"] /\ req' = [req EXCEPT ![w] = r]
      BY <1>3, <2>4 DEF SyncHolds, IInv, TypeOK
    <3>2. r \in Requests /\ Anchored(Placed, r)
      BY <2>1, <3>1 DEF Requests, PCs, Anchored
    <3>. QED  BY <1>3, <2>2, <2>4, <3>1, <3>2, ExpiryStep DEF SyncHolds
  <2>. QED  BY <2>3, <2>4
<1>. QED  BY <1>1, <1>2, <1>3

\* A transaction that releases blocking tickets of one session, returns as
\* many seats, and refreshes orders that exist; other orders keep their status.
LEMMA ReleaseStep ==
    ASSUME IInv, NEW w \in Workers, NEW ses \in Sessions,
           NEW T \in SUBSET Blocking(ticketStatus, ses),
           NEW st \in {"cancelled", "expired"},
           UNCHANGED <<clock, startTime, orderSession, expiresAt, checkedIn>>,
           sessionStatus' \in [Sessions -> SessionStatuses],
           \A other \in Sessions :
               sessionStatus'[other] \in {"cancelled", "deleted"}
                   => \/ sessionStatus[other] \in {"cancelled", "deleted"}
                      \/ other = ses /\ T = Blocking(ticketStatus, ses),
           CanRestore(ses, Cardinality(T)),
           ticketStatus' = Mark(ticketStatus, T, st),
           availableSeats' = Restore(ses, Cardinality(T)),
           orderStatus' \in [Orders -> OrderStatuses \cup {"none"}],
           \A o \in Orders : orderStatus'[o] = "none" <=> orderStatus[o] = "none",
           NEW r \in Requests, Anchored(Placed, r), req' = [req EXCEPT ![w] = r]
    PROVE  IInv'
<1>1. /\ ticketStatus \in TicketMap
      /\ availableSeats \in [Sessions -> Nat]
      /\ Exact(ticketStatus, availableSeats) /\ Single(ticketStatus)
  BY CapacityType DEF IInv, TypeOK, TicketMap, SeatCounterExact, NoDoubleBooking, Exact, Single
<1>2. /\ ticketStatus' \in TicketMap
      /\ Exact(ticketStatus', availableSeats') /\ Single(ticketStatus')
  BY <1>1, ReleaseKeepsCounters DEF Restore
<1>3. availableSeats' \in [Sessions -> 0 .. Capacity]
  <2>1. Cardinality(T) \in Nat
    BY TicketsFinite DEF Blocking, WithStatus, SessionTickets
  <2>. QED  BY <1>1, <2>1, CapacityType DEF CanRestore, Restore, IInv, TypeOK
<1>4. \A t \in Tickets : ticketStatus'[t] = "none" <=> ticketStatus[t] = "none"
  BY DEF Mark, Blocking, WithStatus, BlockingStatuses
<1>5. \A other \in Sessions :
         sessionStatus'[other] \in {"cancelled", "deleted"} => Blocking(ticketStatus', other) = {}
  BY <1>1, ReleasedBlocking DEF IInv, CancelledSessionEmpty
<1>. QED  BY <1>2, <1>3, <1>4, <1>5, TicketStep

\* The release of a pending order by a payment that did not succeed.
LEMMA ReleaseAction ==
    ASSUME IInv, NEW w \in Workers, NEW o \in Orders, NEW outcome \in ReleaseOutcomes,
           Release(w, o, outcome)
    PROVE  IInv'
<1>. DEFINE held == WithStatus(ticketStatus, TicketsOf(ticketStatus, o), {"reserved"})
            ses == orderSession[o]
<1>1. orderStatus[o] = "pending_payment"
  BY DEF Release
<1>2. ses \in Sessions
  BY <1>1 DEF IInv, OrdersPlaced
<1>3. held \in SUBSET Blocking(ticketStatus, ses)
  BY DEF WithStatus, TicketsOf, Blocking, SessionTickets, BlockingStatuses
<1>4. /\ ReleasedTicketStatus(outcome) \in {"cancelled", "expired"}
      /\ ReleasedOrderStatus(outcome) \in OrderStatuses
  BY DEF ReleaseOutcomes, ReleasedTicketStatus, ReleasedOrderStatus, OrderStatuses
<1>5. /\ orderStatus' \in [Orders -> OrderStatuses \cup {"none"}]
      /\ \A p \in Orders : orderStatus'[p] = "none" <=> orderStatus[p] = "none"
  BY <1>1, <1>4 DEF Release, IInv, TypeOK, OrderStatuses
<1>6. /\ sessionStatus' \in [Sessions -> SessionStatuses]
      /\ UNCHANGED <<clock, sessionStatus, startTime, orderSession, expiresAt, checkedIn>>
  BY DEF Release, IInv, TypeOK
<1>7. /\ CanRestore(ses, Cardinality(held))
      /\ ticketStatus' = Mark(ticketStatus, held, ReleasedTicketStatus(outcome))
      /\ availableSeats' = Restore(ses, Cardinality(held))
      /\ req' = [req EXCEPT ![w] = IdleRequest]
  BY DEF Release, Finished
<1>. HIDE DEF held, ses
<1>. QED  BY <1>2, <1>3, <1>4, <1>5, <1>6, <1>7, IdleAnchored, ReleaseStep

\* The cancellation of one ticket.
LEMMA CancelTicketAction ==
    ASSUME IInv, NEW w \in Workers, NEW t \in Tickets, CancelTicket(w, t)
    PROVE  IInv'
<1>. DEFINE ses == orderSession[t[1]]
            after == Mark(ticketStatus, {t}, "cancelled")
<1>1. t[1] \in Placed /\ ses \in Sessions
  BY TicketsArePlaced DEF CancelTicket, Active, BlockingStatuses, IInv
<1>2. {t} \in SUBSET Blocking(ticketStatus, ses) /\ Cardinality({t}) = 1
  BY FS_Singleton DEF CancelTicket, Active, Blocking, WithStatus, SessionTickets
<1>3. /\ orderStatus' \in [Orders -> OrderStatuses \cup {"none"}]
      /\ \A p \in Orders : orderStatus'[p] = "none" <=> orderStatus[p] = "none"
  BY <1>1, RefreshKeepsPlaced DEF CancelTicket, IInv, TypeOK
<1>4. /\ sessionStatus' \in [Sessions -> SessionStatuses]
      /\ UNCHANGED <<clock, sessionStatus, startTime, orderSession, expiresAt, checkedIn>>
  BY DEF CancelTicket, IInv, TypeOK
<1>5. /\ CanRestore(ses, 1)
      /\ ticketStatus' = after
      /\ availableSeats' = Restore(ses, 1)
      /\ req' = [req EXCEPT ![w] = IdleRequest]
  BY DEF CancelTicket, Finished
<1>. HIDE DEF ses
<1>. QED  BY <1>1, <1>2, <1>3, <1>4, <1>5, IdleAnchored, ReleaseStep

\* The cancellation of a session with all its active tickets.
LEMMA CancelSessionAction ==
    ASSUME IInv, NEW w \in Workers, NEW ses \in Sessions, CancelSession(w, ses)
    PROVE  IInv'
<1>1. Cascade(ses) = Blocking(ticketStatus, ses)
  BY DEF Cascade
<1>2. OwnersOf(Cascade(ses)) \in SUBSET Placed
  <2>1. ASSUME NEW t \in Cascade(ses)  PROVE t[1] \in Placed
    BY TicketsArePlaced DEF IInv, Cascade, Blocking, WithStatus, SessionTickets, BlockingStatuses
  <2>. QED  BY <2>1 DEF OwnersOf
<1>3. /\ orderStatus' \in [Orders -> OrderStatuses \cup {"none"}]
      /\ \A p \in Orders : orderStatus'[p] = "none" <=> orderStatus[p] = "none"
  BY <1>2, RefreshKeepsPlaced DEF CancelSession, IInv, TypeOK
<1>4. /\ sessionStatus' = [sessionStatus EXCEPT ![ses] = "cancelled"]
      /\ sessionStatus' \in [Sessions -> SessionStatuses]
      /\ UNCHANGED <<clock, startTime, orderSession, expiresAt, checkedIn>>
  BY DEF CancelSession, IInv, TypeOK, SessionStatuses
<1>5. /\ CanRestore(ses, Cardinality(Cascade(ses)))
      /\ ticketStatus' = Mark(ticketStatus, Cascade(ses), "cancelled")
      /\ availableSeats' = Restore(ses, Cardinality(Cascade(ses)))
      /\ req' = [req EXCEPT ![w] = IdleRequest]
  BY DEF CancelSession, Finished
<1>6. \A other \in Sessions :
         sessionStatus'[other] \in {"cancelled", "deleted"}
             => \/ sessionStatus[other] \in {"cancelled", "deleted"}
                \/ other = ses /\ Cascade(ses) = Blocking(ticketStatus, ses)
  BY <1>1, <1>4 DEF IInv, TypeOK
<1>. QED  BY <1>1, <1>3, <1>4, <1>5, <1>6, IdleAnchored, ReleaseStep

\* The cancellation of an order, after the expiry of the session's holds.
LEMMA CancelOrderAction ==
    ASSUME IInv, NEW w \in Workers, NEW o \in Orders, NEW actor \in {"customer", "admin"},
           CancelOrder(w, o, actor)
    PROVE  IInv'
<1>. DEFINE now    == req[w].now
            ses    == orderSession[o]
            before == ExpiredTickets(ses, now)
            free   == ExpiredSeats(ses, now)
            active == WithStatus(before, TicketsOf(before, o), BlockingStatuses)
            after  == Mark(before, active, "cancelled")
            orders == Refresh(ExpiredOrders(ses, now), after, {o})
            r      == IF actor = "customer"
                      THEN [IdleRequest EXCEPT !.pc = "review", !.target = o]
                      ELSE [IdleRequest EXCEPT !.pc = "synced", !.now = clock,
                              !.target = o, !.op = "view", !.seen = orders[o]]
<1>1. o \in Placed /\ ses \in Sessions
  BY DEF CancelOrder, IInv, OrdersPlaced, Placed
<1>2. /\ before \in TicketMap /\ free \in [Sessions -> Nat]
      /\ Exact(before, free) /\ Single(before)
  BY <1>1, ExpiryKeepsCounters DEF IInv
<1>3. active \in SUBSET Blocking(before, ses)
  BY DEF WithStatus, TicketsOf, Blocking, SessionTickets
<1>4. /\ ticketStatus' = after
      /\ availableSeats' = [free EXCEPT ![ses] = @ + Cardinality(active)]
      /\ orderStatus' = orders
      /\ free[ses] + Cardinality(active) <= Capacity
      /\ req' = [req EXCEPT ![w] = r]
      /\ UNCHANGED <<clock, sessionStatus, startTime, orderSession, expiresAt, checkedIn>>
  BY DEF CancelOrder
<1>5. /\ ticketStatus' \in TicketMap
      /\ Exact(ticketStatus', availableSeats') /\ Single(ticketStatus')
  <2>. HIDE DEF before, free, active, ses
  <2>. QED  BY <1>1, <1>2, <1>3, <1>4, ReleaseKeepsCounters
<1>6. availableSeats' \in [Sessions -> 0 .. Capacity]
  <2>1. Cardinality(active) \in Nat
    BY TicketsFinite DEF WithStatus, TicketsOf
  <2>2. \A other \in Sessions : free[other] \in 0 .. Capacity
    <3>1. \A other \in Sessions :
             Cardinality(Blocking(before, other)) \in Nat /\ free[other] \in Nat
      BY <1>2, TicketsFinite DEF Blocking, WithStatus, SessionTickets
    <3>2. \A other \in Sessions : free[other] = Capacity - Cardinality(Blocking(before, other))
      BY <1>2 DEF Exact
    <3>. HIDE DEF free, before
    <3>. QED  BY <3>1, <3>2, CapacityType
  <2>. HIDE DEF free, active, ses
  <2>. QED  BY <1>1, <1>2, <1>4, <2>1, <2>2, CapacityType
<1>7. /\ ExpiredOrders(ses, now) \in [Orders -> OrderStatuses \cup {"none"}]
      /\ \A p \in Orders : ExpiredOrders(ses, now)[p] = "none" <=> orderStatus[p] = "none"
      /\ \A t \in Tickets : before[t] = "none" <=> ticketStatus[t] = "none"
  BY <1>1, ExpiryKeepsPlaced DEF IInv
<1>8. /\ orderStatus' \in [Orders -> OrderStatuses \cup {"none"}]
      /\ \A p \in Orders : orderStatus'[p] = "none" <=> orderStatus[p] = "none"
  <2>. HIDE DEF after, ses, now
  <2>. QED  BY <1>1, <1>4, <1>7, RefreshKeepsPlaced DEF IInv
<1>9. \A t \in Tickets : ticketStatus'[t] = "none" <=> ticketStatus[t] = "none"
  <2>. HIDE DEF before
  <2>. QED  BY <1>4, <1>7 DEF Mark, WithStatus, BlockingStatuses
<1>10. \A other \in Sessions :
          sessionStatus'[other] \in {"cancelled", "deleted"} => Blocking(ticketStatus', other) = {}
  <2>1. \A other \in Sessions : Blocking(ticketStatus', other) \subseteq Blocking(before, other)
    <3>. HIDE DEF before, active, ses
    <3>. QED  BY <1>1, <1>2, <1>3, <1>4, ReleasedBlocking
  <2>2. \A other \in Sessions : Blocking(before, other) \subseteq Blocking(ticketStatus, other)
    BY <1>1, ExpiryFits
  <2>. HIDE DEF before
  <2>. QED  BY <1>4, <2>1, <2>2 DEF IInv, CancelledSessionEmpty
<1>11. r \in Requests /\ Anchored(Placed, r)
  <2>1. orders[o] \in OrderStatuses \cup {"none"}
    BY <1>4, <1>8
  <2>2. clock \in Nat
    BY DEF IInv, TypeOK
  <2>. HIDE DEF orders
  <2>. QED  BY <1>1, <2>1, <2>2 DEF IdleRequest, Requests, PCs, Anchored
<1>12. sessionStatus' \in [Sessions -> SessionStatuses]
  BY <1>4 DEF IInv, TypeOK
<1>. HIDE DEF r
<1>. QED  BY <1>4, <1>5, <1>6, <1>8, <1>9, <1>10, <1>11, <1>12, TicketStep

\* The sale of a pending order.
LEMMA FinalizeAction ==
    ASSUME IInv, NEW w \in Workers, NEW o \in Orders, Finalize(w, o)
    PROVE  IInv'
<1>. DEFINE held == WithStatus(ticketStatus, TicketsOf(ticketStatus, o), {"reserved"})
<1>1. o \in Placed
  BY DEF Finalize, Finalizable, Placed
<1>2. held \in SUBSET Tickets /\ \A t \in held : ticketStatus[t] = "reserved"
  BY DEF WithStatus, TicketsOf
<1>3. /\ ticketStatus' = Mark(ticketStatus, held, "purchased")
      /\ sessionStatus' = CompletedBy(req[w].now, startTime)
      /\ req' = [req EXCEPT ![w] = IdleRequest]
      /\ UNCHANGED <<clock, startTime, availableSeats, orderSession, expiresAt, checkedIn>>
  BY DEF Finalize, Finished
<1>4. /\ ticketStatus \in TicketMap
      /\ availableSeats \in [Sessions -> Nat]
      /\ Exact(ticketStatus, availableSeats) /\ Single(ticketStatus)
  BY CapacityType DEF IInv, TypeOK, TicketMap, SeatCounterExact, NoDoubleBooking, Exact, Single
<1>5. /\ ticketStatus' \in TicketMap
      /\ Exact(ticketStatus', availableSeats') /\ Single(ticketStatus')
      /\ \A ses \in Sessions : Blocking(ticketStatus', ses) = Blocking(ticketStatus, ses)
  <2>. HIDE DEF held
  <2>. QED  BY <1>2, <1>3, <1>4, SaleKeepsCounters
<1>6. /\ orderStatus' \in [Orders -> OrderStatuses \cup {"none"}]
      /\ \A p \in Orders : orderStatus'[p] = "none" <=> orderStatus[p] = "none"
  BY <1>1, RefreshKeepsPlaced DEF Finalize, IInv, TypeOK
<1>7. \A t \in Tickets : ticketStatus'[t] = "none" <=> ticketStatus[t] = "none"
  BY <1>2, <1>3 DEF Mark
<1>8. /\ sessionStatus' \in [Sessions -> SessionStatuses]
      /\ \A ses \in Sessions :
            sessionStatus'[ses] \in {"cancelled", "deleted"} => Blocking(ticketStatus', ses) = {}
  BY <1>3, <1>5, CompletedByType DEF IInv, CancelledSessionEmpty
<1>9. availableSeats' \in [Sessions -> 0 .. Capacity]
  BY <1>3 DEF IInv, TypeOK
<1>. QED  BY <1>3, <1>5, <1>6, <1>7, <1>8, <1>9, IdleAnchored, TicketStep

\* The unguarded aggregate write, and the check-in.
LEMMA ReadPathWrites ==
    ASSUME IInv, NEW w \in Workers, WriteAggregate(w) \/ CheckIn(w)
    PROVE  IInv'
<1>1. CASE WriteAggregate(w)
  <2>1. /\ req[w].target \in Placed /\ req[w].derived \in OrderStatuses
        /\ req[w] \in Requests
    BY <1>1 DEF WriteAggregate, IInv, RequestsAnchored, Anchored, TypeOK
  <2>2. Built(req[w]) \in Requests /\ Anchored(Placed, Built(req[w]))
    <3>1. CASE req[w].op = "checkin" /\ req[w].admits
      BY <2>1, <3>1 DEF Built, Requests, PCs, Anchored
    <3>2. CASE ~ (req[w].op = "checkin" /\ req[w].admits)
      BY <3>2, IdleAnchored DEF Built
    <3>. QED  BY <3>1, <3>2
  <2>3. req' = [req EXCEPT ![w] = Built(req[w])]
    BY <1>1 DEF WriteAggregate
  <2>4. /\ orderStatus' \in [Orders -> OrderStatuses \cup {"none"}]
        /\ \A o \in Orders : orderStatus'[o] = "none" <=> orderStatus[o] = "none"
    BY <1>1, <2>1 DEF WriteAggregate, IInv, TypeOK, Placed, OrderStatuses
  <2>5. UNCHANGED <<clock, sessionVars, orderSession, expiresAt, ticketVars>>
    BY <1>1 DEF WriteAggregate
  <2>6. /\ ticketStatus' \in TicketMap /\ availableSeats' \in [Sessions -> 0 .. Capacity]
        /\ sessionStatus' \in [Sessions -> SessionStatuses]
        /\ Exact(ticketStatus', availableSeats') /\ Single(ticketStatus')
    BY <2>5 DEF sessionVars, ticketVars, IInv, TypeOK, TicketMap, SeatCounterExact,
                NoDoubleBooking, Exact, Single
  <2>7. \A ses \in Sessions :
           sessionStatus'[ses] \in {"cancelled", "deleted"} => Blocking(ticketStatus', ses) = {}
    BY <2>5 DEF sessionVars, ticketVars, IInv, CancelledSessionEmpty
  <2>. QED  BY <2>2, <2>3, <2>4, <2>5, <2>6, <2>7, TicketStep DEF sessionVars, ticketVars
<1>2. CASE CheckIn(w)
  <2>1. PICK r : /\ r = [req[w] EXCEPT !.pc = "reread", !.op = "view", !.admits = FALSE]
                 /\ req' = [req EXCEPT ![w] = r]
    BY <1>2 DEF CheckIn
  <2>2. req[w].target \in Placed /\ req[w] \in Requests
    BY <1>2 DEF CheckIn, IInv, RequestsAnchored, Anchored, TypeOK
  <2>3. r \in Requests /\ Anchored(Placed, r)
    BY <2>1, <2>2 DEF Requests, PCs, Anchored
  <2>4. UNCHANGED <<clock, sessionVars, orderVars, ticketStatus>>
    BY <1>2 DEF CheckIn
  <2>5. checkedIn' \subseteq Tickets
    BY <1>2 DEF CheckIn, CheckInTargets, Admissible, WithStatus, TicketsOf, IInv, TypeOK
  <2>6. TypeOK'
    BY <2>1, <2>3, <2>4, <2>5 DEF sessionVars, orderVars, IInv, TypeOK
  <2>7. OrdersPlaced' /\ Placed' = Placed
    BY <2>4 DEF orderVars, IInv, OrdersPlaced, Placed
  <2>8. RequestsAnchored'
    <3>1. \A v \in Workers : Anchored(Placed, req'[v])
      BY <2>1, <2>3, StillAnchored DEF IInv, TypeOK
    <3>. QED  BY <2>7, <3>1 DEF RequestsAnchored
  <2>9. SeatCounterExact' /\ NoDoubleBooking' /\ CancelledSessionEmpty'
    BY <2>4 DEF sessionVars, orderVars, IInv, SeatCounterExact, NoDoubleBooking,
                CancelledSessionEmpty, Blocking, WithStatus, SessionTickets
  <2>. QED  BY <2>6, <2>7, <2>8, <2>9 DEF IInv
<1>. QED  BY <1>1, <1>2

\* A new order: its tickets join the blocking tickets of its session, after
\* the expiry of elapsed holds, and no other ticket has one of its seats.
LEMMA PurchaseAction ==
    ASSUME IInv, NEW w \in Workers, NEW o \in Orders, NEW ses \in Sessions,
           NEW S \in SUBSET Seats, Purchase(w, o, ses, S)
    PROVE  IInv'
<1>. DEFINE now    == req[w].now
            before == ExpiredTickets(ses, now)
            free   == ExpiredSeats(ses, now)
            basket == {o} \X S
<1>1. /\ orderStatus[o] = "none" /\ orderSession[o] = None
      /\ \A s \in Seats : ticketStatus[<<o, s>>] = "none"
  BY DEF Purchase, IInv, OrdersPlaced
<1>2. /\ sessionStatus[ses] = "scheduled"
      /\ Cardinality(S) <= free[ses]
      /\ SeatsFree(before, ses, S)
      /\ CanRestore(ses, Cardinality(StaleHolds(ses, now)))
      /\ ticketStatus' = Mark(before, basket, "reserved")
      /\ availableSeats' = [free EXCEPT ![ses] = @ - Cardinality(S)]
      /\ orderStatus' = [ExpiredOrders(ses, now) EXCEPT ![o] = "pending_payment"]
      /\ orderSession' = [orderSession EXCEPT ![o] = ses]
      /\ expiresAt' = [expiresAt EXCEPT ![o] = now + Hold]
      /\ req' = [req EXCEPT ![w] = IdleRequest]
      /\ UNCHANGED <<clock, sessionStatus, startTime, checkedIn>>
  BY DEF Purchase, Purchasable, Finished
<1>3. /\ before \in TicketMap /\ free \in [Sessions -> Nat]
      /\ Exact(before, free) /\ Single(before)
  BY ExpiryKeepsCounters DEF IInv
<1>4. /\ ExpiredOrders(ses, now) \in [Orders -> OrderStatuses \cup {"none"}]
      /\ \A p \in Orders : ExpiredOrders(ses, now)[p] = "none" <=> orderStatus[p] = "none"
      /\ \A t \in Tickets : before[t] = "none" <=> ticketStatus[t] = "none"
  BY ExpiryKeepsPlaced DEF IInv
<1>5. \A s \in Seats : <<o, s>> \in Tickets /\ before[<<o, s>>] = "none"
  BY <1>1, <1>4 DEF Tickets
<1>6. free \in [Sessions -> 0 .. Capacity]
  BY <1>2, ExpiryFits
<1>7. /\ Cardinality(S) \in Nat
      /\ IsFiniteSet(basket) /\ Cardinality(basket) = Cardinality(S)
  <2>1. IsFiniteSet(S) /\ Cardinality(S) \in Nat
    BY ConstantsAssumption, FS_Subset, FS_CardinalityType
  <2>2. IsFiniteSet({o}) /\ Cardinality({o}) = 1
    BY FS_Singleton
  <2>. QED  BY <2>1, <2>2, FS_Product
<1>. HIDE DEF before, free, now
<1>8. ticketStatus' \in TicketMap
  BY <1>2, <1>3, MarkType DEF TicketMap, TicketStatuses
<1>9. /\ Blocking(ticketStatus, ses)' = Blocking(before, ses) \cup basket
      /\ Blocking(before, ses) \cap basket = {}
      /\ \A other \in Sessions \ {ses} :
            Blocking(ticketStatus, other)' = Blocking(before, other)
  <2>0. orderSession \in [Orders -> Sessions \cup {None}]
    BY DEF IInv, TypeOK
  <2>1. basket \subseteq Tickets
    BY DEF Tickets
  <2>2. \A t \in Tickets : t \in basket <=> t[1] = o /\ t[2] \in S
    BY DEF Tickets
  <2>3. \A t \in Tickets : t[1] \in Orders
    BY DEF Tickets
  <2>4. \A t \in Tickets : t[1] = o => before[t] = "none"
    BY <1>5 DEF Tickets
  <2>5. \A t \in Tickets : orderSession'[t[1]] = IF t[1] = o THEN ses ELSE orderSession[t[1]]
    BY <1>2, <2>0, <2>3
  <2>6. \A t \in Tickets : ticketStatus'[t] = IF t \in basket THEN "reserved" ELSE before[t]
    BY <1>2 DEF Mark
  <2>7. None \notin Sessions
    BY ConstantsAssumption
  <2>. HIDE DEF basket
  <2>8. Blocking(ticketStatus, ses)' = Blocking(before, ses) \cup basket
    BY <1>1, <2>1, <2>2, <2>4, <2>5, <2>6, <2>7
    DEF Blocking, WithStatus, SessionTickets, BlockingStatuses
  <2>9. Blocking(before, ses) \cap basket = {}
    BY <2>1, <2>2, <2>4 DEF Blocking, WithStatus, SessionTickets, BlockingStatuses
  <2>10. ASSUME NEW other \in Sessions \ {ses}
         PROVE  Blocking(ticketStatus, other)' = Blocking(before, other)
    BY <1>1, <2>1, <2>2, <2>4, <2>5, <2>6, <2>7
    DEF Blocking, WithStatus, SessionTickets, BlockingStatuses
  <2>. QED  BY <2>8, <2>9, <2>10
<1>10. /\ IsFiniteSet(Blocking(before, ses))
       /\ Cardinality(Blocking(before, ses)) \in Nat
  BY TicketsFinite DEF Blocking, WithStatus, SessionTickets
<1>11. SeatCounterExact'
  <2>1. Cardinality(Blocking(before, ses) \cup basket)
          = Cardinality(Blocking(before, ses)) + Cardinality(S)
    <3>1. Cardinality({}) = 0
      BY FS_EmptySet
    <3>. HIDE DEF basket
    <3>2. Cardinality(Blocking(before, ses) \cup basket)
            = Cardinality(Blocking(before, ses)) + Cardinality(basket)
              - Cardinality(Blocking(before, ses) \cap basket)
      BY <1>7, <1>10, FS_Union
    <3>3. Cardinality(Blocking(before, ses) \cap basket) = 0
      BY <1>9, <3>1
    <3>. QED  BY <1>7, <1>10, <3>2, <3>3
  <2>2. free[ses] = Capacity - Cardinality(Blocking(before, ses))
    BY <1>3 DEF Exact
  <2>3. availableSeats'[ses] = Capacity - Cardinality(Blocking(ticketStatus, ses)')
    <3>1. availableSeats'[ses] = free[ses] - Cardinality(S)
      BY <1>2, <1>3
    <3>2. Cardinality(Blocking(ticketStatus, ses)')
            = Cardinality(Blocking(before, ses)) + Cardinality(S)
      BY <1>9, <2>1
    <3>. QED  BY <1>7, <1>10, <2>2, <3>1, <3>2, CapacityType
  <2>4. ASSUME NEW other \in Sessions \ {ses}
        PROVE  availableSeats'[other] = Capacity - Cardinality(Blocking(ticketStatus, other)')
    BY <1>2, <1>3, <1>9 DEF Exact
  <2>. QED  BY <2>3, <2>4 DEF SeatCounterExact
<1>12. NoDoubleBooking'
  <2>1. \A t, u \in Blocking(ticketStatus, ses)' : t[2] = u[2] => t = u
    <3>1. \A t, u \in basket : t[2] = u[2] => t = u
      OBVIOUS
    <3>2. \A t \in Blocking(before, ses), u \in basket : t[2] # u[2]
      BY <1>2 DEF SeatsFree
    <3>3. \A t, u \in Blocking(before, ses) : t[2] = u[2] => t = u
      BY <1>3 DEF Single
    <3>. HIDE DEF basket
    <3>. QED  BY <1>9, <3>1, <3>2, <3>3
  <2>2. ASSUME NEW other \in Sessions \ {ses}
        PROVE  \A t, u \in Blocking(ticketStatus, other)' : t[2] = u[2] => t = u
    BY <1>3, <1>9 DEF Single
  <2>. QED  BY <2>1, <2>2 DEF NoDoubleBooking
<1>13. CancelledSessionEmpty'
  <2>1. ASSUME NEW other \in Sessions, sessionStatus'[other] \in {"cancelled", "deleted"}
        PROVE  Blocking(ticketStatus, other)' = {}
    <3>1. other # ses /\ sessionStatus[other] \in {"cancelled", "deleted"}
      BY <1>2, <2>1
    <3>2. Blocking(before, other) \subseteq Blocking(ticketStatus, other)
      BY ExpiryFits DEF before
    <3>. QED  BY <1>9, <3>1, <3>2 DEF IInv, CancelledSessionEmpty
  <2>. QED  BY <2>1 DEF CancelledSessionEmpty
<1>14. TypeOK'
  <2>1. availableSeats' \in [Sessions -> 0 .. Capacity]
    BY <1>2, <1>6, <1>7, CapacityType
  <2>2. orderStatus' \in [Orders -> OrderStatuses \cup {"none"}]
    BY <1>2, <1>4 DEF OrderStatuses
  <2>3. /\ expiresAt' \in [Orders -> Nat]
        /\ orderSession' \in [Orders -> Sessions \cup {None}]
    BY <1>2, ConstantsAssumption DEF IInv, TypeOK, Requests, now
  <2>4. req' \in [Workers -> Requests]
    BY <1>2, IdleAnchored DEF IInv, TypeOK
  <2>. QED  BY <1>2, <1>8, <2>1, <2>2, <2>3, <2>4 DEF IInv, TypeOK, TicketMap
<1>15. OrdersPlaced' /\ Placed \subseteq Placed'
  <2>1. \A p \in Orders :
           /\ orderStatus'[p] = "none" <=> p # o /\ orderStatus[p] = "none"
           /\ orderSession'[p] = IF p = o THEN ses ELSE orderSession[p]
    BY <1>2, <1>4 DEF IInv, TypeOK
  <2>2. \A p \in Orders : p # o =>
           \A s \in Seats : ticketStatus'[<<p, s>>] = "none" <=> ticketStatus[<<p, s>>] = "none"
    BY <1>2, <1>4 DEF Mark, Tickets
  <2>. QED  BY <2>1, <2>2 DEF IInv, OrdersPlaced, Placed
<1>16. RequestsAnchored'
  <2>1. \A v \in Workers : Anchored(Placed', req'[v])
    BY <1>2, <1>15, IdleAnchored, StillAnchored DEF IInv, TypeOK
  <2>. QED  BY <2>1 DEF RequestsAnchored
<1>. QED  BY <1>11, <1>12, <1>13, <1>14, <1>15, <1>16 DEF IInv

-----------------------------------------------------------------------------
(***************************************************************************)
(* The theorems.                                                           *)
(***************************************************************************)

\* The empty hall satisfies the invariant.
LEMMA InitIInv == Init => IInv
<1>. SUFFICES ASSUME Init PROVE IInv
  OBVIOUS
<1>1. TypeOK
  <2>1. /\ clock \in Nat
        /\ sessionStatus \in [Sessions -> SessionStatuses]
    BY DEF Init, SessionStatuses
  <2>2. startTime \in [Sessions -> Nat]
    BY ConstantsAssumption DEF Init
  <2>3. availableSeats \in [Sessions -> 0 .. Capacity]
    BY CapacityType DEF Init
  <2>4. /\ orderStatus \in [Orders -> OrderStatuses \cup {"none"}]
        /\ orderSession \in [Orders -> Sessions \cup {None}]
        /\ expiresAt \in [Orders -> Nat]
    BY DEF Init
  <2>5. /\ ticketStatus \in [Tickets -> TicketStatuses \cup {"none"}]
        /\ checkedIn \subseteq Tickets
    BY DEF Init
  <2>6. req \in [Workers -> Requests]
    BY IdleAnchored DEF Init
  <2>. QED  BY <2>1, <2>2, <2>3, <2>4, <2>5, <2>6 DEF TypeOK
<1>2. OrdersPlaced
  BY DEF Init, OrdersPlaced, Tickets
<1>3. RequestsAnchored
  BY IdleAnchored DEF Init, RequestsAnchored
<1>4. \A ses \in Sessions : Blocking(ticketStatus, ses) = {}
  BY DEF Init, Blocking, WithStatus, SessionTickets, BlockingStatuses
<1>5. Cardinality({}) = 0
  BY FS_EmptySet
<1>6. SeatCounterExact
  BY <1>4, <1>5, CapacityType DEF Init, SeatCounterExact
<1>7. NoDoubleBooking /\ CancelledSessionEmpty
  BY <1>4 DEF NoDoubleBooking, CancelledSessionEmpty
<1>. QED  BY <1>1, <1>2, <1>3, <1>6, <1>7 DEF IInv

\* Every step preserves it.
LEMMA NextIInv == IInv /\ [Next]_vars => IInv'
<1>. SUFFICES ASSUME IInv, [Next]_vars PROVE IInv'
  OBVIOUS
<1>1. CASE UNCHANGED vars
  BY <1>1, QuietStep DEF vars, IInv, TypeOK
<1>2. CASE Tick
  BY <1>2, QuietStep DEF Tick, IInv, TypeOK
<1>3. ASSUME NEW w \in Workers,
             \/ Arrive(w) \/ EndRequest(w) \/ ReadBack(w) \/ LoadTickets(w)
             \/ \E o \in Orders, op \in {"view", "checkin"} : OpenOrder(w, o, op)
      PROVE  IInv'
  BY <1>3, QuietActions
<1>4. ASSUME NEW w \in Workers,
             \/ SyncCompleted(w)
             \/ \E start \in StartTimes : MoveSession(w, start)
             \/ \E ses \in Sessions : DeleteSession(w, ses)
      PROVE  IInv'
  BY <1>4, SessionActions
<1>5. ASSUME NEW w \in Workers,
             \/ \E ses \in Sessions : ExpireHolds(w, ses) \/ CheckEditable(w, ses)
             \/ SyncHolds(w)
      PROVE  IInv'
  BY <1>5, ExpiryActions
<1>6. ASSUME NEW w \in Workers, NEW ses \in Sessions, CancelSession(w, ses)
      PROVE  IInv'
  BY <1>6, CancelSessionAction
<1>7. ASSUME NEW w \in Workers, NEW ses \in Sessions, NEW o \in Orders,
             NEW S \in SUBSET Seats, Purchase(w, o, ses, S)
      PROVE  IInv'
  BY <1>7, PurchaseAction
<1>8. ASSUME NEW w \in Workers, NEW t \in Tickets, CancelTicket(w, t)
      PROVE  IInv'
  BY <1>8, CancelTicketAction
<1>9. ASSUME NEW w \in Workers, NEW o \in Orders, Finalize(w, o)
      PROVE  IInv'
  BY <1>9, FinalizeAction
<1>10. ASSUME NEW w \in Workers, NEW o \in Orders, NEW outcome \in ReleaseOutcomes,
              Release(w, o, outcome)
       PROVE  IInv'
  BY <1>10, ReleaseAction
<1>11. ASSUME NEW w \in Workers, NEW o \in Orders, NEW actor \in {"customer", "admin"},
              CancelOrder(w, o, actor)
       PROVE  IInv'
  BY <1>11, CancelOrderAction
<1>12. ASSUME NEW w \in Workers, WriteAggregate(w) \/ CheckIn(w)
       PROVE  IInv'
  BY <1>12, ReadPathWrites
<1>. QED
  BY <1>1, <1>2, <1>3, <1>4, <1>5, <1>6, <1>7, <1>8, <1>9, <1>10, <1>11, <1>12 DEF Next

LEMMA Invariance == Spec => []IInv
BY InitIInv, NextIInv, PTL DEF Spec

\* Every variable keeps its type, whatever the interleaving; in particular no
\* seat counter ever leaves 0 .. Capacity.
THEOREM TypeCorrect == Spec => []TypeOK
<1>1. IInv => TypeOK
  BY DEF IInv
<1>. QED  BY <1>1, Invariance, PTL

\* The seat counter of every session always equals the hall minus the held
\* and sold tickets: every transaction that changes the one changes the other.
THEOREM SeatCountersAreExact == Spec => []SeatCounterExact
<1>1. IInv => SeatCounterExact
  BY DEF IInv
<1>. QED  BY <1>1, Invariance, PTL

\* Two orders never hold or own the same seat of a session.
THEOREM NoSeatIsBookedTwice == Spec => []NoDoubleBooking
<1>1. IInv => NoDoubleBooking
  BY DEF IInv
<1>. QED  BY <1>1, Invariance, PTL

\* Once a session is cancelled or deleted, none of its tickets blocks a seat.
THEOREM CancelledSessionsAreEmpty == Spec => []CancelledSessionEmpty
<1>1. IInv => CancelledSessionEmpty
  BY DEF IInv
<1>. QED  BY <1>1, Invariance, PTL

\* The guard of update_session_if_editable reads nothing but the session
\* document, and yet no session with a held or sold ticket is ever moved: the
\* counter it compares with the hall is exact.
THEOREM SoldSessionsStayPut == Spec => SoldSessionNotMoved
<1>1. ASSUME IInv, [Next]_vars
      PROVE  [\A ses \in Sessions :
                 startTime'[ses] # startTime[ses] => Blocking(ticketStatus, ses) = {}]_vars
  <2>1. ASSUME NEW w \in Workers, NEW start \in StartTimes, MoveSession(w, start),
               NEW ses \in Sessions, startTime'[ses] # startTime[ses]
        PROVE  Blocking(ticketStatus, ses) = {}
    <3>1. ses = req[w].target /\ availableSeats[ses] = Capacity
      BY <1>1, <2>1 DEF MoveSession, Editable, IInv, TypeOK
    <3>2. /\ IsFiniteSet(Blocking(ticketStatus, ses))
          /\ Cardinality(Blocking(ticketStatus, ses)) \in Nat
      BY TicketsFinite DEF Blocking, WithStatus, SessionTickets
    <3>3. Cardinality(Blocking(ticketStatus, ses)) = 0
      BY <1>1, <3>1, <3>2, CapacityType DEF IInv, SeatCounterExact
    <3>. QED  BY <3>2, <3>3, FS_EmptySet
  <2>2. ASSUME ~ \E w \in Workers, start \in StartTimes : MoveSession(w, start)
        PROVE  UNCHANGED startTime
    <3>1. UNCHANGED vars \/ Tick => UNCHANGED startTime
      BY DEF vars, Tick, sessionVars
    <3>2. ASSUME NEW w \in Workers
          PROVE  Arrive(w) \/ SyncCompleted(w) \/ EndRequest(w) \/ SyncHolds(w)
                   \/ ReadBack(w) \/ LoadTickets(w) \/ WriteAggregate(w) \/ CheckIn(w)
                   => UNCHANGED startTime
      BY DEF Arrive, SyncCompleted, EndRequest, SyncHolds, ReadBack, LoadTickets,
             WriteAggregate, CheckIn, sessionVars
    <3>3. ASSUME NEW w \in Workers, NEW ses \in Sessions
          PROVE  ExpireHolds(w, ses) \/ CancelSession(w, ses) \/ CheckEditable(w, ses)
                   \/ DeleteSession(w, ses) => UNCHANGED startTime
      BY DEF ExpireHolds, CancelSession, CheckEditable, DeleteSession
    <3>4. ASSUME NEW w \in Workers, NEW ses \in Sessions, NEW o \in Orders,
                 NEW S \in SUBSET Seats
          PROVE  Purchase(w, o, ses, S) => UNCHANGED startTime
      BY DEF Purchase
    <3>5. ASSUME NEW w \in Workers, NEW t \in Tickets
          PROVE  CancelTicket(w, t) => UNCHANGED startTime
      BY DEF CancelTicket
    <3>6. ASSUME NEW w \in Workers, NEW o \in Orders
          PROVE  /\ Finalize(w, o) => UNCHANGED startTime
                 /\ \A outcome \in ReleaseOutcomes : Release(w, o, outcome) => UNCHANGED startTime
                 /\ \A actor \in {"customer", "admin"} :
                       CancelOrder(w, o, actor) => UNCHANGED startTime
                 /\ \A op \in {"view", "checkin"} : OpenOrder(w, o, op) => UNCHANGED startTime
      BY DEF Finalize, Release, CancelOrder, OpenOrder, sessionVars
    <3>. QED  BY <1>1, <2>2, <3>1, <3>2, <3>3, <3>4, <3>5, <3>6 DEF Next
  <2>. QED  BY <2>1, <2>2
<1>. QED  BY <1>1, Invariance, PTL DEF Spec, SoldSessionNotMoved

=============================================================================

-------------------------- MODULE AllocationProofs --------------------------
(***************************************************************************)
(* Booking implements SeatAllocation, for any number of sessions, orders,  *)
(* seats and requests: every step of the detailed protocol gives places of *)
(* one session back, takes places for a new order, sells a whole order, or *)
(* leaves the allocation alone.                                            *)
(***************************************************************************)
EXTENDS OrderProofs, MCBooking

\* Who owns a place: the one order of the session whose ticket blocks it.
Owns(o, ses, s) == orderSession[o] = ses /\ ticketStatus[<<o, s>>] \in BlockingStatuses

OwnerRead ==
    \A ses \in Sessions, s \in Seats :
        /\ Owner(<<ses, s>>) \in Orders \cup {None}
        /\ \A o \in Orders : Owner(<<ses, s>>) = o <=> Owns(o, ses, s)

LEMMA OwnerIsRead == IInv => OwnerRead
<1>. SUFFICES ASSUME IInv, NEW ses \in Sessions, NEW s \in Seats
              PROVE  /\ Owner(<<ses, s>>) \in Orders \cup {None}
                     /\ \A o \in Orders : Owner(<<ses, s>>) = o <=> Owns(o, ses, s)
  BY DEF OwnerRead
<1>. DEFINE B == Blocking(ticketStatus, ses)
            x == CHOOSE t \in B : t[2] = s
<1>1. Owner(<<ses, s>>) = IF \E t \in B : t[2] = s THEN x[1] ELSE None
  BY DEF Owner
<1>2. \A o \in Orders : Owns(o, ses, s) <=> <<o, s>> \in B
  BY DEF Owns, Blocking, WithStatus, SessionTickets, Tickets
<1>3. \A t \in B : \E o \in Orders, seat \in Seats : t = <<o, seat>>
  BY DEF Blocking, WithStatus, SessionTickets, Tickets
<1>4. \A t, u \in B : t[2] = u[2] => t = u
  BY DEF IInv, NoDoubleBooking
<1>. HIDE DEF B
<1>5. CASE \E t \in B : t[2] = s
  <2>1. x \in B /\ x[2] = s
    BY <1>5
  <2>2. PICK o \in Orders : x = <<o, s>>
    BY <1>3, <2>1
  <2>. HIDE DEF x
  <2>3. Owner(<<ses, s>>) = o
    BY <1>1, <1>5, <2>2
  <2>4. Owns(o, ses, s)
    BY <1>2, <2>1, <2>2
  <2>5. \A p \in Orders : Owns(p, ses, s) => p = o
    <3>1. ASSUME NEW p \in Orders, Owns(p, ses, s)  PROVE <<p, s>> = x
      BY <1>2, <1>4, <2>1, <2>2, <3>1
    <3>. QED  BY <2>2, <3>1
  <2>. QED  BY <2>3, <2>4, <2>5
<1>6. CASE ~ \E t \in B : t[2] = s
  BY <1>1, <1>2, <1>6, ConstantsAssumption
<1>. QED  BY <1>5, <1>6

\* The phase of an order, read seat by seat.
PhaseRead ==
    \A o \in Orders :
        /\ Phase(o) \in {"new", "held", "sold", "gone"}
        /\ Phase(o) = "new" <=> \A s \in Seats : ticketStatus[<<o, s>>] = "none"
        /\ Phase(o) = "held" <=> /\ Has(ticketStatus, o, "reserved")
                                 /\ \A s \in Seats : ticketStatus[<<o, s>>] \in {"none", "reserved"}
        /\ Phase(o) = "sold" <=> Has(ticketStatus, o, "purchased")

LEMMA PhaseIsRead == PhaseRead
<1>. SUFFICES ASSUME NEW o \in Orders
              PROVE  /\ Phase(o) \in {"new", "held", "sold", "gone"}
                     /\ Phase(o) = "new" <=> \A s \in Seats : ticketStatus[<<o, s>>] = "none"
                     /\ Phase(o) = "held" <=>
                           /\ Has(ticketStatus, o, "reserved")
                           /\ \A s \in Seats : ticketStatus[<<o, s>>] \in {"none", "reserved"}
                     /\ Phase(o) = "sold" <=> Has(ticketStatus, o, "purchased")
  BY DEF PhaseRead
<1>. DEFINE S == StatusesOf(ticketStatus, o)
<1>1. Phase(o) = CASE S = {}               -> "new"
                   [] S = {"reserved"}     -> "held"
                   [] "purchased" \in S    -> "sold"
                   [] OTHER                -> "gone"
  BY DEF Phase, StatusesOf
<1>2. \A x : x \in S <=> x # "none" /\ \E s \in Seats : ticketStatus[<<o, s>>] = x
  BY StatusesBySeat
<1>. HIDE DEF S
<1>3. S = {} <=> \A s \in Seats : ticketStatus[<<o, s>>] = "none"
  BY <1>2
<1>4. S = {"reserved"} <=> /\ Has(ticketStatus, o, "reserved")
                           /\ \A s \in Seats : ticketStatus[<<o, s>>] \in {"none", "reserved"}
  BY <1>2 DEF Has
<1>5. "purchased" \in S <=> Has(ticketStatus, o, "purchased")
  BY <1>2 DEF Has
<1>. QED  BY <1>1, <1>3, <1>4, <1>5

\* The allocation, and the one a step leaves behind.
WillOwn(o, ses, s) == orderSession'[o] = ses /\ ticketStatus'[<<o, s>>] \in BlockingStatuses

LEMMA OwnersNow ==
    ASSUME IInv, NEW ses \in Sessions, NEW s \in Seats
    PROVE  /\ Owners[<<ses, s>>] \in Orders \cup {None}
           /\ \A o \in Orders : Owners[<<ses, s>>] = o <=> Owns(o, ses, s)
BY OwnerIsRead DEF OwnerRead, Owners

LEMMA OwnersNext ==
    ASSUME IInv', NEW ses \in Sessions, NEW s \in Seats
    PROVE  /\ Owners'[<<ses, s>>] \in Orders \cup {None}
           /\ \A o \in Orders : Owners'[<<ses, s>>] = o <=> WillOwn(o, ses, s)
<1>1. OwnerRead'
  BY OwnerIsRead, PTL
<1>2. /\ Owner(<<ses, s>>)' \in Orders \cup {None}
      /\ \A o \in Orders : Owner(<<ses, s>>)' = o <=> WillOwn(o, ses, s)
  BY <1>1 DEF OwnerRead, Owns, WillOwn
<1>3. Owners'[<<ses, s>>] = Owner(<<ses, s>>)'
  BY DEF Owners
<1>. QED  BY <1>2, <1>3

LEMMA PhasesNow ==
    ASSUME NEW o \in Orders
    PROVE  /\ OrderPhases[o] \in {"new", "held", "sold", "gone"}
           /\ OrderPhases[o] = "new" <=> \A s \in Seats : ticketStatus[<<o, s>>] = "none"
           /\ OrderPhases[o] = "held" <=>
                 /\ Has(ticketStatus, o, "reserved")
                 /\ \A s \in Seats : ticketStatus[<<o, s>>] \in {"none", "reserved"}
           /\ OrderPhases[o] = "sold" <=> Has(ticketStatus, o, "purchased")
BY PhaseIsRead DEF PhaseRead, OrderPhases

LEMMA PhasesNext ==
    ASSUME NEW o \in Orders
    PROVE  /\ OrderPhases'[o] \in {"new", "held", "sold", "gone"}
           /\ OrderPhases'[o] = "new" <=> \A s \in Seats : ticketStatus'[<<o, s>>] = "none"
           /\ OrderPhases'[o] = "held" <=>
                 /\ Has(ticketStatus', o, "reserved")
                 /\ \A s \in Seats : ticketStatus'[<<o, s>>] \in {"none", "reserved"}
           /\ OrderPhases'[o] = "sold" <=> Has(ticketStatus', o, "purchased")
<1>1. PhaseRead'
  BY PhaseIsRead, PTL
<1>. QED  BY <1>1 DEF PhaseRead, Has, OrderPhases

\* Two allocations are equal when they agree place by place and order by
\* order.
LEMMA SameOwners ==
    ASSUME NEW f, f = [p \in Sessions \X Seats |-> f[p]],
           \A x \in Sessions, s \in Seats : Owners'[<<x, s>>] = f[<<x, s>>]
    PROVE  Owners' = f
<1>1. Owners' = [p \in Sessions \X Seats |-> Owners'[p]]
  BY DEF Owners
<1>. QED  BY <1>1

LEMMA SamePhases ==
    ASSUME NEW f, f = [o \in Orders |-> f[o]], \A o \in Orders : OrderPhases'[o] = f[o]
    PROVE  OrderPhases' = f
<1>1. OrderPhases' = [o \in Orders |-> OrderPhases'[o]]
  BY DEF OrderPhases
<1>. QED  BY <1>1

\* The tickets an order has decide its phase.
LEMMA SameTicketsSamePhase ==
    ASSUME NEW o \in Orders, \A s \in Seats : ticketStatus'[<<o, s>>] = ticketStatus[<<o, s>>]
    PROVE  OrderPhases'[o] = OrderPhases[o]
<1>1. /\ Has(ticketStatus', o, "reserved") <=> Has(ticketStatus, o, "reserved")
      /\ Has(ticketStatus', o, "purchased") <=> Has(ticketStatus, o, "purchased")
  BY DEF Has
<1>2. /\ (\A s \in Seats : ticketStatus'[<<o, s>>] = "none")
            <=> \A s \in Seats : ticketStatus[<<o, s>>] = "none"
      /\ (\A s \in Seats : ticketStatus'[<<o, s>>] \in {"none", "reserved"})
            <=> \A s \in Seats : ticketStatus[<<o, s>>] \in {"none", "reserved"}
  OBVIOUS
<1>. QED  BY <1>1, <1>2, PhasesNow, PhasesNext

-----------------------------------------------------------------------------
\* A step that gives back places of session ses, and does nothing else to
\* any ticket.
GivesSeatsBack(ses) ==
    /\ UNCHANGED orderSession
    /\ \A o \in Orders, s \in Seats :
          \/ ticketStatus'[<<o, s>>] = ticketStatus[<<o, s>>]
          \/ /\ orderSession[o] = ses
             /\ ticketStatus[<<o, s>>] \in BlockingStatuses
             /\ ticketStatus'[<<o, s>>] \in {"cancelled", "expired"}

\* The places that lose their owner.
Freed(ses) == {p \in {ses} \X Seats : Owners[p] # None /\ Owners'[p] = None}

LEMMA FreedOwners ==
    ASSUME IInv, IInv', NEW ses \in Sessions, GivesSeatsBack(ses),
           NEW x \in Sessions, NEW s \in Seats
    PROVE  Owners'[<<x, s>>] = IF <<x, s>> \in Freed(ses) THEN None ELSE Owners[<<x, s>>]
<1>1. \A o \in Orders : WillOwn(o, x, s) => Owns(o, x, s)
  BY DEF GivesSeatsBack, Owns, WillOwn, BlockingStatuses
<1>2. \A o \in Orders : Owns(o, x, s) /\ x # ses => WillOwn(o, x, s)
  BY DEF GivesSeatsBack, Owns, WillOwn
<1>3. <<x, s>> \in Freed(ses) <=> x = ses /\ Owners[<<x, s>>] # None /\ Owners'[<<x, s>>] = None
  BY DEF Freed
<1>. QED  BY <1>1, <1>2, <1>3, OwnersNow, OwnersNext

LEMMA FreedPhases ==
    ASSUME Life, Life', NEW ses \in Sessions, GivesSeatsBack(ses), NEW o \in Orders
    PROVE  OrderPhases'[o] = Promise!PhaseWithout(Freed(ses))[o]
<1>. DEFINE R    == Freed(ses)
            f    == Promise!Without(R)
            left == \E p \in Sessions \X Seats : f[p] = o
<1>1. \A x \in Sessions, s \in Seats :
         Owners'[<<x, s>>] = IF <<x, s>> \in R THEN None ELSE Owners[<<x, s>>]
  BY FreedOwners DEF Life
<1>2. Promise!PhaseWithout(R)[o] =
         IF o \in {Owners[p] : p \in R} /\ (OrderPhases[o] = "sold" => ~ left)
         THEN "gone" ELSE OrderPhases[o]
  BY DEF Promise!PhaseWithout, Promise!OwnersOf
<1>3. o \in {Owners[p] : p \in R} <=> \E s \in Seats : Owns(o, ses, s) /\ ~ WillOwn(o, ses, s)
  <2>1. ASSUME NEW s \in Seats
        PROVE  <<ses, s>> \in R /\ Owners[<<ses, s>>] = o <=> Owns(o, ses, s) /\ ~ WillOwn(o, ses, s)
    <3>1. /\ Owners[<<ses, s>>] = o <=> Owns(o, ses, s)
          /\ Owners'[<<ses, s>>] = o <=> WillOwn(o, ses, s)
      BY OwnersNow, OwnersNext DEF Life
    <3>2. <<ses, s>> \in R => Owners'[<<ses, s>>] = None
      BY <1>1
    <3>. HIDE DEF R
    <3>. QED  BY <1>1, <3>1, <3>2, ConstantsAssumption
  <2>2. \A p \in R : \E s \in Seats : p = <<ses, s>>
    BY DEF Freed
  <2>. HIDE DEF R
  <2>. QED  BY <2>1, <2>2
<1>4. left <=> \E x \in Sessions, s \in Seats : WillOwn(o, x, s)
  <2>1. \A x \in Sessions, s \in Seats : Promise!Without(R)[<<x, s>>] = Owners'[<<x, s>>]
    BY <1>1 DEF Promise!Without
  <2>2. \A x \in Sessions, s \in Seats : Owners'[<<x, s>>] = o <=> WillOwn(o, x, s)
    BY OwnersNext DEF Life
  <2>. HIDE DEF R, f
  <2>3. left <=> \E x \in Sessions, s \in Seats : f[<<x, s>>] = o
    <3>1. \A p \in Sessions \X Seats : \E x \in Sessions, s \in Seats : p = <<x, s>>
      OBVIOUS
    <3>2. \A x \in Sessions, s \in Seats : <<x, s>> \in Sessions \X Seats
      OBVIOUS
    <3>. QED  BY <3>1, <3>2, Zenon
  <2>4. \A x \in Sessions, s \in Seats : f[<<x, s>>] = o <=> WillOwn(o, x, s)
    BY <2>1, <2>2 DEF f
  <2>. QED  BY <2>3, <2>4
<1>. HIDE DEF R, f, left
<1>5. CASE \A s \in Seats : ticketStatus'[<<o, s>>] = ticketStatus[<<o, s>>]
  <2>1. OrderPhases'[o] = OrderPhases[o]
    BY <1>5, SameTicketsSamePhase
  <2>2. ~ \E s \in Seats : Owns(o, ses, s) /\ ~ WillOwn(o, ses, s)
    BY <1>5 DEF GivesSeatsBack, Owns, WillOwn
  <2>. QED  BY <1>2, <1>3, <2>1, <2>2 DEF R
<1>6. ASSUME NEW z \in Seats, ticketStatus'[<<o, z>>] # ticketStatus[<<o, z>>]
      PROVE  OrderPhases'[o] = Promise!PhaseWithout(R)[o]
  <2>1. Owns(o, ses, z) /\ ~ WillOwn(o, ses, z)
    BY <1>6 DEF GivesSeatsBack, Owns, WillOwn, BlockingStatuses
  <2>2. OrderPhases'[o] \in {"sold", "gone"}
    BY <1>6, PhasesNext DEF GivesSeatsBack
  <2>3. Has(ticketStatus', o, "purchased") => Has(ticketStatus, o, "purchased")
    BY DEF GivesSeatsBack, Has
  <2>4. OrderPhases[o] = "sold" => (Has(ticketStatus', o, "purchased") <=> left)
    <3>1. OrderPhases[o] = "sold" => ~ Has(ticketStatus', o, "reserved")
      <4>1. OrderPhases[o] = "sold" => ~ Has(ticketStatus, o, "reserved")
        BY PhasesNow DEF Life, StoredFits, Fits
      <4>. QED  BY <4>1 DEF GivesSeatsBack, Has
    <3>2. orderSession'[o] = ses
      BY <2>1 DEF GivesSeatsBack, Owns
    <3>. QED  BY <1>4, <3>1, <3>2 DEF WillOwn, Has, BlockingStatuses
  <2>. QED  BY <1>2, <1>3, <2>1, <2>2, <2>3, <2>4, PhasesNow, PhasesNext
<1>. QED  BY <1>5, <1>6 DEF R

LEMMA GiveBackStep ==
    ASSUME Life, Life', NEW ses \in Sessions, GivesSeatsBack(ses)
    PROVE  \/ UNCHANGED <<Owners, OrderPhases>>
           \/ \E R \in SUBSET Promise!Taken(ses) : Promise!GiveBack(ses, R)
<1>. DEFINE R == Freed(ses)
<1>1. Owners' = Promise!Without(R)
  <2>1. \A x \in Sessions, s \in Seats : Owners'[<<x, s>>] = Promise!Without(R)[<<x, s>>]
    BY FreedOwners DEF Life, Promise!Without
  <2>2. Promise!Without(R) = [p \in Sessions \X Seats |-> Promise!Without(R)[p]]
    BY DEF Promise!Without
  <2>. HIDE DEF R
  <2>. QED  BY <2>1, <2>2, SameOwners
<1>2. OrderPhases' = Promise!PhaseWithout(R)
  <2>1. \A o \in Orders : OrderPhases'[o] = Promise!PhaseWithout(R)[o]
    BY FreedPhases
  <2>2. Promise!PhaseWithout(R) = [o \in Orders |-> Promise!PhaseWithout(R)[o]]
    BY DEF Promise!PhaseWithout
  <2>. HIDE DEF R
  <2>. QED  BY <2>1, <2>2, SamePhases
<1>3. R \in SUBSET Promise!Taken(ses)
  BY DEF Freed, Promise!Taken, Promise!Places
<1>4. CASE R = {}
  <2>1. Promise!Without(R) = Owners
    BY <1>4 DEF Promise!Without, Owners
  <2>2. Promise!PhaseWithout(R) = OrderPhases
    BY <1>4 DEF Promise!PhaseWithout, Promise!OwnersOf, OrderPhases
  <2>. QED  BY <1>1, <1>2, <2>1, <2>2
<1>5. CASE R # {}
  BY <1>1, <1>2, <1>3, <1>5 DEF Promise!GiveBack
<1>. QED  BY <1>4, <1>5

-----------------------------------------------------------------------------
(***************************************************************************)
(* The steps that give seats back.                                         *)
(***************************************************************************)

LEMMA MarkingGivesBack ==
    ASSUME NEW ses \in Sessions, NEW T, NEW st \in {"cancelled", "expired"},
           \A t \in T : orderSession[t[1]] = ses /\ ticketStatus[t] \in BlockingStatuses,
           ticketStatus' = Mark(ticketStatus, T, st), UNCHANGED orderSession
    PROVE  GivesSeatsBack(ses)
<1>1. \A o \in Orders, s \in Seats :
         ticketStatus'[<<o, s>>] = IF <<o, s>> \in T THEN st ELSE ticketStatus[<<o, s>>]
  BY MarkedSeat
<1>. QED  BY <1>1 DEF GivesSeatsBack

LEMMA ExpiryGivesBack ==
    ASSUME Life, NEW w \in Workers,
           \/ \E ses \in Sessions : ExpireHolds(w, ses) \/ CheckEditable(w, ses)
           \/ SyncHolds(w)
    PROVE  \/ UNCHANGED <<orderSession, ticketStatus>>
           \/ \E ses \in Sessions : GivesSeatsBack(ses)
<1>1. ASSUME NEW ses \in Sessions, ReleaseStaleHolds(ses, req[w].now), UNCHANGED orderSession
      PROVE  GivesSeatsBack(ses)
  <2>1. \A t \in StaleHolds(ses, req[w].now) :
           orderSession[t[1]] = ses /\ ticketStatus[t] \in BlockingStatuses
    BY DEF StaleHolds, WithStatus, SessionTickets, BlockingStatuses
  <2>. QED  BY <1>1, <2>1, MarkingGivesBack DEF ReleaseStaleHolds, ExpiredTickets
<1>2. SyncHolds(w) => orderSession[req[w].target] \in Sessions
  BY DEF SyncHolds, Life, IInv, OrdersPlaced, Placed, RequestsAnchored, Anchored
<1>. QED  BY <1>1, <1>2 DEF ExpireHolds, CheckEditable, SyncHolds

LEMMA CancelTicketGivesBack ==
    ASSUME Life, NEW w \in Workers, NEW t \in Tickets, CancelTicket(w, t)
    PROVE  \E ses \in Sessions : GivesSeatsBack(ses)
<1>1. orderSession[t[1]] \in Sessions
  BY TicketsArePlaced DEF CancelTicket, Active, BlockingStatuses, Life, IInv
<1>. QED  BY <1>1, MarkingGivesBack DEF CancelTicket, Active

LEMMA CancelSessionGivesBack ==
    ASSUME NEW w \in Workers, NEW ses \in Sessions, CancelSession(w, ses)
    PROVE  GivesSeatsBack(ses)
<1>1. \A t \in Cascade(ses) : orderSession[t[1]] = ses /\ ticketStatus[t] \in BlockingStatuses
  BY DEF Cascade, Blocking, WithStatus, SessionTickets
<1>. QED  BY <1>1, MarkingGivesBack DEF CancelSession

LEMMA ReleaseGivesBack ==
    ASSUME Life, NEW w \in Workers, NEW o \in Orders, NEW outcome \in ReleaseOutcomes,
           Release(w, o, outcome)
    PROVE  \E ses \in Sessions : GivesSeatsBack(ses)
<1>. DEFINE held == WithStatus(ticketStatus, TicketsOf(ticketStatus, o), {"reserved"})
<1>1. orderSession[o] \in Sessions
  BY DEF Release, Life, IInv, OrdersPlaced
<1>2. ticketStatus' = Mark(ticketStatus, held, ReleasedTicketStatus(outcome)) /\ UNCHANGED orderSession
  BY DEF Release
<1>3. ReleasedTicketStatus(outcome) \in {"cancelled", "expired"}
  BY DEF ReleasedTicketStatus
<1>4. \A t \in held : orderSession[t[1]] = orderSession[o] /\ ticketStatus[t] \in BlockingStatuses
  BY DEF WithStatus, TicketsOf, BlockingStatuses
<1>. HIDE DEF held
<1>. QED  BY <1>1, <1>2, <1>3, <1>4, MarkingGivesBack

LEMMA CancelOrderGivesBack ==
    ASSUME Life, NEW w \in Workers, NEW o \in Orders, NEW actor \in {"customer", "admin"},
           CancelOrder(w, o, actor)
    PROVE  \E ses \in Sessions : GivesSeatsBack(ses)
<1>. DEFINE ses    == orderSession[o]
            T      == StaleHolds(ses, req[w].now)
            before == ExpiredTickets(ses, req[w].now)
            active == WithStatus(before, TicketsOf(before, o), BlockingStatuses)
<1>1. ses \in Sessions
  BY DEF CancelOrder, Life, IInv, OrdersPlaced
<1>2. ticketStatus' = Mark(before, active, "cancelled") /\ UNCHANGED orderSession
  BY DEF CancelOrder
<1>3. \A t \in T : orderSession[t[1]] = ses /\ ticketStatus[t] \in BlockingStatuses
  BY DEF StaleHolds, WithStatus, SessionTickets, BlockingStatuses
<1>4. \A t \in active : t[1] = o /\ before[t] \in BlockingStatuses
  BY DEF WithStatus, TicketsOf
<1>5. \A p \in Orders, s \in Seats :
         before[<<p, s>>] = IF <<p, s>> \in T THEN "expired" ELSE ticketStatus[<<p, s>>]
  BY MarkedSeat DEF ExpiredTickets
<1>. HIDE DEF T, before, active
<1>6. \A p \in Orders, s \in Seats :
         ticketStatus'[<<p, s>>] = IF <<p, s>> \in active THEN "cancelled" ELSE before[<<p, s>>]
  BY <1>2, MarkedSeat
<1>7. GivesSeatsBack(ses)
  <2>. SUFFICES ASSUME NEW p \in Orders, NEW s \in Seats,
                       ticketStatus'[<<p, s>>] # ticketStatus[<<p, s>>]
                PROVE  /\ orderSession[p] = ses
                       /\ ticketStatus[<<p, s>>] \in BlockingStatuses
                       /\ ticketStatus'[<<p, s>>] \in {"cancelled", "expired"}
    BY <1>2 DEF GivesSeatsBack
  <2>1. CASE <<p, s>> \in active
    BY <1>3, <1>4, <1>5, <1>6, <2>1
  <2>2. CASE <<p, s>> \notin active
    BY <1>3, <1>5, <1>6, <2>2
  <2>. QED  BY <2>1, <2>2
<1>. QED  BY <1>1, <1>7

-----------------------------------------------------------------------------
(***************************************************************************)
(* The sale of an order, and the placing of one.                           *)
(***************************************************************************)

LEMMA FinalizeSells ==
    ASSUME Life, Life', NEW w \in Workers, NEW o \in Orders, Finalize(w, o)
    PROVE  Promise!Sell(o)
<1>. DEFINE held == WithStatus(ticketStatus, TicketsOf(ticketStatus, o), {"reserved"})
<1>1. /\ orderStatus[o] = "pending_payment"
      /\ \A t \in TicketsOf(ticketStatus, o) : ticketStatus[t] = "reserved"
      /\ ticketStatus' = Mark(ticketStatus, held, "purchased")
      /\ UNCHANGED orderSession
  BY DEF Finalize, Finalizable
<1>2. \A s \in Seats : ticketStatus[<<o, s>>] \in {"none", "reserved"}
  BY <1>1 DEF TicketsOf, Tickets
<1>3. Has(ticketStatus, o, "reserved")
  BY <1>1 DEF Life, StoredFits, Fits
<1>4. \A p \in Orders, s \in Seats :
         ticketStatus'[<<p, s>>] = IF p = o /\ ticketStatus[<<p, s>>] = "reserved" THEN "purchased"
                                   ELSE ticketStatus[<<p, s>>]
  <2>. HIDE DEF held
  <2>1. \A p \in Orders, s \in Seats :
           ticketStatus'[<<p, s>>] = IF <<p, s>> \in held THEN "purchased" ELSE ticketStatus[<<p, s>>]
    BY <1>1, MarkedSeat
  <2>. QED  BY <2>1, HeldSeats DEF held
<1>5. OrderPhases[o] = "held"
  BY <1>2, <1>3, PhasesNow
<1>6. OrderPhases'[o] = "sold"
  BY <1>3, <1>4, PhasesNext DEF Has
<1>7. \A p \in Orders : p # o => OrderPhases'[p] = OrderPhases[p]
  BY <1>4, SameTicketsSamePhase
<1>8. OrderPhases' = [OrderPhases EXCEPT ![o] = "sold"]
  <2>. DEFINE f == [OrderPhases EXCEPT ![o] = "sold"]
  <2>1. f = [p \in Orders |-> f[p]] /\ \A p \in Orders : f[p] = IF p = o THEN "sold" ELSE OrderPhases[p]
    BY DEF OrderPhases
  <2>. HIDE DEF f
  <2>2. \A p \in Orders : OrderPhases'[p] = f[p]
    BY <1>6, <1>7, <2>1
  <2>3. OrderPhases' = f
    BY <2>1, <2>2, SamePhases
  <2>. QED  BY <2>3 DEF f
<1>9. Owners' = Owners
  <2>1. \A p \in Orders, x \in Sessions, s \in Seats : WillOwn(p, x, s) <=> Owns(p, x, s)
    BY <1>1, <1>4 DEF WillOwn, Owns, BlockingStatuses
  <2>2. \A x \in Sessions, s \in Seats : Owners'[<<x, s>>] = Owners[<<x, s>>]
    <3>. SUFFICES ASSUME NEW x \in Sessions, NEW s \in Seats
                  PROVE  Owners'[<<x, s>>] = Owners[<<x, s>>]
      OBVIOUS
    <3>. QED  BY <2>1, OwnersNow, OwnersNext DEF Life
  <2>3. Owners = [p \in Sessions \X Seats |-> Owners[p]]
    BY DEF Owners
  <2>. QED  BY <2>2, <2>3, SameOwners
<1>. QED  BY <1>5, <1>8, <1>9 DEF Promise!Sell

LEMMA PurchaseTakes ==
    ASSUME Life, Life', NEW w \in Workers, NEW o \in Orders, NEW ses \in Sessions,
           NEW S \in SUBSET Seats, Purchase(w, o, ses, S)
    PROVE  \E R \in SUBSET Promise!Taken(ses), P \in SUBSET Promise!Places(ses) :
              Promise!Take(o, ses, R, P)
<1>. DEFINE T      == StaleHolds(ses, req[w].now)
            before == ExpiredTickets(ses, req[w].now)
            R      == {p \in {ses} \X Seats : \E q \in Orders : <<q, p[2]>> \in T}
            P      == {ses} \X S
            f      == Promise!Without(R)
            g      == Promise!PhaseWithout(R)
<1>1. /\ orderStatus[o] = "none" /\ S # {}
      /\ ticketStatus' = Mark(before, {o} \X S, "reserved")
      /\ orderSession' = [orderSession EXCEPT ![o] = ses]
      /\ \A t \in Blocking(before, ses) : t[2] \notin S
  BY DEF Purchase, SeatsFree
<1>2. \A s \in Seats : <<o, s>> \in Tickets /\ ticketStatus[<<o, s>>] = "none"
  BY <1>1 DEF Life, IInv, OrdersPlaced, Tickets
<1>3. \A q \in Orders, s \in Seats :
         <<q, s>> \in T => orderSession[q] = ses /\ ticketStatus[<<q, s>>] = "reserved"
  BY DEF StaleHolds, WithStatus, SessionTickets
<1>4. \A q \in Orders, s \in Seats :
         before[<<q, s>>] = IF <<q, s>> \in T THEN "expired" ELSE ticketStatus[<<q, s>>]
  BY MarkedSeat DEF ExpiredTickets
<1>5. \A q \in Orders, s \in S : <<q, s>> \in Tickets /\ orderSession[q] = ses
                                    => before[<<q, s>>] \notin BlockingStatuses
  BY <1>1 DEF Blocking, WithStatus, SessionTickets
<1>. HIDE DEF T, before
<1>6. \A q \in Orders, s \in Seats :
         ticketStatus'[<<q, s>>] = IF q = o /\ s \in S THEN "reserved" ELSE before[<<q, s>>]
  <2>. DEFINE B == {o} \X S
  <2>1. \A q \in Orders, s \in Seats : <<q, s>> \in B <=> q = o /\ s \in S
    OBVIOUS
  <2>2. ticketStatus' = Mark(before, B, "reserved")
    BY <1>1
  <2>. HIDE DEF B
  <2>. SUFFICES ASSUME NEW q \in Orders, NEW s \in Seats
                PROVE  ticketStatus'[<<q, s>>]
                         = IF q = o /\ s \in S THEN "reserved" ELSE before[<<q, s>>]
    OBVIOUS
  <2>3. Mark(before, B, "reserved")[<<q, s>>] = IF <<q, s>> \in B THEN "reserved" ELSE before[<<q, s>>]
    BY MarkedSeat
  <2>. QED  BY <2>1, <2>2, <2>3
<1>7. \A q \in Orders : orderSession'[q] = IF q = o THEN ses ELSE orderSession[q]
  BY <1>1 DEF Life, IInv, TypeOK
<1>8. /\ f = [p \in Sessions \X Seats |-> f[p]]
      /\ \A x \in Sessions, s \in Seats :
            f[<<x, s>>] = IF <<x, s>> \in R THEN None ELSE Owners[<<x, s>>]
  BY DEF Promise!Without
<1>9. \A x \in Sessions, s \in Seats :
         <<x, s>> \in R <=> x = ses /\ \E q \in Orders : <<q, s>> \in T
  OBVIOUS
<1>10. \A p \in R : \E s \in Seats, q \in Orders : p = <<ses, s>> /\ <<q, s>> \in T
  OBVIOUS
<1>11. P \in SUBSET Promise!Places(ses) /\ P # {}
  <2>1. PICK s \in S : TRUE
    BY <1>1
  <2>2. <<ses, s>> \in P
    OBVIOUS
  <2>. QED  BY <2>2 DEF Promise!Places
<1>. HIDE DEF R, f
<1>12. R \in SUBSET Promise!Taken(ses)
  <2>. SUFFICES ASSUME NEW s \in Seats, NEW q \in Orders, <<q, s>> \in T
                PROVE  <<ses, s>> \in Promise!Taken(ses)
    BY <1>10
  <2>1. Owns(q, ses, s)
    BY <1>3 DEF Owns, BlockingStatuses
  <2>2. Owners[<<ses, s>>] # None
    BY <2>1, OwnersNow, ConstantsAssumption DEF Life
  <2>. QED  BY <2>2 DEF Promise!Taken, Promise!Places
<1>13. \A p \in R : OrderPhases[Owners[p]] # "sold"
  <2>. SUFFICES ASSUME NEW s \in Seats, NEW q \in Orders, <<q, s>> \in T
                PROVE  OrderPhases[Owners[<<ses, s>>]] # "sold"
    BY <1>10
  <2>1. Owners[<<ses, s>>] = q
    BY <1>3, OwnersNow DEF Owns, BlockingStatuses, Life
  <2>2. ~ Has(ticketStatus, q, "purchased")
    BY <1>3 DEF Life, StoredFits, Fits, Has
  <2>. QED  BY <2>1, <2>2, PhasesNow
<1>14. \A s \in S : f[<<ses, s>>] = None
  <2>. SUFFICES ASSUME NEW s \in S, <<ses, s>> \notin R
                PROVE  Owners[<<ses, s>>] = None
    BY <1>8
  <2>1. ASSUME NEW q \in Orders
        PROVE  ~ Owns(q, ses, s)
    <3>1. <<q, s>> \in Tickets /\ <<q, s>> \notin T
      BY <1>9 DEF Tickets
    <3>. QED  BY <1>4, <1>5, <3>1 DEF Owns
  <2>. QED  BY <2>1, OwnersNow DEF Life
<1>15. \A x \in Sessions, s \in Seats :
          Owners'[<<x, s>>] = IF x = ses /\ s \in S THEN o ELSE f[<<x, s>>]
  <2>. SUFFICES ASSUME NEW x \in Sessions, NEW s \in Seats
                PROVE  Owners'[<<x, s>>] = IF x = ses /\ s \in S THEN o ELSE f[<<x, s>>]
    OBVIOUS
  <2>1. CASE x = ses /\ s \in S
    <3>1. WillOwn(o, x, s)
      BY <1>6, <1>7, <2>1 DEF WillOwn, BlockingStatuses
    <3>. QED  BY <2>1, <3>1, OwnersNext DEF Life
  <2>2. CASE ~ (x = ses /\ s \in S)
    <3>1. \A q \in Orders : WillOwn(q, x, s) <=> Owns(q, x, s) /\ <<q, s>> \notin T
      <4>1. ~ WillOwn(o, x, s) /\ ~ Owns(o, x, s)
        BY <1>2, <1>3, <1>4, <1>6, <1>7, <2>2 DEF WillOwn, Owns, BlockingStatuses
      <4>2. \A q \in Orders : q # o => (WillOwn(q, x, s) <=> Owns(q, x, s) /\ <<q, s>> \notin T)
        BY <1>4, <1>6, <1>7 DEF WillOwn, Owns, BlockingStatuses
      <4>. QED  BY <4>1, <4>2
    <3>2. CASE <<x, s>> \in R
      <4>1. PICK q \in Orders : x = ses /\ <<q, s>> \in T
        BY <1>9, <3>2
      <4>2. Owners[<<x, s>>] = q
        BY <1>3, <4>1, OwnersNow DEF Owns, BlockingStatuses, Life
      <4>3. \A r \in Orders : ~ WillOwn(r, x, s)
        BY <3>1, <4>1, <4>2, OwnersNow DEF Life
      <4>4. Owners'[<<x, s>>] = None
        BY <4>3, OwnersNext DEF Life
      <4>. QED  BY <1>8, <2>2, <3>2, <4>4
    <3>3. CASE <<x, s>> \notin R
      <4>1. \A q \in Orders : WillOwn(q, x, s) <=> Owns(q, x, s)
        BY <1>3, <1>9, <3>1, <3>3 DEF Owns
      <4>2. Owners'[<<x, s>>] = Owners[<<x, s>>]
        BY <4>1, OwnersNow, OwnersNext DEF Life
      <4>. QED  BY <1>8, <2>2, <3>3, <4>2
    <3>. QED  BY <3>2, <3>3
  <2>. QED  BY <2>1, <2>2
<1>16. Owners' = [p \in Sessions \X Seats |-> IF p \in P THEN o ELSE f[p]]
  <2>. DEFINE h == [p \in Sessions \X Seats |-> IF p \in P THEN o ELSE f[p]]
  <2>1. \A x \in Sessions, s \in Seats : h[<<x, s>>] = IF x = ses /\ s \in S THEN o ELSE f[<<x, s>>]
    OBVIOUS
  <2>2. h = [p \in Sessions \X Seats |-> h[p]]
    OBVIOUS
  <2>. HIDE DEF h
  <2>3. \A x \in Sessions, s \in Seats : Owners'[<<x, s>>] = h[<<x, s>>]
    BY <1>15, <2>1
  <2>4. Owners' = h
    BY <2>2, <2>3, SameOwners
  <2>. QED  BY <2>4 DEF h
<1>17. OrderPhases[o] = "new" /\ OrderPhases'[o] = "held"
  <2>1. PICK s \in Seats : s \in S
    BY <1>1
  <2>2. /\ Has(ticketStatus', o, "reserved")
        /\ \A z \in Seats : ticketStatus'[<<o, z>>] \in {"none", "reserved"}
    BY <1>2, <1>3, <1>4, <1>6, <2>1 DEF Has
  <2>. QED  BY <1>2, <2>2, PhasesNow, PhasesNext
<1>18. \A q \in Orders : q # o => OrderPhases'[q] = g[q]
  <2>. SUFFICES ASSUME NEW q \in Orders, q # o
                PROVE  OrderPhases'[q] = g[q]
    OBVIOUS
  <2>1. CASE \E s \in Seats : <<q, s>> \in T
    <3>1. PICK s \in Seats : <<q, s>> \in T
      BY <2>1
    <3>2. <<ses, s>> \in R /\ Owners[<<ses, s>>] = q
      BY <1>3, <1>9, <3>1, OwnersNow DEF Owns, BlockingStatuses, Life
    <3>3. ~ Has(ticketStatus, q, "purchased")
      BY <1>3, <3>1 DEF Life, StoredFits, Fits, Has
    <3>4. OrderPhases[q] # "sold"
      BY <3>3, PhasesNow
    <3>5. g[q] = "gone"
      BY <3>2, <3>4 DEF Promise!PhaseWithout, Promise!OwnersOf
    <3>6. ~ Has(ticketStatus', q, "purchased") /\ ticketStatus'[<<q, s>>] = "expired"
      BY <1>4, <1>6, <3>1, <3>3 DEF Has
    <3>7. OrderPhases'[q] = "gone"
      BY <3>6, PhasesNext
    <3>. QED  BY <3>5, <3>7
  <2>2. CASE \A s \in Seats : <<q, s>> \notin T
    <3>1. OrderPhases'[q] = OrderPhases[q]
      BY <1>4, <1>6, <2>2, SameTicketsSamePhase
    <3>2. \A p \in R : Owners[p] # q
      <4>. SUFFICES ASSUME NEW s \in Seats, NEW r \in Orders, <<r, s>> \in T
                    PROVE  Owners[<<ses, s>>] # q
        BY <1>10
      <4>1. Owners[<<ses, s>>] = r
        BY <1>3, OwnersNow DEF Owns, BlockingStatuses, Life
      <4>. QED  BY <2>2, <4>1
    <3>. QED  BY <3>1, <3>2 DEF Promise!PhaseWithout, Promise!OwnersOf
  <2>. QED  BY <2>1, <2>2
<1>19. OrderPhases' = [g EXCEPT ![o] = "held"]
  <2>1. g = [q \in Orders |-> g[q]]
    BY DEF Promise!PhaseWithout
  <2>. HIDE DEF g
  <2>. DEFINE h == [g EXCEPT ![o] = "held"]
  <2>2. h = [q \in Orders |-> h[q]] /\ \A q \in Orders : h[q] = IF q = o THEN "held" ELSE g[q]
    BY <2>1
  <2>. HIDE DEF h
  <2>3. \A q \in Orders : OrderPhases'[q] = h[q]
    BY <1>17, <1>18, <2>2
  <2>4. OrderPhases' = h
    BY <2>2, <2>3, SamePhases
  <2>. QED  BY <2>4 DEF h
<1>20. \A p \in P : f[p] = None
  BY <1>14
<1>. HIDE DEF P
<1>21. Promise!Take(o, ses, R, P)
  BY <1>12, <1>13, <1>16, <1>17, <1>19, <1>20, <1>11 DEF Promise!Take, f, g
<1>. QED  BY <1>12, <1>21, <1>11

-----------------------------------------------------------------------------
(***************************************************************************)
(* Booking implements SeatAllocation.                                      *)
(***************************************************************************)

LEMMA SameAllocation ==
    ASSUME IInv, IInv', UNCHANGED <<orderSession, ticketStatus>>
    PROVE  UNCHANGED <<Owners, OrderPhases>>
<1>1. Owners' = Owners
  <2>1. ASSUME NEW x \in Sessions, NEW s \in Seats
        PROVE  Owners'[<<x, s>>] = Owners[<<x, s>>]
    <3>1. \A p \in Orders : WillOwn(p, x, s) <=> Owns(p, x, s)
      BY DEF WillOwn, Owns
    <3>. QED  BY <3>1, OwnersNow, OwnersNext
  <2>2. Owners = [p \in Sessions \X Seats |-> Owners[p]]
    BY DEF Owners
  <2>. QED  BY <2>1, <2>2, SameOwners
<1>2. OrderPhases' = OrderPhases
  <2>1. OrderPhases = [o \in Orders |-> OrderPhases[o]]
    BY DEF OrderPhases
  <2>. QED  BY <2>1, SameTicketsSamePhase, SamePhases
<1>. QED  BY <1>1, <1>2

LEMMA UntouchedAllocation ==
    ASSUME \/ Tick \/ UNCHANGED vars
           \/ \E w \in Workers :
                \/ Arrive(w) \/ SyncCompleted(w) \/ EndRequest(w)
                \/ ReadBack(w) \/ LoadTickets(w) \/ WriteAggregate(w) \/ CheckIn(w)
                \/ \E start \in StartTimes : MoveSession(w, start)
                \/ \E ses \in Sessions : DeleteSession(w, ses)
                \/ \E o \in Orders, op \in {"view", "checkin"} : OpenOrder(w, o, op)
    PROVE  UNCHANGED <<orderSession, ticketStatus>>
BY DEF Tick, vars, Arrive, SyncCompleted, EndRequest, ReadBack, LoadTickets, WriteAggregate,
       CheckIn, MoveSession, DeleteSession, OpenOrder, orderVars, ticketVars

AllocationStep == Promise!Next \/ UNCHANGED <<Owners, OrderPhases>>

LEMMA NextImplements ==
    Life /\ Life' /\ [Next]_vars => [Promise!Next]_<<Owners, OrderPhases>>
<1>. SUFFICES ASSUME Life, Life', [Next]_vars
              PROVE  AllocationStep
  BY DEF AllocationStep
<1>1. ASSUME UNCHANGED <<orderSession, ticketStatus>> PROVE AllocationStep
  BY <1>1, SameAllocation DEF Life, AllocationStep
<1>2. ASSUME NEW ses \in Sessions, GivesSeatsBack(ses) PROVE AllocationStep
  <2>1. CASE UNCHANGED <<Owners, OrderPhases>>
    BY <2>1 DEF AllocationStep
  <2>2. CASE \E R \in SUBSET Promise!Taken(ses) : Promise!GiveBack(ses, R)
    BY <2>2 DEF AllocationStep, Promise!Next
  <2>. QED  BY <1>2, <2>1, <2>2, GiveBackStep
<1>3. CASE UNCHANGED vars \/ Tick
  BY <1>1, <1>3, UntouchedAllocation
<1>4. ASSUME NEW w \in Workers,
             \/ Arrive(w) \/ SyncCompleted(w) \/ EndRequest(w)
             \/ ReadBack(w) \/ LoadTickets(w) \/ WriteAggregate(w) \/ CheckIn(w)
             \/ \E start \in StartTimes : MoveSession(w, start)
             \/ \E ses \in Sessions : DeleteSession(w, ses)
             \/ \E o \in Orders, op \in {"view", "checkin"} : OpenOrder(w, o, op)
      PROVE  AllocationStep
  BY <1>1, <1>4, UntouchedAllocation
<1>5. ASSUME NEW w \in Workers,
             \/ \E ses \in Sessions : ExpireHolds(w, ses) \/ CheckEditable(w, ses)
             \/ SyncHolds(w)
      PROVE  AllocationStep
  BY <1>1, <1>2, <1>5, ExpiryGivesBack
<1>6. ASSUME NEW w \in Workers, NEW ses \in Sessions, CancelSession(w, ses)
      PROVE  AllocationStep
  BY <1>2, <1>6, CancelSessionGivesBack
<1>7. ASSUME NEW w \in Workers, NEW t \in Tickets, CancelTicket(w, t)
      PROVE  AllocationStep
  BY <1>2, <1>7, CancelTicketGivesBack
<1>8. ASSUME NEW w \in Workers, NEW o \in Orders, Finalize(w, o)
      PROVE  AllocationStep
  BY <1>8, FinalizeSells DEF Promise!Next, AllocationStep
<1>9. ASSUME NEW w \in Workers, NEW o \in Orders, NEW outcome \in ReleaseOutcomes,
             Release(w, o, outcome)
      PROVE  AllocationStep
  BY <1>2, <1>9, ReleaseGivesBack
<1>10. ASSUME NEW w \in Workers, NEW o \in Orders, NEW actor \in {"customer", "admin"},
              CancelOrder(w, o, actor)
       PROVE  AllocationStep
  BY <1>2, <1>10, CancelOrderGivesBack
<1>11. ASSUME NEW w \in Workers, NEW ses \in Sessions, NEW o \in Orders,
              NEW S \in SUBSET Seats, Purchase(w, o, ses, S)
       PROVE  AllocationStep
  BY <1>11, PurchaseTakes DEF Promise!Next, AllocationStep
<1>. QED
  BY <1>3, <1>4, <1>5, <1>6, <1>7, <1>8, <1>9, <1>10, <1>11 DEF Next

LEMMA InitImplements == Init => Promise!Init
<1>. SUFFICES ASSUME Init PROVE Promise!Init
  OBVIOUS
<1>1. IInv
  BY InitIInv
<1>2. \A ses \in Sessions, s \in Seats : Owners[<<ses, s>>] = None
  <2>1. \A o \in Orders, s \in Seats : ticketStatus[<<o, s>>] = "none"
    BY DEF Init, Tickets
  <2>2. \A ses \in Sessions, s \in Seats, o \in Orders : ~ Owns(o, ses, s)
    BY <2>1 DEF Owns, BlockingStatuses
  <2>. QED  BY <1>1, <2>2, OwnersNow
<1>3. \A o \in Orders : OrderPhases[o] = "new"
  BY PhasesNow DEF Init, Tickets
<1>4. Owners = [p \in Sessions \X Seats |-> None]
  <2>1. Owners = [p \in Sessions \X Seats |-> Owners[p]]
    BY DEF Owners
  <2>2. \A p \in Sessions \X Seats : Owners[p] = None
    BY <1>2
  <2>. QED  BY <2>1, <2>2
<1>5. OrderPhases = [o \in Orders |-> "new"]
  <2>1. OrderPhases = [o \in Orders |-> OrderPhases[o]]
    BY DEF OrderPhases
  <2>. QED  BY <1>3, <2>1
<1>. QED  BY <1>4, <1>5 DEF Promise!Init

\* The purchase, expiry, payment and cancellation code keeps the promise of
\* SeatAllocation: a seat belongs to one order at a time, an order takes its
\* seats once and together, and is sold only with every seat it took.
THEOREM BookingAllocatesSeats == Spec => ImplementsSeatAllocation
BY InitImplements, NextImplements, LifeInvariance, PTL
   DEF Spec, ImplementsSeatAllocation, Promise!Spec

=============================================================================

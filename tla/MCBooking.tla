----------------------------- MODULE MCBooking -----------------------------
(***************************************************************************)
(* Instances of Booking for TLC, and the mapping under which Booking       *)
(* implements SeatAllocation.                                              *)
(***************************************************************************)
EXTENDS Booking, TLC

\* Seats, orders and request handlers are interchangeable: no definition of
\* Booking names one of them.  Not used by the run that checks liveness.
Symmetry ==
    Permutations(Seats) \cup Permutations(Orders) \cup Permutations(Workers)

-----------------------------------------------------------------------------
\* The order whose ticket blocks the seat of place p = <<session, seat>>.
Owner(p) ==
    IF \E t \in Blocking(ticketStatus, p[1]) : t[2] = p[2]
    THEN (CHOOSE t \in Blocking(ticketStatus, p[1]) : t[2] = p[2])[1]
    ELSE None

Phase(o) ==
    LET S == {ticketStatus[t] : t \in TicketsOf(ticketStatus, o)}
    IN  CASE S = {}               -> "new"
          [] S = {"reserved"}     -> "held"
          [] "purchased" \in S    -> "sold"
          [] OTHER                -> "gone"

Owners == [p \in Sessions \X Seats |-> Owner(p)]

OrderPhases == [o \in Orders |-> Phase(o)]

Promise ==
    INSTANCE SeatAllocation WITH owner <- Owners, phase <- OrderPhases, Free <- None

\* Every step of the booking core gives seats back, takes seats for a new
\* order or sells a whole order, as SeatAllocation allows, or changes no
\* allocation: the detailed protocol implements the abstract one.
ImplementsSeatAllocation == Promise!Spec

=============================================================================

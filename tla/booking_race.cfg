\* Two customers, two seats, two requests in flight, one session.
SPECIFICATION Spec
CONSTANTS
    Sessions = {ses}
    Orders = {o1, o2}
    Seats = {s1, s2}
    Workers = {w1, w2}
    StartTimes = {2}
    Running = 1
    Hold = 1
    MaxTime = 2
    None = None
SYMMETRY Symmetry
INVARIANTS
    TypeOK
    SeatCounterExact
    NoDoubleBooking
    CancelledSessionEmpty
    CheckedInHonoured
    PendingIffHeld
    SoldOrderAdmits
    OrdersKeepTheirSession
PROPERTIES
    ReleasedForGood

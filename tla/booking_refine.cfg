\* Two sessions in the hall: the booking core implements the abstract seat allocation.
SPECIFICATION Spec
CONSTANTS
    Sessions = {ses1, ses2}
    Orders = {o1, o2}
    Seats = {s1, s2}
    Workers = {w1}
    StartTimes = {2}
    MaxTime = 3
    Running = 1
    Hold = 1
    None = None
SYMMETRY Symmetry
INVARIANTS
    AggregateAligned
PROPERTIES
    ImplementsSeatAllocation
    OthersKeepTheirSeats

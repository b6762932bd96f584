\* The read path leaves an order misaligned with its tickets.
SPECIFICATION Spec
CONSTANTS
    Sessions = {ses}
    Orders = {o1}
    Seats = {s1}
    Workers = {w1, w2}
    StartTimes = {2}
    MaxTime = 2
    Running = 1
    Hold = 1
    None = None
SYMMETRY Symmetry
INVARIANTS
    AggregateAligned

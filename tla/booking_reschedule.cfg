\* One order races the administrator who moves or deletes its session, and elapsed
\* holds are released while requests keep coming; no symmetry.
SPECIFICATION FairSpec
CONSTANTS
    Sessions = {ses}
    Orders = {o1}
    Seats = {s1}
    Workers = {w1, w2}
    StartTimes = {2, 3}
    MaxTime = 4
    Running = 1
    Hold = 1
    None = None
INVARIANTS
    CompletedIsOver
PROPERTIES
    SoldSessionNotMoved
    HoldsReleased

\* The read path overwrites the reason of a payment release.
SPECIFICATION Spec
CONSTANTS
    Sessions = {ses}
    Orders = {o1}
    Seats = {s1}
    Workers = {w1, w2}
    StartTimes = {2}
    MaxTime = 2
    Running = 1
    Hold = 1
    None = None
SYMMETRY Symmetry
PROPERTIES
    ReleaseReasonKept

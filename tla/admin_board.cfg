\* One visit to the board and one to the movie form and the bookings.
SPECIFICATION FairSpec
CONSTANTS
    Movies = {m1, m2}
    Ids = {i1, i2}
    Days = {1, 2}
    MaxChanges = 2
    Tours = {{"board"}, {"movies", "bookings"}}
    None = None
INVARIANTS
    TypeOK
    EditFormSubject
PROPERTIES
    FormCreatesOnce
    PartialKeepsRejected
    BusyEnds

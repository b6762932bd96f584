\* Visits to the schedule and the catalogue, with reloads that overlap.
SPECIFICATION Spec
CONSTANTS
    m1 = m1
    m2 = m2
    m3 = m3
    g1 = g1
    g2 = g2
    q1 = q1
    s1 = s1
    s2 = s2
    s3 = s3
    s4 = s4
    None = None
    Sessions = {s1, s2, s3, s4}
    Movies = {m1, m2, m3}
    Genres = {g1, g2}
    Days = {1, 2}
    Queries = {q1}
    PageSize = 2
    MaxLoads = 2
    MovieOf <- MCMovieOf
    DayOf <- MCDayOf
    StartOf <- MCStartOf
    OccupiedOf <- MCOccupiedOf
    GenresOf <- MCGenresOf
    StatusOf <- MCStatusOf
    TitleRank <- MCTitleRank
    TitlesWith <- MCTitlesWith
    Schedules <- MCSchedules
    Links <- MCLinks
INVARIANTS
    TypeOK
    PageAsAsked
    MenuAsAsked
PROPERTIES
    AddressSettles

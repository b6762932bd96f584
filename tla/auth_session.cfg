\* One customer and one administrator; one token issued beyond the first.
SPECIFICATION FairSpec
CONSTANTS
    Users = {ann, bob}
    Admins = {bob}
    Calls = {c1, c2}
    MaxTokens = 2
    Visits = {"login", "order", "admin"}
    None = None
INVARIANTS
    TypeOK
    AdminPageForAdmins
    SettledAgreement
PROPERTIES
    LandingAdmitted
    LoadingEnds
    CallsEnd

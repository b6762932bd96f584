\* Two visits: from the seat map to the payment, and the order page and profile.
SPECIFICATION FairSpec
CONSTANTS
    Seats = {s1, s2}
    Loads = {l1, l2}
    Acts = {a1, a2}
    Tours = {{"session", "checkout", "fake", "return"}, {"order", "profile"}}
    PollLimit = 1
    None = None
INVARIANTS
    TypeOK
    SelectionIsOffered
    OfferMatchesServer
    OwnChangesShown
PROPERTIES
    PurchaseReachesCheckout
    OutcomeReachesPage

\* One seat, one handler and one load at a time: the provider's result arrives
\* between the two requests of a load of the return page.
SPECIFICATION FairSpec
CONSTANTS
    Seats = {s1}
    Loads = {l1}
    Acts = {a1}
    Tours = {{"session", "checkout", "fake", "return"}}
    PollLimit = 1
    None = None
PROPERTIES
    ReturnWaitEnds

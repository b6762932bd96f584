\* Two refund requests of one payment that overlap.
SPECIFICATION Spec
CONSTANTS
    p1 = p1
    p2 = p2
    i1 = i1
    i2 = i2
    d1 = d1
    d2 = d2
    r1 = r1
    r2 = r2
    None = None
    Payment = {p1}
    Request = {i1}
    Delivery = {d1}
    Refund = {r1, r2}
    Price = 2
    Answers = {"pending"}
    Reports = {"succeeded"}
    RefundReports = {"succeeded"}
    MaxEvents = 1
    MaxFaults = 0
INVARIANTS
    RefundsWithinPrice
CHECK_DEADLOCK FALSE

\* One order, its payments, their webhooks and refunds, with one fault.
SPECIFICATION FairSpec
CONSTANTS
    p1 = p1
    p2 = p2
    i1 = i1
    i2 = i2
    d1 = d1
    d2 = d2
    r1 = r1
    r2 = r2
    None = None
    Payment = {p1, p2}
    Request = {i1, i2}
    Delivery = {d1, d2}
    Refund = {r1}
    Price = 2
    Answers = {"pending", "failed"}
    Reports = {"succeeded", "failed", "refunded", "partially_refunded"}
    RefundReports = {"pending", "succeeded"}
    MaxEvents = 2
    MaxFaults = 1
CONSTRAINT
    Claimed
INVARIANTS
    TypeOK
    PaidOnce
    RefundsAgree

    
CHECK_DEADLOCK FALSE

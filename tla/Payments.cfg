SPECIFICATION FairSpec
CONSTANTS
    e1 = e1
    Handlers = {h1, h2}
    Events = {e1}
    Amount <- MCAmount
    Date <- MCDate
    InvoiceDate = 1
    Locks = {0, 1}
    MAX_RETRIES = 2
    Total = 2
    OtherAmounts = {1}
    BacklogMax = 2
    MaxFaults = 2
    Nothing = Nothing
INVARIANTS ChargeBookedOnce InboxBounded
PROPERTIES PaidRejectionHonest EveryChargeAnswered
CHECK_DEADLOCK FALSE

SPECIFICATION Spec
CONSTANTS
    d1 = d1  d2 = d2  d3 = d3  d4 = d4  d5 = d5
    pA = pA  pB = pB  k1 = k1
    r1 = r1  r2 = r2
    Req = {r1}
    Docs <- SettleDocs
    Doctype <- SettleDoctype
    Receipt <- OwnReceipts
    Pairs = {pA}
    Keys = {k1}
    NoKey = NoKey
    NoDoc = NoDoc
    NoBody = NoBody
    NoNumber = NoNumber
    NoResponse = NoResponse
    NoCommand = NoCommand
    Tills <- TillNames
    Trim <- TrimTill
    Commands <- SettleCommands
    Locks = {0}
    AllowChoices = {FALSE, TRUE}
    MaxRetries = 2
INVARIANTS OutstandingExact CancelledUnsettled ReplicaAgrees

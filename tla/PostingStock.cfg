SPECIFICATION Spec
CONSTANTS
    d1 = d1  d2 = d2  d3 = d3  d4 = d4  d5 = d5
    pA = pA  pB = pB  k1 = k1
    r1 = r1  r2 = r2
    Req = {r1, r2}
    Docs <- StockDocs
    Doctype <- StockDoctype
    Receipt <- StockReceipt
    Pairs = {pA, pB}
    Keys = {k1}
    NoKey = NoKey
    NoDoc = NoDoc
    NoBody = NoBody
    NoNumber = NoNumber
    NoResponse = NoResponse
    NoCommand = NoCommand
    Tills <- TillNames
    Trim <- TrimTill
    Commands <- StockCommands
    Locks = {0, 1}
    AllowChoices = {FALSE}
    MaxRetries = 2
SYMMETRY ReqSymmetry
INVARIANTS NumberingExact TillSingleDevice
PROPERTIES KeyAnsweredOnce StockLicensed ImplementsBooks

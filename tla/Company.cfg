SPECIFICATION Spec
CONSTANTS
    h1 = h1  h2 = h2
    Handlers = {h1, h2}
    Commands <- CompanyCommands
    Fields = {"costing", "stock"}
    Values = {"default", "fifo", "any"}
    Default = "default"
    Tomorrow = 2
    NoCommand = NoCommand
    Nobody = Nobody
    Doctypes = {"Sales Invoice"}
    Accounts <- SoloAccounts
    Customers = {"ann", "bob"}
    Suppliers = {"sue"}
    StockItems = {"nut"}
    Migrations = {"m1", "m2"}
    NoPackage = NoPackage
    NoParty = NoParty
    MaxValue = 3
    MaxDocs = 2
SYMMETRY HandlerSymmetry
INVARIANTS OpeningComesFirst AnsweredIsHeld OpeningCarriedOver
PROPERTIES OpeningInOpenPeriod LockMovedKnowingly SettingLostOnlyByRace

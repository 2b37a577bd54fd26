SPECIFICATION Spec
CONSTANTS
    d1 = d1  d2 = d2  d3 = d3
    Docs = {d1, d2}
    Batches <- TwoEdits
    Pushers = {w1}
    Devices = {A}
    PageSize = 1
    MaxLog = 4
    MaxRestores = 1
    NoHash = NoHash
    NoBackup = NoBackup
INVARIANTS PostedImmutable

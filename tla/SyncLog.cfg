SPECIFICATION FairSpec
CONSTANTS
    d1 = d1  d2 = d2  d3 = d3
    Docs = {d1, d2}
    Batches <- OneEdit
    Pushers = {w1}
    Devices = {A}
    PageSize = 1
    MaxLog = 3
    MaxRestores = 1
    NoHash = NoHash
    NoBackup = NoBackup
INVARIANTS ChainExact BookIsServerHistory LostNumbersRetired
PROPERTIES DevicesCatchUp

CONSTANTS
    Parts = {"store", "forms", "session"}
    n1 = n1
    n2 = n2
    s1 = s1
    NoData = NoData
    Request = {r1, r2}
    Inode = {i1, i2, i3}
    NoFile = NoFile
    Name = {n1, n2}
    Type = {"slack", "telegram"}
    Secret = {s1}
    Mask = Mask
    Blank = Blank
    NoName = NoName
    NoOp = NoOp
    NoConfig = NoConfig
    Deployed <- OneSlack
    MaxCrashes = 1
    Receiver = {"a"}
    Url = {"long", "short"}
    LongUrl = {"long"}
    Code = {"code"}
    FormKits <- SomeFormKits
    MaxLogins = 3
    MaxFaults = 2
    MaxReloads = 1
SPECIFICATION ChannelPartsSpec
SYMMETRY Symmetry
INVARIANTS ChannelPartsTypeOK  FileComplete SavedMeansActive StoredIsTyped OldClientsRetire
PROPERTY StoreIsAtomic
CHECK_DEADLOCK FALSE

SPECIFICATION Spec
CONSTANTS
    Ids <- MCIds
    Days <- MCDays
    Windows <- MCWindows
    Addresses <- MCAddresses
    CityOf <- MCCityOf
    NonServiceable <- MCNonServiceable
    Blackout <- MCBlackout
    SlotCapacity = 2
    Horizon = 1
    MaxReschedules = 2
    Keys = {kA, kB}
    Seed <- MCSeed
    Requests <- MCRequests
    NoOrder = NoOrder
    NoAnswer = NoAnswer
    Nobody = Nobody
    NoRequest = NoRequest
    Workers = {w1, w2}
    Instances <- TwoInstances
    InstanceOf <- TwoProcesses
    WarmAtStart <- OneInstance
    FaultPoints = {}
    MaxCrashes = 0
    LastDay = 0
    oA = oA
    oB = oB
    oC = oC
    oX = oX
    home = home
    away = away
    remote = remote
    kA = kA
    kB = kB
    w1 = w1
    w2 = w2
    i1 = i1
    i2 = i2
CHECK_DEADLOCK TRUE
PROPERTY OnlyCommitsChangeOrders

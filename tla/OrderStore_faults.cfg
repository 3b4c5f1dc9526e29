SPECIFICATION FairSpec
CONSTANTS
    Ids <- FaultIds
    Days <- MCDays
    Windows <- MCWindows
    Addresses <- MCAddresses
    CityOf <- MCCityOf
    NonServiceable <- MCNonServiceable
    Blackout <- MCBlackout
    SlotCapacity = 3
    Horizon = 1
    MaxReschedules = 1
    Keys = {kA, kB}
    Seed <- FaultSeed
    Requests <- FaultRequests
    NoOrder = NoOrder
    NoAnswer = NoAnswer
    Nobody = Nobody
    NoRequest = NoRequest
    Workers = {w1, w2}
    Instances <- OneInstance
    InstanceOf <- OneProcess
    WarmAtStart = {}
    FaultPoints = {"seed_orders", "seed_loads", "idem", "read", "capacity", "read_loads", "write_loads", "write_order", "remember"}
    MaxCrashes = 1
    LastDay = 0
    oA = oA
    oB = oB
    oC = oC
    oX = oX
    home = home
    away = away
    remote = remote
    kA = kA
    kB = kB
    w1 = w1
    w2 = w2
    i1 = i1
    i2 = i2
CHECK_DEADLOCK TRUE
INVARIANTS CapacityRespected LimitRespected
PROPERTIES AnswersAreFinal EveryCallReturns

SPECIFICATION Spec
CONSTANTS
    Ids = {oA}
    Days <- MCDays
    Windows = {"morning"}
    Addresses = {home, away}
    CityOf <- MCCityOf
    NonServiceable = {}
    Blackout = {}
    SlotCapacity = 1
    Horizon = 1
    MaxReschedules = 2
    Keys <- MCKeys
    Seed <- MCSeed
    Requests <- MCRequests
    NoOrder = NoOrder
    NoAnswer = NoAnswer
    NoRequest = NoRequest
    NoUtterance = NoUtterance
    Sessions = {c1}
    Wishes <- MCWishes
    Utterances <- MCUtterances
    Readings <- MCReadings
    Kinds = {"PHONE", "PINCODE", "CARD"}
    MinAddressFragment = 2
    RingSize = 3
    MaxTurns = 4
    MaxErasures = 0
    MaxWrites = 2
    oA = oA
    home = home
    away = away
    c1 = c1
CHECK_DEADLOCK FALSE
INVARIANT RetriesCommitOnce

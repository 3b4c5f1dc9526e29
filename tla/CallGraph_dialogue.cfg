SPECIFICATION Spec
CONSTANTS
    a = a
    b = b
    c = c
    Orders <- ThreeOrders
    NoOrder = none
    MaxReadOut = 3
    MaxRetries = 1
    MaxUnresolved = 4
    Utterances <- SmallTalk
    MaxTurns = 5
    MaxDays = 1
SYMMETRY Symmetry
CHECK_DEADLOCK FALSE
INVARIANTS TypeOK AsksAreBounded LiveQuestionWasJustAsked ReplyIsThisTurns HandedOverInTime
PROPERTY YesIsActedOn

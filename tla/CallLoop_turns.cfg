SPECIFICATION FairSpec
CONSTANTS
    MaxUtterances = 3
    MaxTracks = 2
    MaxChunks = 2
    Replies <- ClearReplies
CHECK_DEADLOCK FALSE
INVARIANTS TypeOK FenceCountsQueue WritesWereConfirmed RefusalsWriteNothing
PROPERTIES RepliesMoveForward OnlySupersededAwaitInVain LatestIsAnswered MarkerEndsCall

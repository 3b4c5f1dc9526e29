SPECIFICATION Spec
CONSTANTS
    MaxUtterances = 3
    MaxTracks = 2
    MaxChunks = 2
    Replies <- ClearReplies
CHECK_DEADLOCK FALSE
INVARIANT WritesWereReadBack

SPECIFICATION FairSpec
CONSTANTS
    Silence = Silence
    NoCapture = NoCapture
    MaxTracks = 2
    MaxParts = 2
    MaxCalls = 2
    MaxTaps = 2
    MaxReplays = 2
CHECK_DEADLOCK FALSE
INVARIANTS TypeOK DecodesAreCounted PlaysTheKeptReply OnlyTheLatestReply SpeakingIsTrue RepeatIsThere
PROPERTIES AnnouncedAudioIsHeard SpeakingEnds

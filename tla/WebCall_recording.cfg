SPECIFICATION Spec
CONSTANTS
    Silence = Silence
    NoCapture = NoCapture
    MaxTracks = 2
    MaxParts = 2
    MaxCalls = 1
    MaxTaps = 2
    MaxReplays = 1
CHECK_DEADLOCK FALSE
INVARIANT SilentWhileRecording

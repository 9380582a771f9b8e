CONSTANTS
    MicrophoneSize = 2
    MaxQueued = 2
    MaxConnections = 3
    MaxRestarts = 1
    MaxTroubles = 1
    Esc = esc  Bracket = bracket  ArrowUp = up  ArrowDown = down
    Bytes = {esc, bracket, up, down}
    GAIN_STEP_DECIBELS = 2
    MIN_GAIN_DECIBELS <- LowestGain
    MAX_GAIN_DECIBELS = 2
    MaxRead = 3
    MaxTyped = 6
SPECIFICATION Spec
INVARIANTS TypeOK EachConnectionItsOwn GainFollowsKeys CrashReported
PROPERTIES EitherEndsContainer ClientComesBack
CHECK_DEADLOCK FALSE

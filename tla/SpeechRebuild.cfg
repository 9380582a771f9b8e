CONSTANTS
    c1 = c1
    c2 = c2
    s1 = s1
    p1 = p1
    v1 = v1
    v2 = v2
    v3 = v3
    None = None
    Voices <- TwoVoices
    DefaultVoice = v1
    Ahead = 1
    RebuildMayFail = TRUE
    Conns <- OneConn
    Sayers <- OneSayer
    Pickers <- OnePicker
    SayEntries = 2
    MaxTurns = 0
    MaxWords = 0
CHECK_DEADLOCK FALSE
SPECIFICATION FairSpec
PROPERTIES WaitersReleased

CONSTANTS
    c1 = c1
    c2 = c2
    s1 = s1
    p1 = p1
    v1 = v1
    v2 = v2
    v3 = v3
    None = None
    Voices <- TwoVoices
    DefaultVoice = v1
    Ahead = 1
    RebuildMayFail = FALSE
    Conns <- OneConn
    Sayers <- OneSayer
    Pickers <- Nobody
    SayEntries = 2
    MaxTurns = 1
    MaxWords = 1
CHECK_DEADLOCK FALSE
SPECIFICATION FairSpec
PROPERTIES TurnsClosed WaitersReleased

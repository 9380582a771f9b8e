CONSTANTS
    c1 = c1
    c2 = c2
    s1 = s1
    p1 = p1
    v1 = v1
    v2 = v2
    v3 = v3
    None = None
    Voices <- TwoVoices
    DefaultVoice = v1
    Ahead = 2
    RebuildMayFail = TRUE
    Conns <- TwoConns
    Sayers <- Nobody
    Pickers <- OnePicker
    SayEntries = 2
    MaxTurns = 2
    MaxWords = 3
CHECK_DEADLOCK FALSE
SPECIFICATION Spec
INVARIANTS TypeOK FramesToTheirOwner AccountedToItsTurn DoneMeansSilent OneLateFrameAtMost
    CompletedIsWhole

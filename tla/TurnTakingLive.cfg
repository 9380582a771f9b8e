CONSTANTS
    c1 = c1
    c2 = c2
    None = None
    Conns <- OneConn
    Frames <- OneSpeaker
SPECIFICATION FairSpec
PROPERTIES MicHandedBack PromptsTakenUp ShutdownCompletes

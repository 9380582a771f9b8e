CONSTANTS
    Hangover = 2
    Preroll = 3
    Window = 4
    BlockSamples = 512
    Hop = 160
    Shift = 16
    HalfWindow = 256
    MaxBlocks = 9
CHECK_DEADLOCK FALSE
SPECIFICATION Spec
INVARIANTS TypeOK NoSpeechTwice NoSpeechLost JudgedAsHeard NoEdgeFrame

CONSTANTS
    ashe = ashe  bree = bree  cleo = cleo
    Voices <- ThreeVoices
    Playlists <- ThreeLists
    Keepers = {bree}
    MaxFrames = 2
    MaxWorkers = 3
    MaxChanges = 2
    AudioMayFail = TRUE
SPECIFICATION FairSpec
INVARIANTS HeardIsShown NewerQueueKept ScreenAgrees
PROPERTIES AuditionIsWhole AutoEnds
CHECK_DEADLOCK FALSE

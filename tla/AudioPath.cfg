CONSTANTS
    MaxFrames = 2
    MaxTurns = 2
    MaxWords = 2
CHECK_DEADLOCK FALSE
SPECIFICATION FairSpec
INVARIANTS InterruptedFallsSilent CompletedMeansPlayed
PROPERTIES HeardOnlyGrows WaitEnds

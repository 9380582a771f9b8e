CONSTANTS
    c1 = c1
    c2 = c2
    None = None
    Conns <- TwoConns
    Frames <- Both
SPECIFICATION Spec
INVARIANTS SpeakerOwnsPrompt

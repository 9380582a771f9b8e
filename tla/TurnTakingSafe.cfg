CONSTANTS
    c1 = c1
    c2 = c2
    None = None
    Conns <- TwoConns
    Frames <- TalkerFirst
SPECIFICATION Spec
INVARIANTS TypeOK OwnerPublished NotStranded FaithfulEnding CleanupGate
PROPERTIES AnswersInOrder

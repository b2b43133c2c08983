SPECIFICATION Spec
CONSTANTS
    w1 = w1
    w2 = w2
SYMMETRY RequestSymmetry
INVARIANTS
    MergedWasReviewed
    QueueOwnsPlan
CHECK_DEADLOCK FALSE

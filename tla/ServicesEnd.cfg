SPECIFICATION FairSpec

CONSTANTS
    c1 = c1
    r1 = r1
    r2 = r2
    w1 = w1
    Parts = {"wake", "jobs", "turns"}

CHECK_DEADLOCK FALSE
PROPERTY WakesEnd
PROPERTY ActiveJobsEnd
PROPERTY WorkersReturn

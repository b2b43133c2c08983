SPECIFICATION Spec

CONSTANTS
    c1 = c1
    c2 = c2
    r1 = r1
    w1 = w1
    w2 = w2
    m1 = m1
    s1 = s1
    s2 = s2
    a1 = a1
    a2 = a2
    p1 = p1
    p2 = p2
    k1 = k1
    k2 = k2
    q1 = q1
    d1 = d1
    d2 = d2
    t1 = t1
    t2 = t2
    t3 = t3
    e1 = e1
    e2 = e2
    v1 = v1
    v2 = v2
    h1 = h1
    h2 = h2
    i1 = i1
    i2 = i2
    u1 = u1
    u2 = u2
    Parts = {"wake", "jobs", "kinds", "money", "progress", "children", "requests", "delegation", "files", "reviews", "repeats", "calls", "rounds", "batches", "fanout", "retries"}
    MaxAttempts = 2
    RepeatThreshold = 3
    StagnantThreshold = 6
    Cap = 2
    ShardTokens = 2
    Budget = 5
    TurnsOf <- Teamwork
    MaxTurns = 5
    MaxChildren = 2

SYMMETRY ServiceSymmetry
CHECK_DEADLOCK FALSE
INVARIANT TypesOK
INVARIANT PreparedIsOwned
INVARIANT ResultsAreDurable
INVARIANT OneOpenRound
 
INVARIANT NoEventIsSkipped
INVARIANT RunsAreBounded
INVARIANT OpenIsCapped
INVARIANT OnlyLoopsAreStopped
INVARIANT AttemptsAgree
INVARIANT InstructionsAreRead
INVARIANT ParentIsTold
INVARIANT SchedulesCount
INVARIANT ApplicationsFit
INVARIANT TeamsAreExact
INVARIANT ReviewsBind
INVARIANT BoundariesReconcile
INVARIANT EffectsMatchResults
INVARIANT RoundsAreResolved
INVARIANT CallsAreAdmitted

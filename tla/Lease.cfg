SPECIFICATION FairSpec
CONSTANTS
    Workers = {w1, w2, w3}
    TTL = 2
    MaxGeneration = 5
    MaxSkew = 1
INVARIANTS
    AtMostOneHolder
PROPERTIES
    WritesNeverGoBack
    ImplementsFencedLease
    OrphanLapses
CHECK_DEADLOCK FALSE

SPECIFICATION FairJobSpec
CONSTANTS
    Replicas = {r1, r2, r3}
    LockTTL = 4
    JobTimeout = 2
INVARIANT MutualExclusion
PROPERTY OrphanExpires

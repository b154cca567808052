SPECIFICATION FairSpec
CONSTANTS
    Events = {e1}
    Replicas = {r1, r2}
    BatchSize = 1
    Lease = 1
    RetryDelay = 1
    DuplicateWindow = 1
    MaxAge = 2
    Retention = 2
    MaxStops = 1
INVARIANT DeletedAfterStream
PROPERTY ImplementsDelivery
PROPERTY EventuallyCleaned
PROPERTY StopTerminates

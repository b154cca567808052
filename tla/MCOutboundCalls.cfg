SPECIFICATION Spec
CONSTANTS
    Calls = {c1, c2}
    MaxAttempts = 3
    FailureThreshold = 2
SYMMETRY Symmetric
INVARIANT UnsafeSentOnce
INVARIANT BodiesAreReturned
INVARIANT FailuresTrip

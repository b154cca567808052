SPECIFICATION Spec
CONSTANTS
    Handlers = {h1, h2}
    Principals <- TwoUsers
    Scopes <- TenantScope
    SensitiveKeys = {"password"}
    Contents <- TwoBodies
    SentPublishedRevisions = {0}
    Lookback = 0
    Lookahead = 0
    MaxVersion = 5
SYMMETRY HandlerSymmetry
INVARIANT NoStaleWrite
INVARIANT SnapshotIsFresh
INVARIANT OneWinnerPerVersion
INVARIANT ChangesAnnounced
INVARIANT LiveRevisionAnnounced
PROPERTY PublishedMovesForward
PROPERTY ImplementsReviewedConfig

SPECIFICATION Spec
CONSTANTS
    Handlers = {h1, h2}
    Principals <- TwoUsers
    Scopes <- TenantScope
    SensitiveKeys = {"password"}
    Contents <- TwoBodies
    SentPublishedRevisions = {0,1}
    Lookback = 0
    Lookahead = 0
    MaxVersion = 4
INVARIANT ResolvedIsApproved

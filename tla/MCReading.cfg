SPECIFICATION ReadSpec
CONSTANTS
    Callers <- SomeCallers
    Scopes <- SomeScopes
    Requests <- SomeRequests
    Values = {"x"}
    Percentages = {50, 100}
    Bucket <- Buckets
    MaxRevision <- SomeRevisions
    Readers <- SomeCallers
    Scope <- ListedScope
    Keys = {1, 2, 3}
    PageSizes = {0, 1, 2, 101}
INVARIANT ETagNamesContent
INVARIANT ServedWithinTenant
INVARIANT WalkMissesNothing
PROPERTY ServesMostSpecific

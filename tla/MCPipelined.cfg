SPECIFICATION Spec
CONSTANTS
    Handlers = {h1, h2}
    Principals <- SomePrincipals
    Scopes <- SensitiveScope
    SensitiveKeys = {"password"}
    Contents <- SecretBodies
    SentPublishedRevisions = {0}
    Lookback = 0
    Lookahead = 1
    MaxVersion = 5
SYMMETRY HandlerSymmetry
INVARIANT PublishedIsApproved
INVARIANT IndependentReview
INVARIANT SnapshotAgrees
INVARIANT StoredIsAdmissible
PROPERTY RevisionsImmutable

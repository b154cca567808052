SPECIFICATION FairSpec
CONSTANTS
    Workers = {w1, w2}
    Keys = {k1}
    Inputs <- SomeInputs
    MaxTokens = 3
INVARIANT ReplaysOriginal
INVARIANT ReplayMatchesRequest
INVARIANT SuccessIsCommitted
INVARIANT KeyCommitsOnce
PROPERTY KeyIsFreed

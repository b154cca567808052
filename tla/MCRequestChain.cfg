\* Two concurrent requests: policies with all credentials, limits with callers
\* that compete, and every route and method.
SPECIFICATION Spec
CONSTANTS
    Slots = {s1, s2}
    Settings <- AllSettings
    Inputs <- InputsBySettings
    Answers <- AllAnswers
    Burst = 2
SYMMETRY Symmetric
INVARIANT HandledIsAdmitted
INVARIANT LimitsHold
PROPERTY UserQuotaIsOwn

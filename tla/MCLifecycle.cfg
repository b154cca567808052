\* A production deployment, one edit of any setting, work of every kind.
SPECIFICATION FairSpec
CONSTANTS
    Values <- MCAllValues
    Flags = {"", "production"}
    BaseFile <- MCBaseFile
    ProfileFiles <- MCProfileFiles
    Environments <- MCEnvironments
    MaxEdits = 1
    MaxWork = 1
INVARIANT ProductionIsGuarded
INVARIANT EnabledIsBacked
INVARIANT InUseIsOpen
PROPERTY StopEnds

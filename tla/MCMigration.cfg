SPECIFICATION FairMigrationSpec
CONSTANTS
    Processes = {p1, p2, p3}
    Latest = 3
    Goals = {"up"}
    CreateSchema = TRUE
INVARIANT VersionIsContent
INVARIANT StartedIsMigrated
PROPERTY StartEnds

CONSTANTS
    old1 = old1
    old2 = old2
    new = new
    Processes = {old1, old2, new}
    Supported <- MCSupported
    MaxTries = 2
SPECIFICATION DatabaseSpec
INVARIANTS
    ForeignSchemaIsNeverAdopted
    NeverIncomplete
    OkMeansUsable
    NoMigrationRace
PROPERTIES
CHECK_DEADLOCK FALSE

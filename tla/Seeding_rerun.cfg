CONSTANTS
    Slugged <- SluggedDef
    Pilot = "collective"
    NamedBy <- NamedByDef
    Sensitive = {"arc1"}
    Media = "arc21"
    Deposits = {"deposit"}
    Course <- CourseDef
    Badges <- BadgesDef
    Roles <- RolesDef
    Modes = {"between", "live", "authored"}
    MaxCrashes = 1
    MaxEdits = 2
SPECIFICATION SeedingSpec
INVARIANTS SeededOnce FailsOnlyIfCut
PROPERTIES PreservesRecords

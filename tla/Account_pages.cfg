CONSTANTS
    Institutions = {"birzeit", "najah"}
    Newcomers = {"new1", "new2"}
    Finds <- FindsDef
    Slots = {1, 2}
    Manners = {"calm", "rough"}
    MaxActs = 5
    MaxCodes = 2
SPECIFICATION AccountSpec
INVARIANTS RegistrationWhole ChoicesArrive
PROPERTIES CodeWorksOnce PagesSettle
CHECK_DEADLOCK FALSE

SPECIFICATION FairSpec
CONSTANTS
    Units = {1, 2, 3}
    Institutions = {1, 2}
    NoUnit = NoUnit
    Absent = Absent
    Depth = 3
    Workers = {1, 2}
    MaxLoose = 1
CONSTRAINTS Bounded InOrder Roles Abroad
INVARIANTS OneStepAbove NoCycle
PROPERTIES PathEnds

SPECIFICATION Spec
CONSTANTS
    NoInst = NoInst
    NoUser = NoUser
    depositor = depositor
    cataloger = cataloger
    reviewer = reviewer
    admin = admin
    Users <- MCUsers
    Owner = depositor
    Inst = pac
    Assignments <- MCAssignments
    Workers = {w1, w2}
    Overlap = 2
    MaxTrail = 7
    Crashes = TRUE
SYMMETRY Symmetry
INVARIANTS StagesInOrder HistoryTellsStatus
PROPERTIES FollowsEditorialPath
CHECK_DEADLOCK FALSE

SPECIFICATION Spec
CONSTANTS
    boss = boss
    aide = aide
    guest = guest
    Users <- MCUsers
    Owner = boss
    FirstAdmin = boss
    Institution = inst
    NoInst = NoInst
    NoUser = NoUser
    Assignments = {a1, a2, a3, a4}
    NoAssignment = NoAssignment
    Offers <- MCOffers
    NoRole = NoRole
    Asks = {k1, k2}
    NoAsk = NoAsk
    Hours = 1
    MaxTime = 1
    MaxBegun = 4
    Workers = {w1, w2}
    Overlap = 2
    Crashes = TRUE
SYMMETRY Symmetry
INVARIANTS TablesAgree OutcomeTold
PROPERTIES DecisionStands RevokedIsGone
CHECK_DEADLOCK FALSE

SPECIFICATION Spec
CONSTANTS
    Tokens = {t1, t2}
    Requests = {r1, r2, r3}
    NoToken = NoToken
    Grace = 1
    TTL = 2
    MaxHops = 5
    Polls = 2
    MaxTime = 0
    Overlap = 2
    Faults = {}
INVARIANTS LogoutEndsSession
CHECK_DEADLOCK FALSE

SPECIFICATION MCSpec
CONSTANTS
    Tokens = {1, 2, 3, 4}
    Requests = {1, 2, 3, 4}
    NoToken = 0
    Grace = 1
    TTL = 2
    MaxHops = 3
    Polls = 2
    MaxTime = 2
    Overlap = 3
    Rivals = 3
    Faults = {"crash", "loss"}
INVARIANTS OneLineOfSuccession OrderlyLogoutEndsSession PasswordChangeEndsSessions
PROPERTIES SuccessionIsFinal GraceKeepsSession RequestsEnd
CHECK_DEADLOCK FALSE

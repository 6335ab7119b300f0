SPECIFICATION Spec
CONSTANTS
    Sessions = {s1, s2}
    NoSession = NoSession
    Calls = {c1}
    MaxWrites = 2
    Modes = {"patient", "shaky", "hasty"}
INVARIANTS  SignedOutLeavesNothing
PROPERTIES NoSilentSignOut NobodyWaits Remembered

SPECIFICATION Spec
CONSTANTS
    Requests = {r1, r2}
    Files = {f1, f2, f3, f4}
    NoFile = NoFile
    Media = {f3, f4}
SYMMETRY Symmetry
INVARIANTS HoldsTogether NothingLeftBehind

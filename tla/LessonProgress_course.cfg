SPECIFICATION Spec
CONSTANTS
    N = 3
    Percents = {40, 100}
    Threshold = 95
    Achievements = {"first_lesson", "first_course"}
    Workers = {w1, w2}
    Overlap = 2
    Crashes = TRUE
    Settings = {"orderly", "racing", "edited"}
SYMMETRY Symmetry
INVARIANTS LessonsInOrder NobodyStuck EnrollmentTellsTruth
PROPERTIES EarnedUnlessEdited NothingTakenBack

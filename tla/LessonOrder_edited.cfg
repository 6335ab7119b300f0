SPECIFICATION Spec
CONSTANTS
    Lessons = {l1, l2, l3}
    NoLesson = NoLesson
    Workers = {w1, w2}
    Overlap = 2
    Crashes = TRUE
SYMMETRY Symmetry
PROPERTIES ImplementsList DurationInStep RenumberingRepairs

\* kmk -k c, where c is the second member of a group and its prerequisite fails.
CONSTANTS
    a = a
    b = b
    c = c
    e = e
    Files = {a, b, c, e}
    Makefiles <- SecondaryGoal
SPECIFICATION MCSpec
INVARIANT ExitTellsFailure

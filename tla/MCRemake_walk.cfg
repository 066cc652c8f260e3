\* Six makefiles, with and without -k, one to three jobs.
CONSTANTS
    a = a
    b = b
    c = c
    e = e
    Files = {a, b, c, e}
    Makefiles <- Sound
SPECIFICATION MCFairSpec
INVARIANTS
    TypeOK
    UpToDate
    ExitTellsFailure
PROPERTIES
    ImplementsBuildOrder
    NoNeedlessRecipe
    RemakeEnds

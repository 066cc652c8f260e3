\* Two objects share a cache; four runs, a process may be
\* killed while it writes the cache file.
CONSTANTS
    t1 = t1
    t1x = t1x
    t2 = t2
    Entries = {e1, e2}
    Bad = Bad
    Texts <- MCTexts
    Meaning <- MCMeaning
    Args = {a1, a2}
    Modes <- GoodModes
    KillAt <- Quiet
    MaxRuns = 4
    KeyMod = 3
SYMMETRY Symmetry
SPECIFICATION MCSpec
INVARIANTS
    TypeOK
    SumsProduceObject
    ObjectRight
    KeysUnique
PROPERTIES
    DigestsKept

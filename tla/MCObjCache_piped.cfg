\* As MCObjCache_share, with -p and without -O2; no process is killed.
CONSTANTS
    Bad = Bad
    t1 = t1
    t1x = t1x
    t2 = t2
    Entries = {e1, e2}
    Texts <- MCTexts
    Meaning <- MCMeaning
    Args = {a1, a2}
    Modes <- PipedModes
    KillAt = {}
    MaxRuns = 4
    KeyMod = 3
SYMMETRY Symmetry
SPECIFICATION MCSpec
INVARIANTS
    SumsProduceObject

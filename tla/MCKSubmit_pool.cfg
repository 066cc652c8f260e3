\* Three workers, two slots of the hash table.  kmk may crash, and all
\* instances may be used up.
CONSTANTS
    Workers = {w1, w2, w3}
    Kinds = {64}
    Slots = {s1, s2}
    Nil = Nil
SPECIFICATION Spec
SYMMETRY Alike
CHECK_DEADLOCK FALSE
INVARIANTS
    TypeOK
    AloneOnWorker
    StatusIsOwn
    BusyIsBusy
    LinksHold

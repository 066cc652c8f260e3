\* Three children and two workers.
CONSTANTS
    Children = {c1, c2, c3}
    Nil = Nil
    MaxWorkers = 2
SPECIFICATION MCFairSpec
INVARIANTS
    TypeOK
    SleeperIsWoken
PROPERTIES
    ImplementsChildQueue
    AllReaped

\* Both ways to wait, with the number of workers that goes with each.
CONSTANTS
    Files = {f1, f2, f3}
    NoFile = NoFile
    Builds <- Platforms
    MaxThreads = 2
    MaxNames = 2
    JobSlots = 4
    MaxInits = 1
    CountMod = 16
SPECIFICATION MCFairSpec
INVARIANTS
    TypeOK
    OneOwner
    AppliedExactlyOnce
    NothingPendingAtTerm
    AccountingHolds
PROPERTIES
    ImplementsPromise
    QueuedGetsRead
    FlushTerminates

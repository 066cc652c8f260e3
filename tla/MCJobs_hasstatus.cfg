\* has_status is never cleared.
CONSTANTS
    Targets = {t1, t2}
    MaxLines = 2
    Invocations <- HasStatus
    NoPid = NoPid
    FakePid = FakePid
    NoTarget = NoTarget
SPECIFICATION MCSpec
INVARIANT StatusIsOwn

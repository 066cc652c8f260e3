\* The jobserver, one slot, and no limit; builtins, failing forks, -k,
\* ignored failures, -q.  Three targets with a command each, or two with a recipe.
CONSTANTS
    Targets = {t1, t2, t3}
    MaxLines = 2
    Invocations <- Everyday
    NoPid = NoPid
    FakePid = FakePid
    NoTarget = NoTarget
SPECIFICATION MCFairSpec
INVARIANTS
    TypeOK
    JobsAccounted
    TokensConserved
    SuccessMeansDone
    NotParallelAlone
    NotParallelCounts

    

\* Three makes on one pipe, built with and without pselect().
\* No deadlock check: with pselect() a make that misses a SIGCHLD never wakes
\* (MCJobServer_stall); without it BuildEndsWithDup says more.
CONSTANTS
    Top = top
    Subs = {s1, s2}
    Slots = 2
    Commands <- Two
    Builds = {TRUE, FALSE}
SPECIFICATION MCFairSpec
INVARIANTS
    TypeOK
    TokensAddUp
    TokensBack
PROPERTIES
    ImplementsLimit
    BuildEndsWithDup
CHECK_DEADLOCK FALSE

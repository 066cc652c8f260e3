\* A build that pselect() leaves asleep for ever: the deadlock shows as BuildEnds violated.
CONSTANTS
    Top = top
    Subs = {s1}
    Slots = 2
    Commands <- Two
    Builds = {TRUE}
SPECIFICATION MCFairSpec
PROPERTIES
    BuildEnds
CHECK_DEADLOCK FALSE

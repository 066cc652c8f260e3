\* Workers of both kinds: the lists break.
CONSTANTS
    Workers = {w1, w2, w3}
    Kinds = {32, 64}
    Slots = {s1, s2}
    Nil = Nil
SPECIFICATION Spec
SYMMETRY Alike
CHECK_DEADLOCK FALSE
INVARIANTS
    LinksHold

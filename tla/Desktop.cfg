CONSTANTS
    Sends = {s1, s2}
    Clicks = {k1}
    Images = {i1}
    Convs = {c1, c2}
    None = None
SPECIFICATION Spec
INVARIANTS Kept FlagsAccounted StoppedIfAsked ReadyIsStored
SYMMETRY Symmetry
CHECK_DEADLOCK FALSE
CONSTRAINT Bound

\* Four calls on two keys; the last call done, nothing is left to do.
SPECIFICATION Spec
CONSTANTS
    Calls = {r1, r2, r3, r4}
    Keys = {k1, k2}
    Sizes = {1, 2}
    Max = 2
    Window = 2
    MaxDelay = 1
    MaxTime = 5
SYMMETRY Symmetry
INVARIANTS TypeOK BoundedPerWindow ForgetsIdleKeys
PROPERTY RefusedOnlyWhenFull
CHECK_DEADLOCK FALSE

\* Two requests whose touches overtake each other, late ticks, a lost run.
SPECIFICATION Spec
CONSTANTS
    Requests = {r1, r2}
    Managers = {}
    Retention = 1
    Every = 1
    MaxDelay = 1
    MaxTime = 11
    MaxSecrets = 1
    MaxMissed = 1
SYMMETRY Symmetry
INVARIANTS TypeOK IdleFeedsReaped
PROPERTY ReapedOnlyIdle
CHECK_DEADLOCK FALSE

\* Two processes over three files and two requests: they are told to stop or
\* die anywhere and boot again.
SPECIFICATION LSpec
CONSTANTS
    Processes = {p1, p2}
    Files = 3
    Repeatable = {1}
    MaxBoots = 4
    Requests = {r1, r2}
INVARIANTS RecordedInOrder ServesCurrentSchema
PROPERTIES CutOnlyWhenLate StopsWhenTold
CHECK_DEADLOCK FALSE

\* README.md:39 with one process and the two files of the repository.
SPECIFICATION Spec
CONSTANTS
    Processes = {p1}
    Files = 2
    Repeatable = {1}
    MaxBoots = 2
INVARIANT SafeToRunTwice
CHECK_DEADLOCK FALSE

\* Two callers, one source, a save and a deletion between any two steps.
SPECIFICATION FairSpec
CONSTANTS
    Callers = {c1, c2}
    MaxSources = 1
    OriginAnswers = {"calendar", "garbage", "failure"}
    Fresh = 1
    MaxStale = 2
    MaxTime = 3
    MaxSaves = 1
INVARIANTS TypeOK StaleOnlyAfterOverlap
PROPERTIES MergeSpacing BodiesOnlyAdvance CallersAnswered

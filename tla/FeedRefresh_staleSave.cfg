\* A save while a run is in flight, against the comment of UpdateFeed.
SPECIFICATION Spec
CONSTANTS
    Callers = {c1}
    MaxSources = 2
    OriginAnswers = {"calendar", "garbage", "failure"}
    Fresh = 1
    MaxStale = 2
    MaxTime = 2
    MaxSaves = 1
INVARIANT MergeMatchesSettings

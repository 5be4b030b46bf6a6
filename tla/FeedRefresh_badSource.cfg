\* One source answers garbage, against faq.html:18.
SPECIFICATION Spec
CONSTANTS
    Callers = {c1}
    MaxSources = 2
    OriginAnswers = {"calendar", "garbage", "failure"}
    Fresh = 1
    MaxStale = 2
    MaxTime = 2
    MaxSaves = 0
PROPERTY RemainingAreCombined

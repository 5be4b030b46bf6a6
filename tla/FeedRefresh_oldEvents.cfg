\* The 24 hours of README.md:17 and faq.html:18 against two expiry checks in a row.
SPECIFICATION Spec
CONSTANTS
    Callers = {c1}
    MaxSources = 2
    OriginAnswers = {"calendar", "garbage", "failure"}
    Fresh = 1
    MaxStale = 2
    MaxTime = 5
    MaxSaves = 0
INVARIANT ServedWithinMaxStale

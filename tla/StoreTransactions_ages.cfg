\* One refresh of two sources among two saves and a deletion, and time
\* enough for both expiry checks.
SPECIFICATION TxSpec
CONSTANTS
    Callers = {c1}
    MaxSources = 2
    OriginAnswers = {"calendar", "failure"}
    Fresh = 1
    MaxStale = 1
    MaxTime = 3
    MaxSaves = 2
    Savers = {s1, s2}
    Deleters = {d1}
SYMMETRY Symmetry
INVARIANTS ServedWithinTwiceMaxStale TablesAgree NoCircularWait
PROPERTIES GivesUpOnlyWhenExpired AtomicSaves

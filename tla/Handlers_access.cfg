\* Two manage requests and two ICS requests from two addresses, one rotation,
\* and a quota that two sources use up; little time.
SPECIFICATION HSpec
CONSTANTS
    Requests = {r1, r2}
    Managers = {m1, m2}
    Retention = 1
    Every = 1
    MaxDelay = 0
    MaxTime = 0
    MaxSecrets = 2
    MaxMissed = 0
    Addresses = {a1, a2}
    MaxSources = 2
    MaxFields = 3
    OriginLimit = 2
    TurnstileRequired = TRUE
    Hostnames = {}
    BaseHost = "site"
SYMMETRY Symmetry
INVARIANTS HTypeOK ServedWithItsSecret QuotaPaysForGets
PROPERTIES AsFeedAccess LimitedOnlyWhenSpent GoneForGood ChangesVerified
CHECK_DEADLOCK FALSE

\* Every single event, and pairs of calendars with common UIDs and zones,
\* under every window of up to two months.
SPECIFICATION Spec
CONSTANTS
    MonthStart <- MCMonthStart
    MaxChecks = 3
    Forever = 99
    Inputs <- AllInputs
    Windows <- AllWindows
    Far = 20
INVARIANTS
    UidsApart ZonesOnce ZonesDefined SeriesTogether
    KeepsWhatIsInside DropsWhatIsOutside WiderKeepsMore
CHECK_DEADLOCK FALSE

SPECIFICATION FairSpec
CONSTANTS
    FirstDay <- MCFirstDay
    DaysInWeek = 2
    Series = {s1, s2}
    Templates <- MCSerialTemplates
    OneOffDates = {1}
    Horizon = 1
    Grace = 1
    Requests = {r1}
    Today = {2, 4}
    MaxEvents = 4
    PerRequest = 2
    MaxGames = 1
    MaxDrops = 0
    None = None
INVARIANTS
    EachOccurrenceOnce
    ListingGeneratesWhatIsDue
PROPERTIES
    GamesKeepTheirEvent
    CancelledSeriesIsClosed
    ListingClearsThePast
    RequestsEnd

SPECIFICATION Spec
CONSTANTS
    FirstDay <- MCFirstDay
    DaysInWeek = 2
    Series = {s1}
    Templates <- MCTemplates
    OneOffDates = {}
    Horizon = 5
    Grace = 1
    Requests = {r1}
    Today = {2}
    MaxEvents = 4
    PerRequest = 4
    MaxGames = 1
    MaxDrops = 0
    None = None
INVARIANTS
    CadenceIsAligned

SPECIFICATION Spec
CONSTANTS
    FirstDay <- MCFirstDay
    DaysInWeek = 2
    Series = {s1}
    Templates <- MCTemplates
    OneOffDates = {}
    Horizon = 2
    Grace = 1
    Requests = {r1, r2}
    Today = {2}
    MaxEvents = 4
    PerRequest = 2
    MaxGames = 1
    MaxDrops = 0
    None = None
SYMMETRY MCSymmetry
INVARIANTS
    RepeatedListingsNeverDuplicate

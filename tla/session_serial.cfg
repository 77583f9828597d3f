SPECIFICATION Spec
CONSTANTS
    m1 = m1
    m2 = m2
    None = None
    Members = {m1, m2, m3}
    GameIds = {g1, g2}
    TeamSize = 1
    PegTeams = {}
    Panel = TRUE
    OtherEvents = FALSE
    Requests = {r1}
    MaxCompletions = 1
    MaxDrops = 0
INVARIANTS
    CountsCoverGames
PROPERTIES
    ImplementsSession

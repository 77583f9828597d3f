SPECIFICATION Spec
CONSTANTS
    m1 = m1
    m2 = m2
    None = None
    Members = {m1, m2}
    GameIds = {g1}
    TeamSize = 1
    PegTeams <- MCPegTeams
    Panel = FALSE
    OtherEvents = TRUE
    Requests = {r1, r2}
    MaxCompletions = 2
    MaxDrops = 1
SYMMETRY MCSymmetry
INVARIANTS
    TypeOK
    StreaksAreWins
    PlayedWithIsMutual
    WinsFollowRatings
    NobodyIsStuckInGame

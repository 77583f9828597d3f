SPECIFICATION Spec
CONSTANTS
    m1 = m1
    m2 = m2
    None = None
    Members = {m1, m2}
    GameIds = {g1, g2}
    TeamSize = 1
    PegTeams <- MCPegTeams
    Panel = FALSE
    OtherEvents = FALSE
    Requests = {r1, r2}
    MaxCompletions = 1
    MaxDrops = 0
SYMMETRY MCSymmetry
INVARIANTS
    NobodyIsStuckInGame

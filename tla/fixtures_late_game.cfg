SPECIFICATION Spec
CONSTANTS
    c1 = c1
    c2 = c2
    homeAdmin = homeAdmin
    awayAdmin = awayAdmin
    dualAdmin = dualAdmin
    None = None
    FixtureIds = {f1}
    GameIds = {g1, g2}
    Clubs = {c1, c2}
    GameTypes = {badminton}
    Users = {homeAdmin, awayAdmin}
    AdminOf <- MCAdminOfEach
    Requests = {r1}
    MaxDrops = 0
PROPERTIES
    SettledResultWasConfirmed

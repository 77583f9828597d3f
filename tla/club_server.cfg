SPECIFICATION Spec
CONSTANTS
    None = None
    ann = ann
    ben = ben
    g1 = g1
    g2 = g2
    g3 = g3
    c1 = c1
    c2 = c2
    Requests = {r1, r2}
    Workloads <- MCWorkloads
    MaxDrops = 1
    Users = {ann, ben}
    Browsers = {1}
    HomeOf <- MCHomeOf
    MaxSessions = 2
    MaxAccess = 3
    MaxLetters = 2
    MaxPassword = 2
    Clubs = {c1, c2}
    Founder = ben
    Helper = ann
    MaxMembers = 4
    MaxMemberRequests = 2
    MaxDummies = 1
    LogoTypes = {png, jpg}
    Players = {ann, ben}
    Games = {g1, g2, g3}
    GameOf <- MCGameOf
    MaxElos = 4
    MaxPlays = 3
    Rosters <- MCRosters
    Sizes = {0, 1, 2}
    MaxSwaps = 10
SYMMETRY MCSymmetry
INVARIANTS
    TypeOK
    JarIsOneSession
    NoSessionOfOldPassword
    CleanErasureIsFinal
    OneMembershipEach
    PlaceholdersAreWhole
    PresidentsBelong
    LogosAreThere
    RatingsCountGames
    TeamsAreFair
    EvenTeamsAreMostEven
PROPERTIES
    OnlyTheSpentEnd
    OnlyPresidentsUnmakeAdmins
CHECK_DEADLOCK FALSE

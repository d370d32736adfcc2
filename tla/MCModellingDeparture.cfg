SPECIFICATION Spec
CONSTANTS
    Programs = {"players"}
    Files <- MCFiles
    Clubs = {"a", "b", "c"}
    RequiredSeasons = 3
    PredictionLead = 1
    FormWindow = 1
    Contexts <- MCContexts
    WalkClubs = {"a", "b"}
    WalkPlayers = {1, 2, 3}
    PlayerPosition <- MCPosition
    Goalkeeper = "keeper"
    Formation <- MCFormation
    LineupSize = 2
    SquadWindow = 4
    ProfileWindow = 1
    LineupLead = 1
    RecentTactics = 1
    NoClub = "none"
    Candidates = {1, 2}
    Losses = {0, 1, 2}
    Margin = 2
    Imports = {i1, i2}
    Fixtures <- MCFixtures
    PlayerExports = {p1, p2}
    CoveredExports = {p1}
    MaxArtifacts = 1
    MaxFaults = 2
INVARIANT
    KnownDepartureRemoved
CHECK_DEADLOCK FALSE

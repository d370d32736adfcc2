SPECIFICATION Spec
CONSTANTS
    Programs = {"replay"}
    Clients = {c1, c2}
    DailyLimit = 2
    MinuteLimit = 1
    Minute = 1
    Day = 2
    MaxTime = 2
    MaxRequests = 4
    MaxDeaths = 1
    Feeds <- MCFeeds
    KnownClubs <- MCKnownClubs
    TeamName <- MCTeamName
    ClubIdentity <- MCClubIdentity
    PageSize = 2
    MaxPages = 2
    Tolerance = 2
    MaxChanges = 2
    MaxSyncs = 3
    Catalogues <- MCCatalogues
    SquadReferences = {1, 2, 3}
    SquadClub <- MCSquadClub
    MatchReferences = {1, 2, 3, 4}
    MatchOf <- MCMatchOf
    NextKickoff <- MCNextKickoff
    SyncRequests = 6
    SyncSquads = 2
    SyncMatches = 2
    InjuryPages = 3
    TransferPages = 4
    MinSquad = 2
    MaxSquad = 3
    MaxRuns = 3
    Sources = {s1, s2, s3}
    Limit = 2
    Window = 2
    MaxKeys = 2
    LastTime = 3
    MaxConsumed = 5
    Pages = {1, 2, 3}
    TabOf <- MCTabOf
    MaxToggles = 2
    MaxTurns = 2
    MaxInbox = 1
    Scorelines <- MCScorelines
    Samples <- MCSamples
    FirstHalf = {180, 2699}
    SecondHalf = {2820, 5399}
    Late = {3480}
    Substitutions = 1
INVARIANT
    TableWaitsForReveal
CHECK_DEADLOCK FALSE

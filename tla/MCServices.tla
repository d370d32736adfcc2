------------------------------- MODULE MCServices ------------------------------
(***************************************************************************)
(* The provider clients, the synchronizations, the limiters, the pages of  *)
(* the browser and the replay of a match share no state in these models,   *)
(* so one instance checks them side by side: which of them runs is chosen  *)
(* in the initial state and the others stay as they were.                  *)
(***************************************************************************)
EXTENDS ProviderRequests, FixtureIdentity, PlayerSync, RateLimiter, ForecastPoller,
        StoredReplay

CONSTANT Programs

VARIABLE program

vars == <<requestVars, identityVars, playerSyncVars, limiterVars, pollerVars,
          replayVars, program>>

-----------------------------------------------------------------------------
(* Feeds: A and B are rows of the canonical and of a mirror feed for one    *)
(* match, C and D play other matches; t1 and t4 are spellings of one club   *)

FeedRow(id, home, away, date, mirror, status) ==
    [id |-> id, round |-> 1, home |-> home, away |-> away, date |-> date,
     mirror |-> mirror, status |-> status, scored |-> status = "finished", known |-> TRUE]

A(date, status) == FeedRow(1, "t1", "t2", date, FALSE, status)
B(date, status) == FeedRow(2, "t1", "t2", date, TRUE, status)
C(date) == FeedRow(3, "t3", "t1", date, FALSE, "scheduled")
D(date) == FeedRow(4, "t4", "t2", date, FALSE, "scheduled")

MCFeeds ==
    { <<A(3, "scheduled"), C(5)>>,
      <<B(2, "scheduled"), C(5), A(3, "scheduled")>>,
      <<B(2, "scheduled"), D(3)>>,
      <<A(3, "scheduled"), [B(2, "scheduled") EXCEPT !.round = 2]>>,
      <<A(8, "scheduled"), B(7, "finished")>>,
      <<[A(2, "scheduled") EXCEPT !.known = FALSE], [A(3, "live") EXCEPT !.id = 5],
        [A(4, "live") EXCEPT !.id = 6, !.scored = TRUE], C(5)>>,
      <<A(3, "postponed"), C(6)>>,
      <<A(3, "finished"), B(2, "finished")>>,
      <<C(5), B(4, "scheduled"), D(4)>> }

MCTeamName ==
    [t \in {"t1", "t2", "t3", "t4"} |->
        CASE t = "t1" -> "X FC" [] t = "t2" -> "Y" [] t = "t3" -> "Z" [] OTHER -> "X"]

MCClubIdentity ==
    [n \in {"X FC", "X", "Y", "Z", "Z FC", "Z AFC"} |->
        CASE n \in {"X FC", "X"} -> "x" [] n = "Y" -> "y" [] OTHER -> "z"]

\* no club, one under another spelling, or two that only differ in theirs
MCKnownClubs == {<<>>, <<"X">>, <<"Z FC", "Z AFC">>}

-----------------------------------------------------------------------------
(* Catalogues: what the providers answer to one synchronization             *)

Player(id, name, position) == [id |-> id, name |-> name, position |-> position]
Keeper == Player(1, "A", "gk")
OtherKeeper == Player(1, "A", "g")
Forward == Player(2, "B", "field")
Nameless == Player(3, NoName, "field")

Element(id, name, position, club) ==
    [id |-> id, name |-> name, position |-> position, club |-> club]
Injured(p, club) == [player |-> p, club |-> club]
Moved(p, from, to, date) == [player |-> p, from |-> from, to |-> to, date |-> date]
Squad(current, players) == [current |-> current, players |-> players]
Played(p, club) == [player |-> p, club |-> club]
Eleven(club, players) == [club |-> club, players |-> players]

Catalogue(injuries, transfers, squads, performances) ==
    [injuries |-> injuries, transfers |-> transfers, squads |-> squads,
     fpl |-> <<Element(10, "A", "gk", 1), Element(20, "A", "gk", 2), Element(30, "B", "field", 9),
               Element(11, "B", "field", 1), Element(21, "B", "field", 2)>>,
     lineups |-> [r \in MatchReferences |-> <<Eleven(1, <<Keeper, Forward>>), Eleven(9, <<Nameless>>)>>],
     performances |-> performances]

\* clubs 1 and 2 play; club 9 is unknown to the installation
MCCatalogues ==
    { Catalogue(<< <<Injured(Keeper, 1), Injured(Nameless, 1)>>, <<Injured(Forward, 9)>> >>,
                << <<Moved(Forward, 1, 2, 4), Moved(Keeper, 1, 2, 0)>> >>,
                <<Squad(TRUE, <<Keeper, Forward>>), Squad(TRUE, <<Forward>>),
                  Squad(TRUE, <<Keeper, Forward>>)>>,
                << <<Played(Keeper, 1)>>, <<Played(Keeper, 1)>>, <<>>, <<Played(Forward, 1)>> >>),
      Catalogue(<< <<>> >>, << <<>> >>,
                <<Squad(FALSE, <<Keeper, Forward>>), Squad(TRUE, <<Keeper, Nameless>>),
                  Squad(TRUE, <<>>)>>,
                [r \in MatchReferences |-> <<Played(Keeper, 1), Played(Forward, 1)>>]),
      Catalogue(<< <<>>, <<>>, <<>> >>, << <<Moved(Forward, 1, 2, 4)>>, <<>>, <<>>, <<>> >>,
                <<Squad(TRUE, <<OtherKeeper, Forward>>), Squad(TRUE, <<Keeper, Forward>>),
                  Squad(FALSE, <<Keeper>>)>>,
                [r \in MatchReferences |-> <<Played(Forward, 9)>>]) }

\* the second club and the newest match are known under two identifiers
MCSquadClub == <<1, 2, 2>>
MCMatchOf == <<1, 2, 3, 3>>
MCNextKickoff == [c \in 1..2 |-> 1]

-----------------------------------------------------------------------------
(* Pages: the first two are opened one after the other in one tab           *)

MCTabOf == <<1, 1, 2>>

-----------------------------------------------------------------------------
(* Scores and statistics, contradictory ones included                       *)

Score(home, away) == [s \in Sides |-> IF s = "home" THEN home ELSE away]
MCScorelines == {Score(0, 0), Score(2, 1), Score(1, 0)}

Statistics(halfTime, shots, onTarget, fouls) ==
    [halfTime |-> halfTime, shots |-> shots, onTarget |-> onTarget, fouls |-> fouls]
MCSamples ==
    {Statistics(0, 0, 0, 0), Statistics(1, 1, 2, 0), Statistics(2, 0, 1, 1),
     Statistics(0, 2, 1, 0)}

-----------------------------------------------------------------------------

\* all processes, or one of them: which one makes no difference
ClientSets == {Clients, {CHOOSE c \in Clients : TRUE}}

\* the inputs of a program that does not run
NoFeed == <<>>
AnyCatalogue == CHOOSE c \in MCCatalogues : TRUE

Init ==
    /\ program \in Programs
    /\ IF program = "requests" THEN prClients \in ClientSets /\ ProviderRequestsInit
       ELSE prClients = Clients /\ ProviderRequestsStart
    /\ IF program = "fixtures" THEN fiFeed \in Feeds ELSE fiFeed = NoFeed
    /\ \E clubs \in KnownClubs :
         /\ program = "fixtures" \/ clubs = <<>>
         /\ fiDb = EmptyDatabase(clubs)
    /\ FixtureIdentityStart
    /\ IF program = "players" THEN psSource \in Catalogues ELSE psSource = AnyCatalogue
    /\ PlayerSyncStart
    /\ IF program = "limiter" THEN RateLimiterInit ELSE rlKind = "api" /\ RateLimiterStart
    /\ ForecastPollerStart
    /\ IF program = "replay" THEN StoredReplayInit
       ELSE rpOwner = "device" /\ StoredReplayStart

Next ==
    \/ /\ program = "requests" /\ ProviderRequestsNext
       /\ UNCHANGED <<identityVars, playerSyncVars, limiterVars, pollerVars, replayVars, program>>
    \/ /\ program = "fixtures" /\ FixtureIdentityNext
       /\ UNCHANGED <<requestVars, playerSyncVars, limiterVars, pollerVars, replayVars, program>>
    \/ /\ program = "players" /\ PlayerSyncNext
       /\ UNCHANGED <<requestVars, identityVars, limiterVars, pollerVars, replayVars, program>>
    \/ /\ program = "limiter" /\ RateLimiterNext
       /\ UNCHANGED <<requestVars, identityVars, playerSyncVars, pollerVars, replayVars, program>>
    \/ /\ program = "pages" /\ ForecastPollerNext
       /\ UNCHANGED <<requestVars, identityVars, playerSyncVars, limiterVars, replayVars, program>>
    \/ /\ program = "replay" /\ StoredReplayNext
       /\ UNCHANGED <<requestVars, identityVars, playerSyncVars, limiterVars, pollerVars, program>>

Spec == Init /\ [][Next]_vars

=============================================================================

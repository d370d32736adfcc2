------------------------------- MODULE PlayerSync -------------------------------
(***************************************************************************)
(* Player context synchronization: one budget of requests is spent on      *)
(* injuries and transfers, then on the squads that need them most, with a  *)
(* second provider where a squad stays inadequate, then on the details of  *)
(* finished matches.  Every answer is normalized in a transaction of its   *)
(* own, any request may fail, and an exception ends the synchronization    *)
(* with whatever it has committed by then.                                 *)
(*                                                                         *)
(* Clubs and matches are asked for by the identifiers the provider knows   *)
(* them under, of which there may be several: a row of a feed that is      *)
(* recognized by its teams and date gives its match one more.  Matches are *)
(* numbered by kickoff.  A fetch is named by the run and the number of its *)
(* request, and stands for the time at which its answer is ingested.       *)
(***************************************************************************)
EXTENDS Integers, Sequences, FiniteSets, SequencesExt

CONSTANTS
    Catalogues,      \* what the providers may answer during a run
    SquadReferences, \* identifiers of the clubs that have matches
    SquadClub,       \* the club of each, numbered
    MatchReferences, \* identifiers of the finished matches
    MatchOf,         \* the match of each, numbered
    NextKickoff,     \* next kickoff of each club
    SyncRequests,    \* max_requests (16)
    SyncSquads,      \* max_squads (10)
    SyncMatches,     \* max_matches (2)
    InjuryPages, TransferPages,   \* page limits (3 and 2)
    MinSquad, MaxSquad,           \* usable sizes (15 and 50)
    MaxRuns          \* bound: synchronizations

ASSUME PlayerSyncAssumption ==
    /\ IsFiniteSet(SquadReferences) /\ IsFiniteSet(MatchReferences)
    /\ MatchOf \in [MatchReferences -> Nat]
    /\ SyncRequests \in Nat \ {0} /\ SyncSquads \in Nat /\ SyncMatches \in Nat
    /\ MinSquad \in Nat /\ MaxRuns \in Nat

SquadClubs == {SquadClub[r] : r \in SquadReferences}

SeveralReferences(match) ==
    \E r, s \in MatchReferences : r # s /\ MatchOf[r] = match /\ MatchOf[s] = match

IsList(rows) == Len(rows) \in Nat /\ DOMAIN rows = 1..Len(rows)
IsPaged(pages) ==
    /\ IsList(pages) /\ Len(pages) > 0
    /\ \A i \in DOMAIN pages : IsList(pages[i])

\* what validates is a list of rows; an endpoint with pages has a first one
ASSUME CatalogueAssumption ==
    \A answers \in Catalogues :
        /\ IsPaged(answers.injuries) /\ IsPaged(answers.transfers) /\ IsList(answers.fpl)
        /\ \A r \in SquadReferences : IsList(answers.squads[r].players)
        /\ \A r \in MatchReferences :
             /\ IsList(answers.performances[r]) /\ IsList(answers.lineups[r])
             /\ \A i \in DOMAIN answers.lineups[r] : IsList(answers.lineups[r][i].players)

VARIABLES
    psSource,   \* what the providers answer during this run
    psRun,      \* the synchronization that runs
    psRuns,
    psDb        \* players, references, squads, reports, transfers, lineups, performances

playerSyncVars == <<psSource, psRun, psRuns, psDb>>

NoRun == [step |-> "idle", used |-> 0, global |-> 0, page |-> 1, clubs |-> <<>>,
          matches |-> <<>>, fallback |-> {}, requested |-> 0]

-----------------------------------------------------------------------------
(* Players *)

HasReference(db, provider, id) ==
    \E ref \in db.refs : ref.provider = provider /\ ref.id = id
Referenced(db, provider, id) ==
    (CHOOSE ref \in db.refs : ref.provider = provider /\ ref.id = id).player

Refer(db, provider, id, player) ==
    [db EXCEPT !.refs = @ \cup {[provider |-> provider, id |-> id, player |-> player]}]
AddPlayer(db, name) == [db EXCEPT !.players = Append(@, name)]

NoName == ""
Resolvable(db, p) == HasReference(db, "kickoffapi", p.id) \/ p.name # NoName

\* the referenced player takes the name the provider gives it now; an unknown
\* identifier is a new player, unless it has no name
ResolvePlayer(db, p) ==
    IF HasReference(db, "kickoffapi", p.id)
    THEN IF p.name = NoName THEN db
         ELSE [db EXCEPT !.players[Referenced(db, "kickoffapi", p.id)] = p.name]
    ELSE Refer(AddPlayer(db, p.name), "kickoffapi", p.id, Len(db.players) + 1)

\* the FPL player is the one member of the club with this name, or a new player
ResolveFplPlayer(db, p, club) ==
    LET same == {m \in db.members : m.club = club /\ db.players[m.player] = p.name}
    IN  IF HasReference(db, "fpl-current", p.id)
        THEN [db EXCEPT !.players[Referenced(db, "fpl-current", p.id)] = p.name]
        ELSE IF Cardinality(same) = 1
        THEN Refer(db, "fpl-current", p.id, (CHOOSE m \in same : TRUE).player)
        ELSE Refer(AddPlayer(db, p.name), "fpl-current", p.id, Len(db.players) + 1)

\* do something with the player of a row, if it can be resolved
ForPlayer(db, p, Do(_, _)) ==
    IF ~Resolvable(db, p) THEN db
    ELSE LET resolved == ResolvePlayer(db, p)
         IN  Do(resolved, Referenced(resolved, "kickoffapi", p.id))

-----------------------------------------------------------------------------
(* Ingestion: each Ingest... is one transaction over the rows of an answer   *)

\* an open membership per club and player; nothing ever closes one
AddMember(db, club, player, position) ==
    [db EXCEPT !.members =
        {m \in @ : m.club # club \/ m.player # player}
          \cup {[club |-> club, player |-> player, position |-> position]}]

SquadPlayer(club, db, p) ==
    ForPlayer(db, p, LAMBDA d, player : AddMember(d, club, player, p.position))
IngestSquad(db, club, players) ==
    FoldLeft(LAMBDA d, p : SquadPlayer(club, d, p), db, players)

\* the elements of all clubs in one answer, those of the targets are taken
FplPlayer(targets, db, p) ==
    IF p.club \notin targets THEN db
    ELSE LET resolved == ResolveFplPlayer(db, p, p.club)
         IN  AddMember(resolved, p.club, Referenced(resolved, "fpl-current", p.id), p.position)
IngestFplSquads(db, elements, targets) ==
    FoldLeft(LAMBDA d, p : FplPlayer(targets, d, p), db, elements)

\* the club of the report, or else that of a membership of the player
InjuryClubs(db, row, player) ==
    IF row.club \in SquadClubs THEN {row.club}
    ELSE {m.club : m \in {x \in db.members : x.player = player}}

InjuryReport(rows, fetch, db, i) ==
    ForPlayer(db, rows[i].player, LAMBDA d, player :
        LET clubs == InjuryClubs(d, rows[i], player)
        IN  IF clubs = {} THEN d
            ELSE [d EXCEPT !.reports = @ \cup
                   {[fetch |-> fetch, index |-> i, player |-> player,
                     club |-> CHOOSE c \in clubs : TRUE]}])
IngestInjuries(db, rows, fetch) ==
    FoldLeft(LAMBDA d, i : InjuryReport(rows, fetch, d, i), db, [i \in DOMAIN rows |-> i])

\* placeholder rows without a date or a player are left out
Transfer(db, r) ==
    IF r.date = 0 THEN db
    ELSE ForPlayer(db, r.player, LAMBDA d, player :
             [d EXCEPT !.transfers = @ \cup
               {[player |-> player, from |-> r.from, to |-> r.to, date |-> r.date]}])
IngestTransfers(db, rows) == FoldLeft(Transfer, db, rows)

\* a lineup is stored once per match, club and content
LineupPlayer(db, p) == ForPlayer(db, p, LAMBDA d, player : d)
Lineup(match, db, lineup) ==
    LET row == [match |-> match, club |-> lineup.club, content |-> lineup.players]
    IN  IF lineup.club \notin SquadClubs \/ row \in db.lineups THEN db
        ELSE FoldLeft(LineupPlayer, [db EXCEPT !.lineups = @ \cup {row}], lineup.players)
IngestLineups(db, match, lineups) ==
    FoldLeft(LAMBDA d, lineup : Lineup(match, d, lineup), db, lineups)

\* a performance that exists is overwritten, its availability included: the
\* fetch is one of its values and always differs, and the match may have been
\* ingested before under another identifier
Performance(match, now, db, row) ==
    ForPlayer(db, row.player, LAMBDA d, player :
        IF row.club \notin SquadClubs THEN d
        ELSE [d EXCEPT !.performances =
                {x \in @ : <<x.match, x.club, x.player>> # <<match, row.club, player>>}
                  \cup {[match |-> match, club |-> row.club, player |-> player,
                         available |-> now]}])
IngestPerformances(db, match, rows, now) ==
    FoldLeft(LAMBDA d, row : Performance(match, now, d, row), db, rows)

-----------------------------------------------------------------------------
(* Targets *)

Truncated(seq, n) == IF Len(seq) > n THEN SubSeq(seq, 1, n) ELSE seq

Adequate(db, club) ==
    LET members == {m \in db.members : m.club = club}
    IN  Cardinality(members) >= MinSquad /\ \E m \in members : m.position = "gk"

\* squads that are not adequate first, then by their next kickoff; which of
\* two clubs that play each other comes first is left open, and so is the
\* order of the identifiers of one club
Precedes(a, b) ==
    LET Rank(club) == IF Adequate(psDb, club) THEN 1 ELSE 0
    IN  \/ Rank(a) < Rank(b)
        \/ Rank(a) = Rank(b) /\ NextKickoff[a] < NextKickoff[b]

ClubTargets ==
    LET orders == {o \in [1..Cardinality(SquadReferences) -> SquadReferences] :
                     \A i, j \in DOMAIN o : i < j => 
                        o[i] # o[j] /\ ~Precedes(SquadClub[o[j]], SquadClub[o[i]])}
        limit == IF SyncSquads < SyncRequests THEN SyncSquads ELSE SyncRequests
    IN  {Truncated(o, limit) : o \in orders}

\* the identifiers of a match come together, in an order left open
NewestFirst(refs) ==
    {o \in [1..Cardinality(refs) -> refs] :
       \A i, j \in DOMAIN o : i < j => o[i] # o[j] /\ MatchOf[o[i]] >= MatchOf[o[j]]}

\* identifiers are selected until there are as many as the limit: with a limit
\* of zero the walk ends at a newest match that is not selected, or never
Reached(order) ==
    IF SyncMatches = 0 /\ order # <<>>
         /\ \A r \in MatchReferences : MatchOf[r] <= MatchOf[order[1]]
    THEN order
    ELSE Truncated(order, SyncMatches)

AllFinished == {Reached(o) : o \in NewestFirst(MatchReferences)}

\* every identifier of the newest finished matches of which no performance is
\* known; the limit counts identifiers
MatchTargets ==
    LET unknown == {r \in MatchReferences :
                      \A x \in psDb.performances : x.match # MatchOf[r]}
    IN  {Reached(o) : o \in NewestFirst(unknown)}

\* a snapshot of the season, of a plausible size and with a keeper, however
\* the provider abbreviates it; an adequate squad knows one of its spellings
SquadUsable(answer) ==
    /\ answer.current
    /\ LET ids == {answer.players[i].id : i \in DOMAIN answer.players}
       IN  Cardinality(ids) >= MinSquad /\ Cardinality(ids) <= MaxSquad
    /\ \E i \in DOMAIN answer.players : answer.players[i].position \in {"gk", "g"}

-----------------------------------------------------------------------------
(* The plan *)

Left(run) == SyncRequests - run.used

NoReserve(run) == 0

\* requests kept for the match details: two for each target, if they are left
MatchReserve(run) ==
    IF 2 * Len(run.matches) < Left(run) THEN 2 * Len(run.matches) ELSE Left(run)

\* what follows the injuries, the transfers, the squads and the fallback
AfterInjuries(run) == [run EXCEPT !.step = "transfers", !.page = 1]
AfterTransfers(run) ==
    [run EXCEPT !.step = "squads", !.global = run.used,
                !.clubs = Truncated(@, Left(run) - MatchReserve(run))]
AfterSquads(run) ==
    [run EXCEPT !.step = IF run.fallback = {} THEN "lineups" ELSE "fallback"]

Spend(run) == [run EXCEPT !.used = @ + 1]
Fetch(run) == <<psRuns, run.used + 1>>

StartSync ==
    /\ psRun.step = "idle"
    /\ psRuns < MaxRuns /\ psRuns' = psRuns + 1
    /\ psSource' \in Catalogues
    /\ \E clubs \in ClubTargets, matches \in MatchTargets :
         psRun' = [NoRun EXCEPT !.step = "injuries", !.clubs = clubs, !.matches = matches]
    /\ UNCHANGED psDb

\* an endpoint with pages: it is left when the budget is used up or a request
\* fails, after the last page or after the limit of pages; a cursor that comes
\* again raises after its page was committed
PagedStep(step, limit, pages, Ingested(_), After(_)) ==
    /\ psRun.step = step
    /\ \/ /\ psRun.used >= SyncRequests
          /\ psRun' = After(psRun) /\ UNCHANGED psDb
       \/ /\ psRun.used < SyncRequests
          /\ psRun' = After(Spend(psRun)) /\ UNCHANGED psDb
       \/ /\ psRun.used < SyncRequests
          /\ psDb' = Ingested(pages[psRun.page])
          /\ \/ psRun' = IF psRun.page < Len(pages) /\ psRun.page < limit
                         THEN [Spend(psRun) EXCEPT !.page = @ + 1]
                         ELSE After(Spend(psRun))
             \/ psRun.page > 1 /\ psRun' = NoRun
    /\ UNCHANGED <<psSource, psRuns>>

SyncInjuries ==
    PagedStep("injuries", InjuryPages, psSource.injuries,
              LAMBDA rows : IngestInjuries(psDb, rows, Fetch(psRun)), AfterInjuries)
SyncTransfers ==
    PagedStep("transfers", TransferPages, psSource.transfers,
              LAMBDA rows : IngestTransfers(psDb, rows), AfterTransfers)

\* the squad of the next club of the list: a failed request passes it over, a snapshot
\* that cannot be used or leaves the squad inadequate asks for the fallback
SyncSquad ==
    /\ psRun.step = "squads" /\ psRun.clubs # <<>>
    /\ LET club == SquadClub[Head(psRun.clubs)]
           next == [Spend(psRun) EXCEPT !.clubs = Tail(@)]
           answer == psSource.squads[Head(psRun.clubs)]
           ingested == IngestSquad(psDb, club, answer.players)
       IN  \/ psRun' = next /\ UNCHANGED psDb
           \/ /\ ~SquadUsable(answer)
              /\ psRun' = [next EXCEPT !.fallback = @ \cup {club}]
              /\ UNCHANGED psDb
           \/ /\ SquadUsable(answer)
              /\ psDb' = ingested
              /\ psRun' = IF Adequate(ingested, club) THEN next
                          ELSE [next EXCEPT !.fallback = @ \cup {club}]
    /\ UNCHANGED <<psSource, psRuns>>

EndSquads ==
    /\ psRun.step = "squads" /\ psRun.clubs = <<>>
    /\ psRun' = AfterSquads(psRun)
    /\ UNCHANGED <<psSource, psRuns, psDb>>

\* one request of the other provider, outside the budget of this one
SyncFallback ==
    /\ psRun.step = "fallback"
    /\ psDb' = IngestFplSquads(psDb, psSource.fpl, psRun.fallback)
    /\ psRun' = [psRun EXCEPT !.step = "lineups"]
    /\ UNCHANGED <<psSource, psRuns>>

\* both requests for the next identifier, or none; each of them may fail
SyncLineups ==
    /\ psRun.step = "lineups"
    /\ IF psRun.matches = <<>> \/ psRun.used + 2 > SyncRequests
       THEN psRun' = [psRun EXCEPT !.step = "done"] /\ UNCHANGED psDb
       ELSE LET ref == Head(psRun.matches)
            IN  /\ psRun' = [Spend(psRun) EXCEPT !.step = "performances"]
                /\ \/ UNCHANGED psDb
                   \/ psDb' = IngestLineups(psDb, MatchOf[ref], psSource.lineups[ref])
    /\ UNCHANGED <<psSource, psRuns>>

SyncPerformances ==
    /\ psRun.step = "performances"
    /\ LET ref == Head(psRun.matches)
       IN  \/ UNCHANGED psDb
           \/ psDb' = IngestPerformances(psDb, MatchOf[ref], psSource.performances[ref],
                                         Fetch(psRun))
    /\ psRun' = [Spend(psRun) EXCEPT !.step = "lineups", !.matches = Tail(@),
                                     !.requested = @ + 1]
    /\ UNCHANGED <<psSource, psRuns>>

EndSync ==
    /\ psRun.step = "done"
    /\ psRun' = NoRun
    /\ UNCHANGED <<psSource, psRuns, psDb>>

\* an exhausted budget, a broken connection, an invalid payload or the end of
\* the process: what was committed stays
SyncRaises ==
    /\ psRun.step \notin {"idle", "done"}
    /\ psRun' = NoRun
    /\ UNCHANGED <<psSource, psRuns, psDb>>

-----------------------------------------------------------------------------

PlayerSyncStart ==
    /\ psRun = NoRun
    /\ psRuns = 0
    /\ psDb = [players |-> <<>>, refs |-> {}, members |-> {}, reports |-> {},
               transfers |-> {}, lineups |-> {}, performances |-> {}]

PlayerSyncInit ==
    /\ psSource \in Catalogues
    /\ PlayerSyncStart

PlayerSyncNext ==
    \/ StartSync
    \/ SyncInjuries \/ SyncTransfers
    \/ SyncSquad \/ EndSquads \/ SyncFallback
    \/ SyncLineups \/ SyncPerformances
    \/ EndSync \/ SyncRaises

PlayerSyncSpec == PlayerSyncInit /\ [][PlayerSyncNext]_playerSyncVars

-----------------------------------------------------------------------------
(* Properties *)

\* The squads never use up what the match details need: a synchronization that
\* comes to its end has asked for as many of its matches as the requests left
\* by the injuries and transfers allow, whatever failed, and never for more
\* than the budget.
MatchDetailsNotStarved ==
    /\ psRun.used <= SyncRequests
    /\ psRun.step = "done" =>
         LET affordable == (SyncRequests - psRun.global) \div 2
         IN  \/ psRun.matches = <<>>
             \/ psRun.requested = affordable

\* the same performance, available since the same synchronization
SameRun(x, y) ==
    <<x.match, x.club, x.player, x.available[1]>> = <<y.match, y.club, y.player, y.available[1]>>

\* What was known, and when, stays: no run, complete or not, drops a performance,
\* a lineup, a report or a reference, and the time from which models may use a
\* performance is final once its run is over.  Within that run it moves on only
\* where the provider knows the match under several identifiers, each of which
\* is asked for.
PerformancesKept ==
    [][/\ \A x \in psDb.performances :
            \/ x \in psDb'.performances
            \/ SeveralReferences(x.match) /\ \E y \in psDb'.performances : SameRun(x, y)
       /\ psDb.lineups \subseteq psDb'.lineups
       /\ psDb.reports \subseteq psDb'.reports
       /\ psDb.refs \subseteq psDb'.refs]_playerSyncVars

=============================================================================

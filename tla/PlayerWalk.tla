------------------------------ MODULE PlayerWalk -----------------------------
(***************************************************************************)
(* The two passes that enrich the feature rows: player context (recent     *)
(* performances, transfers, availability reports, an expected lineup) and  *)
(* tactics (style counts and observed shapes).  Both keep an index into a  *)
(* list sorted by the time of observation and advance it to the cutoff of  *)
(* each row in turn; neither ever steps back.                              *)
(***************************************************************************)
EXTENDS Integers, Sequences, FiniteSets, SequencesExt, Places

CONSTANTS
    Contexts,         \* candidate inputs: rows, performances, transfers,
                      \* availability reports and style counts
    WalkPlayers, WalkClubs,
    PlayerPosition,   \* the position group of each player
    Goalkeeper,       \* one of the groups
    Formation,        \* starters wanted per position group (1, 4, 3, 3)
    LineupSize,       \* 11
    SquadWindow,      \* 400 days
    ProfileWindow,    \* 10 performances
    LineupLead,       \* 24 hours, in the model's unit of time (a day)
    RecentTactics,    \* 5
    NoClub

ASSUME PlayerWalkAssumption ==
    /\ WalkPlayers \subseteq Int /\ IsFiniteSet(WalkPlayers)
    /\ Formation \in [DOMAIN Formation -> Nat]
    /\ PlayerPosition \in [WalkPlayers -> DOMAIN Formation]
    /\ Goalkeeper \in DOMAIN Formation
    /\ LineupSize \in Nat \ {0} /\ RecentTactics \in Nat \ {0}
    /\ SquadWindow \in Nat /\ ProfileWindow \in Nat \ {0}
    /\ LineupLead \in Nat \ {0}
    /\ NoClub \notin WalkClubs

\* what the ingestion makes of the reason of a report, in quarters: whether
\* the player can be selected.  It never calls a player available, and a
\* player without a report counts as one whose status is unknown
AvailabilityProbability ==
    [suspended |-> 0, out |-> 0, doubtful |-> 2, unknown |-> 3]

ContextRow == [id : Int, kickoff : Int, home : WalkClubs, away : WalkClubs]
PlayerPerformance ==
    [id : Int, match : Int, club : WalkClubs, player : WalkPlayers,
     kickoff : Int, available : Int, started : BOOLEAN]
TransferObservation ==
    [id : Int, player : WalkPlayers, from : WalkClubs \cup {NoClub},
     to : WalkClubs \cup {NoClub}, date : Int, observed : Int]
AvailabilityObservation ==
    [match : Int, club : WalkClubs, player : WalkPlayers, observed : Int,
     status : DOMAIN AvailabilityProbability]
StyleObservation == [id : Int, club : WalkClubs, available : Int]

\* finitely many observations, named by their identifiers
Observations(set, type) ==
    /\ set \subseteq type /\ IsFiniteSet(set)
    /\ \A x, y \in set : x.id = y.id => x = y

\* the rows come from a validated export: in the order of their kickoffs
ASSUME ContextAssumption ==
    \A x \in Contexts :
        /\ x.rows \in Seq(ContextRow)
        /\ \A i, j \in DOMAIN x.rows : i < j => x.rows[i].kickoff <= x.rows[j].kickoff
        /\ Observations(x.performances, PlayerPerformance)
        /\ Observations(x.transfers, TransferObservation)
        /\ Observations(x.styles, StyleObservation)
        /\ x.availability \subseteq AvailabilityObservation /\ IsFiniteSet(x.availability)

VARIABLES
    pwContext,      \* the inputs
    pwPass,         \* "load", "player", "tactical", "done", "rejected", "raised"
    pwPos,          \* next row
    pwPerformance, pwTransfer,   \* next performance and next transfer
    pwHistory,      \* performances per club and player, as applied
    pwLatest,       \* the transfer in force per player, NoTransfer before one
    pwStyle, pwShape,            \* next style count and next shape
    pwPlayerRows, pwTacticalRows

playerWalkVars == <<pwContext, pwPass, pwPos, pwPerformance, pwTransfer,
    pwHistory, pwLatest, pwStyle, pwShape, pwPlayerRows, pwTacticalRows>>

NoTransfer == [player |-> "", from |-> NoClub, to |-> NoClub,
               date |-> 0, observed |-> 0]

-----------------------------------------------------------------------------
(* The inputs *)

\* in the order of their times, ties by identifier
Sooner(time, a, b) == time[a] < time[b] \/ (time[a] = time[b] /\ a.id < b.id)

ByTime(set, time) == InPlaces(set, [x \in set |-> {y \in set : Sooner(time, y, x)}])

Available(set) == [x \in set |-> x.available]
Observed(set) == [x \in set |-> x.observed]

Performances == ByTime(pwContext.performances, Available(pwContext.performances))
Transfers == ByTime(pwContext.transfers, Observed(pwContext.transfers))
Styles == ByTime(pwContext.styles, Available(pwContext.styles))

\* a shape is known once a whole lineup with starters is, at its last report;
\* a whole lineup has one goalkeeper, so the others play in the field
Starters(match, club) ==
    {p \in pwContext.performances : p.started /\ p.match = match /\ p.club = club}

WholeLineup(starters) ==
    /\ Cardinality(starters) = LineupSize
    /\ Cardinality({p \in starters : PlayerPosition[p.player] = Goalkeeper}) = 1

Shape(starters) ==
    LET last == CHOOSE p \in starters : \A q \in starters : q.available <= p.available
    IN  [id |-> last.id, match |-> last.match, club |-> last.club,
         available |-> last.available]

Shapes ==
    LET lineups == {Starters(p.match, p.club) : p \in pwContext.performances}
    IN  {Shape(starters) : starters \in {l \in lineups : WholeLineup(l)}}

ObservedShapes == ByTime(Shapes, Available(Shapes))

ContextRejected ==
    \/ \E p \in pwContext.performances : p.available < p.kickoff
    \/ \E p, q \in pwContext.performances :
         p # q /\ <<p.match, p.club, p.player>> = <<q.match, q.club, q.player>>
    \/ \E t \in pwContext.transfers : t.from = t.to
    \/ \E a, b \in pwContext.availability :
         /\ a # b
         /\ <<a.match, a.club, a.player, a.observed>>
              = <<b.match, b.club, b.player, b.observed>>

LoadPlayerContext ==
    /\ pwPass = "load"
    /\ pwPass' = IF ContextRejected THEN "rejected" ELSE "player"
    /\ UNCHANGED <<pwContext, pwPos, pwPerformance, pwTransfer, pwHistory,
                   pwLatest, pwStyle, pwShape, pwPlayerRows, pwTacticalRows>>

-----------------------------------------------------------------------------
(* The player pass *)

RowCutoff(row) == row.kickoff - LineupLead

\* where an index into a list stops: at the first time not before the cutoff
Advance(times, index, cutoff) ==
    LET open == {i \in index..Len(times) : times[i] >= cutoff}
    IN  IF open = {} THEN Len(times) + 1
        ELSE CHOOSE i \in open : \A j \in open : i <= j

AvailableTimes(list) == [i \in 1..Len(list) |-> list[i].available]
ObservedTimes(list) == [i \in 1..Len(list) |-> list[i].observed]

AppliedHistory(upTo) ==
    [c \in WalkClubs |-> [p \in WalkPlayers |->
        pwHistory[c][p] \o
          Picked(Performances, {i \in pwPerformance..(upTo - 1) :
                                  Performances[i].club = c /\ Performances[i].player = p})]]

\* the last one passed is in force; one dated after the cutoff is passed over
AppliedTransfers(upTo, cutoff) ==
    [p \in WalkPlayers |->
        LET passed == {i \in pwTransfer..(upTo - 1) :
                         Transfers[i].player = p /\ Transfers[i].date <= cutoff}
        IN  IF passed = {} THEN pwLatest[p]
            ELSE Transfers[CHOOSE i \in passed : \A j \in passed : j <= i]]

\* players seen for the club lately, less its departures, plus its arrivals
CandidateIds(club, kickoff, history, latest) ==
    LET recent == {p \in WalkPlayers :
                     /\ history[club][p] # <<>>
                     /\ Last(history[club][p]).kickoff >= kickoff - SquadWindow}
        left == {p \in WalkPlayers : latest[p].from = club /\ latest[p].to # club}
        joined == {p \in WalkPlayers : latest[p].to = club}
    IN  (recent \ left) \cup joined

\* a candidate without a performance anywhere has no profile
Profiles(club, kickoff, history, latest) ==
    {p \in CandidateIds(club, kickoff, history, latest) :
        \E c \in WalkClubs : history[c][p] # <<>>}

Reports(row, club, cutoff) ==
    {a \in pwContext.availability :
        a.match = row.id /\ a.club = club /\ a.observed < cutoff}

\* the last report on the player for this fixture before the cutoff
LatestReport(row, club, p, cutoff) ==
    LET reports == {a \in Reports(row, club, cutoff) : a.player = p}
    IN  IF reports = {} THEN "unknown"
        ELSE (CHOOSE a \in reports : \A b \in reports : b.observed <= a.observed).status

\* the last performances for the club, or else those for any club
ProfileHistory(club, p, history) ==
    LET all == UNION {ToSet(history[c][p]) : c \in WalkClubs}
    IN  LastOf(IF history[club][p] # <<>> THEN history[club][p]
               ELSE ByTime(all, Available(all)), ProfileWindow)

\* starting probability, weighed with availability or not
StartingScore(club, p, history) ==
    LET matches == ProfileHistory(club, p, history)
    IN  Cardinality({i \in 1..Len(matches) : matches[i].started})

SelectionScoreUnlessOut(row, club, p, history, cutoff) ==
    (IF LatestReport(row, club, p, cutoff) = "out" THEN 0 ELSE 4)
      * StartingScore(club, p, history)

SelectionScore(row, club, p, history, cutoff) ==
    AvailabilityProbability[LatestReport(row, club, p, cutoff)]
      * StartingScore(club, p, history)

\* ties go to the higher identity
Beats(score, p, q) == score[p] > score[q] \/ (score[p] = score[q] /\ p > q)

\* the n best of a set
Best(set, n, score) ==
    LET better == [p \in set |-> {q \in set : Beats(score, q, p)}]
    IN  {p \in set : Cardinality(better[p]) < n}

\* first the formation, position by position, then the best of the rest
SelectProfiles(profiles, score) ==
    LET placed == UNION {Best({p \in profiles : PlayerPosition[p] = position},
                              Formation[position], score)
                           : position \in DOMAIN Formation}
    IN  placed \cup Best(profiles \ placed, LineupSize - Cardinality(placed), score)

ExpectedLineup(row, club, history, latest, cutoff) ==
    SelectProfiles(Profiles(club, row.kickoff, history, latest),
                   [p \in WalkPlayers |-> SelectionScore(row, club, p, history, cutoff)])

PlayerTeam(row, club, history, latest, cutoff) ==
    [squad |-> Profiles(club, row.kickoff, history, latest),
     lineup |-> ExpectedLineup(row, club, history, latest, cutoff),
     status |-> [p \in WalkPlayers |-> LatestReport(row, club, p, cutoff)]]

\* everything the row used is older than its cutoff, or the build raises
InputTimes(row, upToP, latest, cutoff) ==
    {Performances[i].available : i \in 1..(upToP - 1)}
      \cup {latest[p].observed : p \in {q \in WalkPlayers : latest[q] # NoTransfer}}
      \cup {a.observed : a \in UNION {Reports(row, c, cutoff) : c \in {row.home, row.away}}}

PlayerRow ==
    /\ pwPass = "player" /\ pwPos <= Len(pwContext.rows)
    /\ LET row == pwContext.rows[pwPos]
           cutoff == RowCutoff(row)
           upToP == Advance(AvailableTimes(Performances), pwPerformance, cutoff)
           upToT == Advance(ObservedTimes(Transfers), pwTransfer, cutoff)
           history == AppliedHistory(upToP)
           latest == AppliedTransfers(upToT, cutoff)
           teams == [c \in {row.home, row.away} |->
                       PlayerTeam(row, c, history, latest, cutoff)]
       IN  /\ pwPerformance' = upToP
           /\ pwTransfer' = upToT
           /\ pwHistory' = history
           /\ pwLatest' = latest
           /\ IF \E t \in InputTimes(row, upToP, latest, cutoff) : t >= cutoff
              THEN pwPass' = "raised" /\ UNCHANGED <<pwPlayerRows, pwPos>>
              ELSE /\ pwPlayerRows' = Append(pwPlayerRows,
                                        [id |-> row.id, teams |-> teams])
                   /\ pwPos' = pwPos + 1
                   /\ UNCHANGED pwPass
    /\ UNCHANGED <<pwContext, pwStyle, pwShape, pwTacticalRows>>

StartTactics ==
    /\ pwPass = "player" /\ pwPos > Len(pwContext.rows)
    /\ pwPass' = "tactical"
    /\ pwPos' = 1
    /\ UNCHANGED <<pwContext, pwPerformance, pwTransfer, pwHistory, pwLatest,
                   pwStyle, pwShape, pwPlayerRows, pwTacticalRows>>

-----------------------------------------------------------------------------
(* The tactical pass *)

RecentOf(list, upTo, club) ==
    LastOf(Picked(list, {i \in 1..(upTo - 1) : list[i].club = club}), RecentTactics)

TacticalTeamOneIndex(club, upToStyle, upToShape) ==
    [styles |-> RecentOf(Styles, upToShape, club),
     shapes |-> RecentOf(ObservedShapes, upToShape, club)]

TacticalTeam(club, upToStyle, upToShape) ==
    [styles |-> RecentOf(Styles, upToStyle, club),
     shapes |-> RecentOf(ObservedShapes, upToShape, club)]

TacticalRow ==
    /\ pwPass = "tactical" /\ pwPos <= Len(pwContext.rows)
    /\ LET row == pwContext.rows[pwPos]
           cutoff == RowCutoff(row)
           upToStyle == Advance(AvailableTimes(Styles), pwStyle, cutoff)
           upToShape == Advance(AvailableTimes(ObservedShapes), pwShape, cutoff)
           teams == [c \in {row.home, row.away} |->
                       TacticalTeam(c, upToStyle, upToShape)]
           used == UNION {ToSet(teams[c].styles) \cup ToSet(teams[c].shapes)
                            : c \in DOMAIN teams}
       IN  /\ pwStyle' = upToStyle
           /\ pwShape' = upToShape
           /\ IF \E x \in used : x.available >= cutoff
              THEN pwPass' = "raised" /\ UNCHANGED <<pwTacticalRows, pwPos>>
              ELSE /\ pwTacticalRows' = Append(pwTacticalRows,
                                          [id |-> row.id, teams |-> teams])
                   /\ pwPos' = pwPos + 1
                   /\ UNCHANGED pwPass
    /\ UNCHANGED <<pwContext, pwPerformance, pwTransfer, pwHistory, pwLatest,
                   pwPlayerRows>>

FinishTactics ==
    /\ pwPass = "tactical" /\ pwPos > Len(pwContext.rows)
    /\ pwPass' = "done"
    /\ UNCHANGED <<pwContext, pwPos, pwPerformance, pwTransfer, pwHistory,
                   pwLatest, pwStyle, pwShape, pwPlayerRows, pwTacticalRows>>

-----------------------------------------------------------------------------

PlayerWalkStart ==
    /\ pwPass = "load"
    /\ pwPos = 1
    /\ pwPerformance = 1 /\ pwTransfer = 1
    /\ pwHistory = [c \in WalkClubs |-> [p \in WalkPlayers |-> <<>>]]
    /\ pwLatest = [p \in WalkPlayers |-> NoTransfer]
    /\ pwStyle = 1 /\ pwShape = 1
    /\ pwPlayerRows = <<>> /\ pwTacticalRows = <<>>

PlayerWalkInit ==
    /\ pwContext \in Contexts
    /\ PlayerWalkStart

PlayerWalkNext ==
    \/ LoadPlayerContext
    \/ PlayerRow
    \/ StartTactics
    \/ TacticalRow
    \/ FinishTactics

PlayerWalkSpec == PlayerWalkInit /\ [][PlayerWalkNext]_playerWalkVars

-----------------------------------------------------------------------------
(* Properties *)

\* what is known of a player for a club by the cutoff of a row
SeenFor(row, club, player) ==
    {x \in pwContext.performances :
        x.club = club /\ x.player = player /\ x.available < RowCutoff(row)}

\* the last of it is recent
SeenLately(row, club, player) ==
    \E x \in SeenFor(row, club, player) :
        /\ \A y \in SeenFor(row, club, player) :
             y.available < x.available \/ (y.available = x.available /\ y.id <= x.id)
        /\ x.kickoff >= row.kickoff - SquadWindow

\* one of the last performances was a start
StartedLately(row, club, player) ==
    LET seen == SeenFor(row, club, player)
        later == [x \in seen |-> {y \in seen : Sooner(Available(seen), x, y)}]
    IN  \E x \in seen : x.started /\ Cardinality(later[x]) < ProfileWindow

\* a player without transfers is in the squad of a club exactly when it was seen
\* playing him last, and lately
SquadObserved(row, teams) ==
    \A c \in {row.home, row.away}, p \in WalkPlayers :
        (\A t \in pwContext.transfers : t.player # p)
          => (p \in teams[c].squad <=> SeenLately(row, c, p))

\* the style counts of a club are its last ones, as many as are wanted
StylesObserved(row, teams) ==
    \A c \in {row.home, row.away} :
        LET seen == {x \in pwContext.styles : x.club = c /\ x.available < RowCutoff(row)}
            used == ToSet(teams[c].styles)
        IN  /\ used \subseteq seen
            /\ \A x \in seen \ used : \A y \in used : x.available <= y.available
            /\ seen # used => Cardinality(used) = RecentTactics

\* Both passes see every observation made before the cutoff of the row and
\* none made later, and the check that would abort the build never does: the
\* indices of one pass and of two clubs stay in step with the cutoffs.
RowsUseTheObservedPast ==
    /\ pwPass # "raised"
    /\ \A k \in DOMAIN pwPlayerRows : SquadObserved(pwContext.rows[k], pwPlayerRows[k].teams)
    /\ \A k \in DOMAIN pwTacticalRows : StylesObserved(pwContext.rows[k], pwTacticalRows[k].teams)

Absent(status) == status \in {"out", "suspended"}

\* what a row may tell of the players it reports absent
AbsentOnlyInTheirPosition(row, teams) ==
    \A c \in DOMAIN teams :
        LET team == teams[c]
        IN  \A p \in team.lineup, q \in team.squad \ team.lineup :
              (Absent(team.status[p]) /\ ~Absent(team.status[q]) /\ StartedLately(row, c, q))
                => /\ PlayerPosition[p] # PlayerPosition[q]
                   /\ Cardinality({x \in team.lineup :
                          PlayerPosition[x] = PlayerPosition[p]})
                        <= Formation[PlayerPosition[p]]

\* A player reported out or suspended starts only where his own position has
\* nobody else who could be selected, be he doubtful, and started one of his
\* last matches for the club, and never fills a place at large that such a
\* player could have.
AbsenceRespected ==
    \A k \in DOMAIN pwPlayerRows :
        AbsentOnlyInTheirPosition(pwContext.rows[k], pwPlayerRows[k].teams)

\* A departure that is known and has taken effect by the cutoff of a row
\* removes the player from the squad he left.
KnownDepartureRemoved ==
    \A k \in DOMAIN pwPlayerRows : \A t \in pwContext.transfers :
        LET row == pwContext.rows[k]
            cutoff == RowCutoff(row)
        IN  /\ t.observed < cutoff /\ t.date <= cutoff
            /\ \A u \in pwContext.transfers : u.player = t.player => u = t
            => (t.from \in {row.home, row.away}
                  => t.player \notin pwPlayerRows[k].teams[t.from].squad)

=============================================================================

----------------------------- MODULE FixtureIdentity -----------------------------
(***************************************************************************)
(* Fixture synchronization: the pages of the provider's feed are collected *)
(* one request at a time, while the feed may change, and only a complete   *)
(* walk is ingested, in one transaction.  The ingestion collapses mirror   *)
(* rows, resolves clubs and matches by reference or by identity, and       *)
(* queues what is ambiguous for review.                                    *)
(*                                                                         *)
(* What a schedule change does to the simulations, results and revisions   *)
(* of a match is in FixtureLifecycle; here revisions are counted.          *)
(***************************************************************************)
EXTENDS Integers, Sequences, FiniteSets, SequencesExt, Places

CONSTANTS
    Feeds,         \* what the provider may publish: sequences of rows
    KnownClubs,    \* club tables the installation may start with
    TeamName,      \* provider team id -> name
    ClubIdentity,  \* name -> normalized identity
    PageSize, MaxPages,
    Tolerance,     \* 48 hours, in the model's unit of time (a day)
    MaxChanges,    \* bound: changes of the feed
    MaxSyncs       \* bound: synchronizations

ASSUME IdentityAssumption ==
    /\ PageSize \in Nat \ {0} /\ MaxPages \in Nat \ {0}
    /\ Tolerance \in Nat /\ MaxChanges \in Nat /\ MaxSyncs \in Nat

VARIABLES
    fiFeed,      \* the rows the provider publishes
    fiFeeds,     \* every row it has published so far
    fiWalk,      \* the walk over the pages
    fiDb,        \* clubs, matches, their references and review cases
    fiIngested,  \* the row sets of the last two ingestions
    fiSyncs, fiChanges

identityVars == <<fiFeed, fiFeeds, fiWalk, fiDb, fiIngested, fiSyncs, fiChanges>>

NoWalk == [step |-> "idle", rows |-> <<>>, cursor |-> 0, seen |-> {}, pages |-> 0]

-----------------------------------------------------------------------------
(* Which row of the feed stands for a fixture *)

IdentityOf(team) == ClubIdentity[TeamName[team]]

ProviderRow ==
    [id : Int, round : Int, home : DOMAIN TeamName, away : DOMAIN TeamName,
     date : Int, mirror : BOOLEAN, status : STRING,
     scored : BOOLEAN,      \* both scores are there
     known : BOOLEAN]       \* the provider gives a status

\* a fixture by the clubs that play it
Fixture(row) == <<IdentityOf(row.home), IdentityOf(row.away)>>

\* The provider gives a fixture many identifiers, but an identifier to one fixture.
ASSUME FeedsAssumption ==
    /\ Feeds \subseteq Seq(ProviderRow)
    /\ \A feed, other \in Feeds : \A r \in ToSet(feed), s \in ToSet(other) :
         r.id = s.id => Fixture(r) = Fixture(s)

\* Clubs that only differ in their spelling are an accident of the table: the
\* provider names no team by exactly one of these spellings.
ASSUME ClubsAssumption ==
    /\ \A team \in DOMAIN TeamName : TeamName[team] \in DOMAIN ClubIdentity
    /\ \A clubs \in KnownClubs :
         /\ clubs \in Seq(DOMAIN ClubIdentity)
         /\ \A c, d \in DOMAIN clubs :
              c # d /\ ClubIdentity[clubs[c]] = ClubIdentity[clubs[d]] =>
                \A team \in DOMAIN TeamName : TeamName[team] # clubs[c]

ProviderFixtureIdentity(row) == <<row.round, IdentityOf(row.home), IdentityOf(row.away)>>

\* a final score before any score before a status
Completeness(row) ==
    CASE row.scored /\ row.status \in {"finished", "awarded"} -> IF row.known THEN 5 ELSE 4
      [] row.scored -> IF row.known THEN 3 ELSE 2
      [] OTHER      -> IF row.known THEN 1 ELSE 0

\* the order of the rank tuples: a row of the canonical feed before a mirror,
\* then the more complete one, the earlier kickoff and the higher identifier
Outranks(a, b) ==
    \/ b.mirror /\ ~a.mirror
    \/ /\ a.mirror = b.mirror
       /\ \/ Completeness(a) > Completeness(b)
          \/ /\ Completeness(a) = Completeness(b)
             /\ \/ a.date < b.date
                \/ a.date = b.date /\ a.id >= b.id

\* the positions of the rows of one identity, and of those of the highest rank
Aliases(rows, i) ==
    {j \in DOMAIN rows : ProviderFixtureIdentity(rows[j]) = ProviderFixtureIdentity(rows[i])}
Highest(rows, i) ==
    {j \in Aliases(rows, i) : \A k \in Aliases(rows, i) : Outranks(rows[j], rows[k])}

\* one row per identity, the first of the highest rank, in the order in which
\* the identities appear
SelectCanonical(rows) ==
    LET first == {i \in DOMAIN rows : \A j \in Aliases(rows, i) : i <= j}
        Best(i) == CHOOSE j \in Highest(rows, i) : \A k \in Highest(rows, i) : j <= k
    IN  Picked([i \in DOMAIN rows |-> rows[Best(i)]], first)

-----------------------------------------------------------------------------
(* Clubs *)

ClubOf(db, team) ==
    IF \E ref \in db.clubRefs : ref.id = team
    THEN (CHOOSE ref \in db.clubRefs : ref.id = team).club ELSE 0

ClubCandidates(db, team) ==
    LET exact == {c \in DOMAIN db.clubs : db.clubs[c] = TeamName[team]}
    IN  IF exact # {} THEN exact
        ELSE {c \in DOMAIN db.clubs : ClubIdentity[db.clubs[c]] = IdentityOf(team)}

\* one pending case per entity, whatever is found again
QueueReview(db, type, id) == [db EXCEPT !.reviews = @ \cup {<<type, id>>}]

ResolveClub(db, team) ==
    LET found == ClubCandidates(db, team)
        Refer(d, c) == [d EXCEPT !.clubRefs = @ \cup {[id |-> team, club |-> c]}]
    IN  IF ClubOf(db, team) # 0 THEN db
        ELSE IF Cardinality(found) > 1 THEN QueueReview(db, "club", team)
        ELSE IF found # {} THEN Refer(db, CHOOSE c \in found : TRUE)
        ELSE Refer([db EXCEPT !.clubs = Append(@, TeamName[team])], Len(db.clubs) + 1)

-----------------------------------------------------------------------------
(* Matches *)

Within(date, kickoff, tolerance) ==
    date - tolerance <= kickoff /\ kickoff <= date + tolerance

\* a row is the match it is scheduled for
ExactCandidates(db, row) ==
    {m \in DOMAIN db.matches :
        /\ db.matches[m].home = ClubOf(db, row.home)
        /\ db.matches[m].away = ClubOf(db, row.away)
        /\ db.matches[m].kickoff = row.date}

MatchCandidates(db, row) ==
    {m \in DOMAIN db.matches :
        /\ db.matches[m].home = ClubOf(db, row.home)
        /\ db.matches[m].away = ClubOf(db, row.away)
        /\ Within(row.date, db.matches[m].kickoff, Tolerance)}

ReferMatch(db, row, m) == [db EXCEPT !.refs = @ \cup {[id |-> row.id, match |-> m]}]

\* an unknown identifier: the match of these clubs around this date, or a new
\* one; an existing match keeps its kickoff and status until the next time
MatchByIdentity(db, row) ==
    LET found == MatchCandidates(db, row)
        new == [home |-> ClubOf(db, row.home), away |-> ClubOf(db, row.away),
                kickoff |-> row.date, status |-> row.status, revisions |-> 1]
    IN  IF Cardinality(found) > 1 THEN QueueReview(db, "match", row.id)
        ELSE IF found # {} THEN ReferMatch(db, row, CHOOSE m \in found : TRUE)
        ELSE ReferMatch([db EXCEPT !.matches = Append(@, new)], row,
                        Len(db.matches) + 1)

\* postponed and cancelled matches keep their date and are rescheduled by a
\* later row; each of these is a new schedule revision, a change of the status
\* alone is not
UpdateMatch(match, row) ==
    IF row.status = match.status
       /\ (row.status \in {"postponed", "cancelled"} \/ row.date = match.kickoff)
    THEN match
    ELSE IF row.status \in {"postponed", "cancelled"}
    THEN [match EXCEPT !.status = row.status, !.revisions = @ + 1]
    ELSE IF row.date # match.kickoff
    THEN [match EXCEPT !.kickoff = row.date, !.status = row.status,
                       !.revisions = @ + 1]
    ELSE [match EXCEPT !.status = row.status]

IngestFixture(db, row) ==
    LET resolved == ResolveClub(ResolveClub(db, row.home), row.away)
        known == {ref \in db.refs : ref.id = row.id}
    IN  IF ClubOf(resolved, row.home) = 0 \/ ClubOf(resolved, row.away) = 0
        THEN resolved
        ELSE IF known = {} THEN MatchByIdentity(resolved, row)
        ELSE LET m == (CHOOSE ref \in known : TRUE).match
             IN  [resolved EXCEPT !.matches[m] = UpdateMatch(@, row)]

IngestAll(db, rows) == FoldLeft(IngestFixture, db, rows)
Ingest(db, rows) == FoldLeft(IngestFixture, db, SelectCanonical(rows))

-----------------------------------------------------------------------------
(* The walk over the pages *)

BeginWalk ==
    /\ fiWalk.step = "idle"
    /\ fiSyncs < MaxSyncs
    /\ fiSyncs' = fiSyncs + 1
    /\ fiWalk' = [NoWalk EXCEPT !.step = "fetch"]
    /\ UNCHANGED <<fiFeed, fiFeeds, fiDb, fiIngested, fiChanges>>

\* one request; the cursor that follows is the provider's, which may repeat
\* one it has given before.  A walk that is refused a request, meets a cursor
\* again or reaches the page limit has collected its rows for nothing.
FetchPage(following) ==
    /\ fiWalk.step = "fetch"
    /\ LET from == fiWalk.cursor
           to == IF from + PageSize < Len(fiFeed) THEN from + PageSize ELSE Len(fiFeed)
           last == following = 0
           failed == \/ ~last /\ following \in fiWalk.seen
                     \/ ~last /\ fiWalk.pages + 1 = MaxPages
       IN  /\ IF to = Len(fiFeed) THEN following = 0
              ELSE following = to \/ following \in fiWalk.seen
           /\ fiWalk' = IF failed THEN NoWalk
                        ELSE [step |-> IF last THEN "ingest" ELSE "fetch",
                              rows |-> fiWalk.rows \o SubSeq(fiFeed, from + 1, to),
                              cursor |-> following, seen |-> fiWalk.seen \cup {following},
                              pages |-> fiWalk.pages + 1]
    /\ UNCHANGED <<fiFeed, fiFeeds, fiDb, fiIngested, fiSyncs, fiChanges>>

RequestRefused ==
    /\ fiWalk.step = "fetch"
    /\ fiWalk' = NoWalk
    /\ UNCHANGED <<fiFeed, fiFeeds, fiDb, fiIngested, fiSyncs, fiChanges>>

IngestFixtures ==
    /\ fiWalk.step = "ingest"
    /\ fiDb' = Ingest(fiDb, fiWalk.rows)
    /\ fiIngested' = <<fiIngested[2], ToSet(fiWalk.rows)>>
    /\ fiWalk' = NoWalk
    /\ UNCHANGED <<fiFeed, fiFeeds, fiSyncs, fiChanges>>

\* the provider changes its feed, also between two pages of a walk
FeedChanges ==
    /\ fiChanges < MaxChanges /\ fiChanges' = fiChanges + 1
    /\ fiFeed' \in Feeds \ {fiFeed}
    /\ fiFeeds' = fiFeeds \cup ToSet(fiFeed')
    /\ UNCHANGED <<fiWalk, fiDb, fiIngested, fiSyncs>>

EmptyDatabase(clubs) ==
    [clubs |-> clubs, clubRefs |-> {}, matches |-> <<>>, refs |-> {}, reviews |-> {}]

FixtureIdentityStart ==
    /\ fiWalk = NoWalk
    /\ fiFeeds = ToSet(fiFeed)
    /\ fiIngested = <<{}, {}>>
    /\ fiSyncs = 0 /\ fiChanges = 0

FixtureIdentityInit ==
    /\ fiFeed \in Feeds
    /\ \E clubs \in KnownClubs : fiDb = EmptyDatabase(clubs)
    /\ FixtureIdentityStart

FixtureIdentityNext ==
    \/ BeginWalk
    \/ \E following \in 0..Len(fiFeed) : FetchPage(following)
    \/ RequestRefused
    \/ IngestFixtures
    \/ FeedChanges

FixtureIdentitySpec == FixtureIdentityInit /\ [][FixtureIdentityNext]_identityVars

-----------------------------------------------------------------------------
(* Properties *)

\* the provider gives one round to all rows of a fixture
OneRound(rows) == \A r, s \in rows : Fixture(r) = Fixture(s) => r.round = s.round

\* and no two rows of a fixture have the same rank
Untied(rows) ==
    \A r, s \in rows :
        Fixture(r) = Fixture(s) /\ Outranks(r, s) /\ Outranks(s, r) => r = s

MatchesOf(fixture) ==
    {m \in DOMAIN fiDb.matches :
        /\ ClubIdentity[fiDb.clubs[fiDb.matches[m].home]] = fixture[1]
        /\ ClubIdentity[fiDb.clubs[fiDb.matches[m].away]] = fixture[2]}

\* A fixture whose rows, over all the time, share an identifier or lie within
\* the tolerance of each other is one match, whichever of its rows were seen
\* in which walk; and nothing of it is stored while a club is under review.
OneMatchPerFixture ==
    \A r \in fiFeeds :
        LET rows == {s \in fiFeeds : Fixture(s) = Fixture(r)}
        IN  /\ (\A s, t \in rows : s.id = t.id \/ Within(s.date, t.date, Tolerance))
                 => Cardinality(MatchesOf(Fixture(r))) <= 1
            /\ \A team \in {r.home, r.away} : <<"club", team>> \in fiDb.reviews
                 => \A s \in rows : s.id \notin {ref.id : ref \in fiDb.refs}

\* Rows that were ingested twice have settled: the match of every fixture has
\* the kickoff and the status of the row that stands for it, in whatever order
\* and on whatever pages the rows arrive, and a third ingestion changes nothing.
FeedSettles ==
    LET rows == fiIngested[2]
    IN  (rows # {} /\ fiIngested[1] = rows /\ OneRound(rows) /\ Untied(rows)) =>
        /\ \A r \in rows, ref \in fiDb.refs :
             LET group == {s \in rows : Fixture(s) = Fixture(r)}
             IN  (ref.id = r.id /\ \A s \in group : Outranks(r, s)) =>
                   /\ r.status = fiDb.matches[ref.match].status
                   /\ \/ r.status \in {"postponed", "cancelled"}
                      \/ r.date = fiDb.matches[ref.match].kickoff
        /\ Ingest(fiDb, SetToSeq(rows)) = fiDb

=============================================================================

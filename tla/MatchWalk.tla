------------------------------ MODULE MatchWalk ------------------------------
(***************************************************************************)
(* The chronological walks of the modelling package: the Elo and the goal  *)
(* training each walk the historical dataset to tune on the validation     *)
(* season and again to score the test seasons, and the feature pipeline    *)
(* walks it with both models and a 24-hour lead.  Every walk predicts a    *)
(* match before it may learn from it, and learns from a result only when   *)
(* it was available before the cutoff of the match at hand.                *)
(*                                                                         *)
(* Ratings and strengths are functions of what a model absorbed and in     *)
(* which order, so a model is that log: <<"result", match>> where a result *)
(* was absorbed, <<"carry", season>> where a new season regressed it.      *)
(***************************************************************************)
EXTENDS Integers, Sequences, SequencesExt, Places

CONSTANTS
    Files,            \* candidate exports: sequences of match records
    Clubs,
    RequiredSeasons,  \* 6: three history, one validation, two test seasons
    PredictionLead,   \* 24 hours, in the model's unit of time (a day)
    FormWindow        \* results of a club's recent form (5)

Record == [id : Int, season : Nat \ {0}, kickoff : Int, available : Int,
           home : Clubs, away : Clubs]

ASSUME WalkAssumption ==
    /\ Files \subseteq Seq(Record)
    /\ RequiredSeasons \in Nat /\ RequiredSeasons > 2
    /\ PredictionLead \in Nat \ {0}
    /\ FormWindow \in Nat \ {0}

VARIABLES
    mwFile,      \* the export on disk
    mwPass,      \* "load", a walk, "done" or "rejected"
    mwPos,       \* next record of the walk
    mwPending,   \* heap of completed results not yet available
    mwSeason,    \* the season the walk is in, 0 before its first record
    mwKnown,     \* what each of the two models absorbed, in order
    mwHistory,   \* result observations per club, by kickoff
    mwSchedule,  \* earlier fixtures per club
    mwRows,      \* the rows (predictions, features) of each walk
    mwConfig,    \* results the configurations and baselines depend on
    mwFinal      \* what each trained model had absorbed at the end

matchWalkVars == <<mwFile, mwPass, mwPos, mwPending, mwSeason, mwKnown,
                   mwHistory, mwSchedule, mwRows, mwConfig, mwFinal>>

Walks == {"elo tune", "elo test", "goals tune", "goals test", "features"}
ModelsOf(walk) == CASE walk \in {"elo tune", "elo test"} -> {"elo"}
                    [] walk \in {"goals tune", "goals test"} -> {"goals"}
                    [] OTHER -> {"elo", "goals"}

-----------------------------------------------------------------------------
(* The dataset contract *)

RecordInvalid(r) == r.available <= r.kickoff \/ r.home = r.away

Earlier(a, b) ==
    \/ a.kickoff < b.kickoff
    \/ a.kickoff = b.kickoff /\ a.id <= b.id

SeasonReopened(file) ==
    \E i, j, k \in DOMAIN file :
        /\ i < j /\ j < k
        /\ file[i].season = file[k].season
        /\ file[i].season # file[j].season

FileRejected(file) ==
    \/ file = <<>>
    \/ \E i \in DOMAIN file : RecordInvalid(file[i])
    \/ \E i, j \in DOMAIN file : i # j /\ file[i].id = file[j].id
    \/ \E i, j \in DOMAIN file : i < j /\ ~Earlier(file[i], file[j])
    \/ SeasonReopened(file)

\* the seasons of the dataset in the order of their first record
SeasonsOf(file) ==
    FoldLeft(LAMBDA seen, r : IF Contains(seen, r.season) THEN seen
                              ELSE Append(seen, r.season), <<>>, file)

ThroughSeason(file, season) ==
    LET seasons == SeasonsOf(file)
        last == CHOOSE i \in DOMAIN seasons : seasons[i] = season
        allowed == {seasons[i] : i \in 1..last}
    IN  FoldLeft(LAMBDA kept, r : IF r.season \in allowed THEN Append(kept, r) ELSE kept,
                 <<>>, file)

StandardSplit(file) ==
    LET seasons == SeasonsOf(file)
    IN  [validation |-> seasons[RequiredSeasons - 2],
         test |-> {seasons[RequiredSeasons - 1], seasons[RequiredSeasons]}]

TestRecords == {i \in DOMAIN mwFile : mwFile[i].season \in StandardSplit(mwFile).test}

PriorToTheEnd ==
    LET n == Len(mwFile)
    IN  {mwFile[i].id : i \in {j \in 1..n : mwFile[j].available < mwFile[n].kickoff}}

\* records whose result was public before the first match of the test seasons
PriorRecords ==
    LET firstTest == mwFile[CHOOSE i \in TestRecords :
                              \A j \in TestRecords : i <= j].kickoff
    IN  {mwFile[i].id : i \in {j \in DOMAIN mwFile : mwFile[j].available < firstTest}}

-----------------------------------------------------------------------------
(* One walk *)

TuneData == ThroughSeason(mwFile, StandardSplit(mwFile).validation)

WalkRecords == IF mwPass \in {"elo tune", "goals tune"} THEN TuneData ELSE mwFile

FeatureCutoff(kickoff) == kickoff - PredictionLead

WalkCutoff(r) ==
    IF mwPass = "features" THEN FeatureCutoff(r.kickoff) ELSE r.kickoff

HeapOrder(a, b) ==
    \/ a.available < b.available
    \/ a.available = b.available /\ a.id < b.id

\* the order in which a heap gives its results
Popped(results) ==
    InPlaces(results, [r \in results |-> {s \in results : HeapOrder(s, r)}])

PopUpTo(cutoff) == Popped({r \in mwPending : r.available <= cutoff})

\* apply_available: pop the heap while its first result is strictly older
PopAvailable(cutoff) == Popped({r \in mwPending : r.available < cutoff})

\* one result changes the ratings (the strengths) of both clubs by an error
\* computed from what they were before it
EloUpdate(known, r) == [known EXCEPT !.elo = Append(@, <<"result", r.id>>)]
GoalUpdate(known, r) == [known EXCEPT !.goals = Append(@, <<"result", r.id>>)]

\* a new season regresses what is known; nothing to carry before the first
EloBeginSeason(known, season) ==
    IF mwSeason = 0 \/ season = mwSeason THEN known
    ELSE [known EXCEPT !.elo = Append(@, <<"carry", season>>)]
GoalBeginSeason(known, season) ==
    IF mwSeason = 0 \/ season = mwSeason THEN known
    ELSE [known EXCEPT !.goals = Append(@, <<"carry", season>>)]

Absorb(known, popped) ==
    LET elo(k, r) == IF "elo" \in ModelsOf(mwPass) THEN EloUpdate(k, r) ELSE k
        goals(k, r) == IF "goals" \in ModelsOf(mwPass) THEN GoalUpdate(k, r) ELSE k
    IN  FoldLeft(LAMBDA k, r : goals(elo(k, r), r), known, popped)

BeginSeason(known, season) ==
    LET elo == IF "elo" \in ModelsOf(mwPass) THEN EloBeginSeason(known, season)
               ELSE known
    IN  IF "goals" \in ModelsOf(mwPass) THEN GoalBeginSeason(elo, season) ELSE elo

ResultObservation(r) == [id |-> r.id, kickoff |-> r.kickoff,
                         available |-> r.available]

HistoryOrder(a, b) ==
    \/ a.kickoff < b.kickoff
    \/ a.kickoff = b.kickoff /\ HeapOrder(a, b)

ByKickoff(observations) ==
    InPlaces(observations,
             [o \in observations |-> {p \in observations : HistoryOrder(p, o)}])

AppendUnsorted(club, popped) ==
    mwHistory[club] \o
      [i \in DOMAIN SelectSeq(popped, LAMBDA r : club \in {r.home, r.away}) |->
         ResultObservation(SelectSeq(popped, LAMBDA r : club \in {r.home, r.away})[i])]

\* append the popped results of a club and sort its history by kickoff
AppendHistory(club, popped) ==
    LET new == {ResultObservation(popped[i]) :
                  i \in {j \in DOMAIN popped :
                           club \in {popped[j].home, popped[j].away}}}
    IN  ByKickoff(ToSet(mwHistory[club]) \cup new)

\* the last results of the club and the fixtures it played before the cutoff
TeamFeatures(club, history, cutoff) ==
    [form |-> LastOf(history[club], FormWindow),
     played |-> {s \in mwSchedule[club] : s.kickoff < cutoff}]

WalkRow(r, known, history) ==
    LET cutoff == WalkCutoff(r)
    IN  [id |-> r.id, season |-> r.season, cutoff |-> cutoff, known |-> known,
         teams |-> [c \in IF mwPass = "features" THEN {r.home, r.away} ELSE {} |->
                      TeamFeatures(c, history, cutoff)]]

\* the body of the loop over the records
WalkStep ==
    /\ mwPos <= Len(WalkRecords)
    /\ LET r == WalkRecords[mwPos]
           popped == PopAvailable(WalkCutoff(r))
           known == BeginSeason(Absorb(mwKnown, popped), r.season)
           history == [c \in Clubs |-> IF mwPass = "features"
                                       THEN AppendHistory(c, popped) ELSE <<>>]
       IN  /\ mwPending' = (mwPending \ ToSet(popped)) \cup {r}
           /\ mwKnown' = known
           /\ mwSeason' = r.season
           /\ mwHistory' = history
           /\ mwSchedule' = [c \in Clubs |->
                IF mwPass = "features" /\ c \in {r.home, r.away}
                THEN mwSchedule[c] \cup {[id |-> r.id, kickoff |-> r.kickoff]}
                ELSE mwSchedule[c]]
           /\ mwRows' = [mwRows EXCEPT
                           ![mwPass] = Append(@, WalkRow(r, known, history))]
    /\ mwPos' = mwPos + 1
    /\ UNCHANGED <<mwFile, mwPass, mwConfig, mwFinal>>

WalkForward == mwPass \in {"elo tune", "elo test"} /\ WalkStep
WalkForwardGoals == mwPass \in {"goals tune", "goals test"} /\ WalkStep
BuildPrematchFeatures == mwPass = "features" /\ WalkStep

NothingKnown == [elo |-> <<>>, goals |-> <<>>]

\* a fresh model, heap and history for the next walk
FreshWalk ==
    /\ mwPos' = 1
    /\ mwPending' = {}
    /\ mwSeason' = 0
    /\ mwKnown' = NothingKnown
    /\ mwHistory' = [c \in Clubs |-> <<>>]
    /\ mwSchedule' = [c \in Clubs |-> {}]

-----------------------------------------------------------------------------
(* The programs *)

MatchWalkStart ==
    /\ mwPass = "load"
    /\ mwPos = 1
    /\ mwPending = {}
    /\ mwSeason = 0
    /\ mwKnown = NothingKnown
    /\ mwHistory = [c \in Clubs |-> <<>>]
    /\ mwSchedule = [c \in Clubs |-> {}]
    /\ mwRows = [w \in Walks |-> <<>>]
    /\ mwConfig = {}
    /\ mwFinal = NothingKnown

MatchWalkInit ==
    /\ mwFile \in Files
    /\ MatchWalkStart

LoadHistoricalDataset ==
    /\ mwPass = "load"
    /\ mwPass' = IF FileRejected(mwFile) THEN "rejected"
                 ELSE IF Len(SeasonsOf(mwFile)) = RequiredSeasons THEN "elo tune"
                 ELSE "features"
    /\ FreshWalk
    /\ UNCHANGED <<mwFile, mwRows, mwConfig, mwFinal>>

\* what the score of a season depends on: the results its predictions knew
\* and those they are compared with
Scored(walk, season) ==
    LET rows == {row \in ToSet(mwRows[walk]) : row.season = season}
    IN  {row.id : row \in rows}
          \cup UNION {{x[2] : x \in {k \in ToSet(row.known[m]) : k[1] = "result"}} :
                        row \in rows, m \in ModelsOf(walk)}

\* the configuration with the best loss on the validation season
Tune(walk, next) ==
    /\ mwPass = walk /\ mwPos > Len(WalkRecords)
    /\ mwConfig' = mwConfig \cup Scored(walk, StandardSplit(mwFile).validation)
    /\ mwPass' = next
    /\ FreshWalk
    /\ UNCHANGED <<mwFile, mwRows, mwFinal>>

TuneElo == Tune("elo tune", "elo test")
TuneGoalModel == Tune("goals tune", "goals test")

\* the trained model absorbs what is still pending; the fixed baselines
\* (empirical frequencies, league averages) are those of the prior records
Train(walk, next) ==
    /\ mwPass = walk /\ mwPos > Len(WalkRecords)
    /\ LET rest == Absorb(mwKnown, Popped(mwPending))
       IN  mwFinal' = [m \in {"elo", "goals"} |->
                         IF m \in ModelsOf(walk) THEN rest[m] ELSE mwFinal[m]]
    /\ mwConfig' = mwConfig \cup PriorRecords
    /\ mwPass' = next
    /\ FreshWalk
    /\ UNCHANGED <<mwFile, mwRows>>

TrainBaseline == Train("elo test", "goals tune")
TrainGoalModel == Train("goals test", "features")

FinishFeatures ==
    /\ mwPass = "features" /\ mwPos > Len(WalkRecords)
    /\ mwPass' = "done"
    /\ UNCHANGED <<mwFile, mwPos, mwPending, mwSeason, mwKnown, mwHistory,
                   mwSchedule, mwRows, mwConfig, mwFinal>>

MatchWalkNext ==
    \/ LoadHistoricalDataset
    \/ WalkForward \/ WalkForwardGoals \/ BuildPrematchFeatures
    \/ TuneElo \/ TuneGoalModel
    \/ TrainBaseline \/ TrainGoalModel
    \/ FinishFeatures

MatchWalkSpec == MatchWalkInit /\ [][MatchWalkNext]_matchWalkVars

-----------------------------------------------------------------------------
(* Properties *)

ResultsIn(known) == {i \in DOMAIN known : known[i][1] = "result"}

RecordOf(file, id) == CHOOSE r \in ToSet(file) : r.id = id

\* what was absorbed: the results of these records, each of them once, in the
\* order in which they became public
AbsorbedInOrder(file, known, records) ==
    /\ {known[i][2] : i \in ResultsIn(known)} = {r.id : r \in records}
    /\ \A i, j \in ResultsIn(known) : i < j =>
           HeapOrder(RecordOf(file, known[i][2]), RecordOf(file, known[j][2]))

\* Each row knows exactly the results that were public before its cutoff (in
\* the feature walk a day before kickoff), absorbed in the order in which
\* they became public: a late result is neither used early nor lost.  What
\* a training leaves behind has absorbed every result once.
RowKnowsExactlyThePast ==
    /\ \A w \in Walks : \A row \in ToSet(mwRows[w]) : \A m \in ModelsOf(w) :
         AbsorbedInOrder(mwFile, row.known[m],
                         {r \in ToSet(mwFile) : r.available < row.cutoff})
    /\ \A m \in {"elo", "goals"} : mwFinal[m] # <<>> =>
         AbsorbedInOrder(mwFile, mwFinal[m], ToSet(mwFile))

\* The form of a club is its most recent known matches by kickoff, whatever
\* the order in which their results were published, and its rest and
\* congestion count every fixture it played before the cutoff.
FormIsMostRecent ==
    \A row \in ToSet(mwRows["features"]) : \A c \in DOMAIN row.teams :
        LET form == row.teams[c].form
            known == {r \in ToSet(mwFile) : r.available < row.cutoff
                                            /\ c \in {r.home, r.away}}
            inForm == {form[i].id : i \in DOMAIN form}
        IN  /\ {p.id : p \in row.teams[c].played} =
                 {r.id : r \in {x \in ToSet(mwFile) : x.kickoff < row.cutoff
                                          /\ c \in {x.home, x.away}}}
            /\ \A i, j \in DOMAIN form :
                   i < j => form[i].kickoff <= form[j].kickoff
            /\ \A r \in known : r.id \notin inForm =>
                   /\ Len(form) = FormWindow
                   /\ \A i \in DOMAIN form : r.kickoff <= form[i].kickoff

\* Nothing that selects a configuration or a baseline depends on a match of
\* the untouched test seasons, and the holdout walk predicts a validation
\* match from the same knowledge as the tuning walk did.
TestSeasonsUntouched ==
    /\ mwConfig # {} => mwConfig \cap {mwFile[i].id : i \in TestRecords} = {}
    /\ \A a \in ToSet(mwRows["elo tune"]), b \in ToSet(mwRows["elo test"]) :
           a.id = b.id => a.known = b.known
    /\ \A a \in ToSet(mwRows["goals tune"]), b \in ToSet(mwRows["goals test"]) :
           a.id = b.id => a.known = b.known

=============================================================================

--------------------------- MODULE ModelSelection ----------------------------
(***************************************************************************)
(* Chronological selection, calibration and promotion in the modelling     *)
(* package: the tabular classifiers (also trained on player and tactical   *)
(* features), the probability ensemble and the count models of the match   *)
(* statistics.  What a fit, a choice or a temperature was computed from is *)
(* kept as the set of seasons whose targets it read; losses and errors are *)
(* small numbers chosen at every evaluation.                               *)
(***************************************************************************)
EXTENDS Integers, FiniteSets, Sequences

CONSTANTS
    Candidates,   \* numbered in the order of their identity (the tie-break)
    Losses,       \* values a loss or an error may have
    Margin        \* 0.005: what a promotion must improve the log loss by

ASSUME SelectionAssumption ==
    /\ Candidates \subseteq Nat /\ Candidates # {} /\ IsFiniteSet(Candidates)
    /\ Losses \subseteq Nat /\ Margin \in Nat \ {0}

VARIABLES
    msKind,       \* which training runs
    msStage,
    msSeasons,    \* how many seasons the dataset has
    msBoard,      \* the mean loss of each evaluated candidate, times two folds
    msSelected,   \* 0 before the selection
    msRead,       \* per product of the training, the seasons whose targets it read
    msFits,       \* every fit: seasons trained on, season predicted
    msHoldout,    \* holdout losses of the model and of its benchmarks
    msVerdict

selectionVars == <<msKind, msStage, msSeasons, msBoard, msSelected, msRead,
                   msFits, msHoldout, msVerdict>>

\* the player and the tactical model are tabular classifiers on more features
Classifiers == {"tabular", "player", "tactical"}
Kinds == Classifiers \cup {"ensemble", "statistics"}
Products == {"selection", "pipeline", "calibration", "baseline"}

-----------------------------------------------------------------------------
(* The split of six seasons *)

DevelopmentFolds == << <<{1}, 2>>, <<{1, 2}, 3>> >>
BaseTraining == {1, 2, 3}
CalibrationSeason == 4
HoldoutSeasons == {5, 6}

ModelSelectionInit ==
    /\ msKind \in Kinds
    /\ msStage = "load"
    /\ msSeasons \in {5, 6}
    /\ msBoard = <<>>
    /\ msSelected = 0
    /\ msRead = [p \in Products |-> {}]
    /\ msFits = {}
    /\ msHoldout = [loss |-> 0, brier |-> 0, benchmarks |-> <<>>, others |-> <<>>]
    /\ msVerdict = "none"

\* a dataset without exactly six seasons is refused
LoadSplit(kinds) ==
    /\ msStage = "load" /\ msKind \in kinds
    /\ msStage' = IF msSeasons = 6 THEN "folds" ELSE "rejected"
    /\ UNCHANGED <<msKind, msSeasons, msBoard, msSelected, msRead, msFits,
                   msHoldout, msVerdict>>

\* each data set has its own; an ensemble is trained on the player data set,
\* the count models on the tabular one
StandardSplit6 == LoadSplit({"tabular", "statistics"})
PlayerSplit == LoadSplit({"player", "ensemble"})
TacticalSplit == LoadSplit({"tactical"})

-----------------------------------------------------------------------------
(* Selection on the development folds *)

\* fit the candidate on each fold and score it on the season that follows
ScoreCandidate(candidate) ==
    /\ msStage = "folds"
    /\ candidate = Len(msBoard) + 1
    /\ \E l1, l2 \in Losses : msBoard' = Append(msBoard, l1 + l2)
    /\ msFits' = msFits \cup {DevelopmentFolds[i] : i \in 1..2}
    /\ msRead' = [msRead EXCEPT !["selection"] =
                    @ \cup UNION {DevelopmentFolds[i][1] \cup {DevelopmentFolds[i][2]}
                                    : i \in 1..2}]
    /\ UNCHANGED <<msKind, msStage, msSeasons, msSelected, msHoldout, msVerdict>>

EvaluateCandidate(c) == msKind \in Classifiers /\ ScoreCandidate(c)
\* the components are fitted once per fold, every weighting blends them
EvaluateWeights(c) == msKind = "ensemble" /\ ScoreCandidate(c)
EvaluateAlpha(c) == msKind = "statistics" /\ ScoreCandidate(c)

\* the head of the leaderboard: lowest mean loss, ties by identity (after a
\* second measure, which only breaks ties and is left out)
Leader ==
    CHOOSE c \in Candidates : \A d \in Candidates :
        \/ msBoard[c] < msBoard[d]
        \/ msBoard[c] = msBoard[d] /\ c <= d

SelectCandidate ==
    /\ msStage = "folds" /\ Len(msBoard) = Cardinality(Candidates)
    /\ msSelected' = Leader
    /\ msStage' = "fit"
    /\ UNCHANGED <<msKind, msSeasons, msBoard, msRead, msFits, msHoldout, msVerdict>>

-----------------------------------------------------------------------------
(* The final fit, its calibration and the holdout *)

FitOn(kinds) ==
    /\ msStage = "fit" /\ msKind \in kinds
    /\ msRead' = [msRead EXCEPT !["pipeline"] = BaseTraining]
    /\ msFits' = msFits \cup {<<BaseTraining, CalibrationSeason>>}
    /\ msStage' = "calibrate"
    /\ UNCHANGED <<msKind, msSeasons, msBoard, msSelected, msHoldout, msVerdict>>

FitPipeline == FitOn(Classifiers \cup {"statistics"})
\* an ensemble fits a tabular and a player component
FitComponents == FitOn({"ensemble"})

\* the temperature (the multiplier and the interval of a count model), and
\* for an ensemble the temperature of each fitted component before it
Calibrate ==
    /\ msStage = "calibrate"
    /\ msRead' = [msRead EXCEPT !["calibration"] = {CalibrationSeason}]
    /\ msStage' = "holdout"
    /\ UNCHANGED <<msKind, msSeasons, msBoard, msSelected, msFits, msHoldout,
                   msVerdict>>

PriorOfAll == BaseTraining \cup {CalibrationSeason} \cup HoldoutSeasons

\* the historical prior and the baseline mean of the seasons before the holdout
HistoricalPrior == BaseTraining \cup {CalibrationSeason}

\* the benchmarks the verdict compares with: Elo and goals for a classifier,
\* goals alone for an ensemble, the mean for a count model; each has a log loss
\* (or absolute error) and a Brier score (or deviance)
BenchmarkCount == IF msKind \in Classifiers THEN 2 ELSE 1

\* the benchmarks that are measured on the same matches and reported beside
\* them, but play no part in the verdict; only their log loss is kept
OtherBenchmarks ==
    IF msKind \in Classifiers THEN {"historical prior"}
    ELSE IF msKind = "ensemble" THEN {"elo", "tabular", "player"}
    ELSE {}

EvaluateHoldout ==
    /\ msStage = "holdout"
    /\ \E l, b \in Losses, marks \in [1..BenchmarkCount -> Losses \X Losses],
          beside \in [OtherBenchmarks -> Losses] :
         msHoldout' = [loss |-> l, brier |-> b, benchmarks |-> marks, others |-> beside]
    /\ msFits' = msFits \cup {<<BaseTraining, s>> : s \in HoldoutSeasons}
    /\ msRead' = [msRead EXCEPT !["baseline"] = HistoricalPrior]
    /\ msStage' = "verdict"
    /\ UNCHANGED <<msKind, msSeasons, msBoard, msSelected, msVerdict>>

FirstBenchmark == msHoldout.benchmarks[1]

\* the first of the compared benchmarks with the lowest log loss
BestBenchmark ==
    LET marks == msHoldout.benchmarks
    IN  marks[CHOOSE i \in DOMAIN marks : \A j \in DOMAIN marks :
                \/ marks[i][1] < marks[j][1]
                \/ marks[i][1] = marks[j][1] /\ i <= j]

VerdictAgainst(best) ==
    IF best[1] - msHoldout.loss >= Margin /\ msHoldout.brier < best[2]
      THEN "promoted"
    ELSE IF best[1] - msHoldout.loss > 0 THEN "ensemble_candidate"
    ELSE "rejected"

TabularVerdict == VerdictAgainst(BestBenchmark)

\* an ensemble is compared with goals, whatever its other components scored
GoalsBenchmark == msHoldout.benchmarks[1]
EnsembleVerdict == VerdictAgainst(GoalsBenchmark)

\* a count model replaces the mean when it improves both measures
UseCountModel ==
    IF /\ msHoldout.loss < msHoldout.benchmarks[1][1]
       /\ msHoldout.brier < msHoldout.benchmarks[1][2]
    THEN "promoted" ELSE "rejected"

Verdict ==
    /\ msStage = "verdict"
    /\ msVerdict' = CASE msKind \in Classifiers -> TabularVerdict
                      [] msKind = "ensemble" -> EnsembleVerdict
                      [] OTHER -> UseCountModel
    /\ msStage' = "done"
    /\ UNCHANGED <<msKind, msSeasons, msBoard, msSelected, msRead, msFits, msHoldout>>

ModelSelectionNext ==
    \/ StandardSplit6 \/ PlayerSplit \/ TacticalSplit
    \/ \E c \in Candidates :
         EvaluateCandidate(c) \/ EvaluateWeights(c) \/ EvaluateAlpha(c)
    \/ SelectCandidate
    \/ FitPipeline \/ FitComponents
    \/ Calibrate
    \/ EvaluateHoldout
    \/ Verdict

ModelSelectionSpec == ModelSelectionInit /\ [][ModelSelectionNext]_selectionVars

-----------------------------------------------------------------------------
(* Properties *)

\* Changing the holdout targets cannot change the selected candidate, the
\* fitted pipeline, the calibration or the baseline, and no fit ever predicts
\* a season it was trained on or one before it.
HoldoutIsolated ==
    /\ \A p \in Products : msRead[p] \cap HoldoutSeasons = {}
    /\ \A f \in msFits : \A s \in f[1] : s < f[2]
    /\ msRead["calibration"] \cap msRead["pipeline"] = {}
    /\ msRead["selection"] \cap msRead["calibration"] = {}

\* what a promoted model has gained on the first measure
Gain == IF msKind = "statistics" THEN 1 ELSE Margin

\* A promoted model improves by the margin on every benchmark its verdict
\* compares with (Elo and goals, goals alone for an ensemble, the mean), not
\* only on the one it names, and on the second measure of the strongest of
\* them; the candidate it was trained as lost to no other on the folds.
\* Nothing follows for the benchmarks that are only reported.
PromotionEarned ==
    msVerdict = "promoted" =>
        /\ \A i \in DOMAIN msHoldout.benchmarks :
             msHoldout.benchmarks[i][1] - msHoldout.loss >= Gain
        /\ \E i \in DOMAIN msHoldout.benchmarks :
             /\ \A j \in DOMAIN msHoldout.benchmarks :
                  msHoldout.benchmarks[i][1] <= msHoldout.benchmarks[j][1]
             /\ msHoldout.brier < msHoldout.benchmarks[i][2]
        /\ \A c \in Candidates : msBoard[msSelected] <= msBoard[c]

=============================================================================

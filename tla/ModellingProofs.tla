---------------------------- MODULE ModellingProofs -----------------------------
(***************************************************************************)
(* Proofs about the modelling package for every set of candidates, losses, *)
(* margins, source versions, exports and bounds.  Selection: the holdout   *)
(* seasons stay out of everything that is chosen or fitted, and a          *)
(* promotion is earned against every benchmark and candidate.  Files: what *)
(* a gated model names as its sources is what it was trained on, an        *)
(* evaluation stands beside the model it describes, and a version is       *)
(* written once.  Walks: a row knows exactly what was public before it,    *)
(* and the form of a club is its most recent public results.               *)
(***************************************************************************)
EXTENDS ModelSelection, ModelFiles, MatchWalk, PlacesProofs,
        WellFoundedInduction

Stages == {"load", "rejected", "folds", "fit", "calibrate", "holdout", "verdict", "done"}
SelectedStages == {"fit", "calibrate", "holdout", "verdict", "done"}
Marks == Losses \X Losses
\* what the benchmarks that are only reported may have measured
Besides == {<<>>} \cup [{"historical prior"} -> Losses]
             \cup [{"elo", "tabular", "player"} -> Losses] \cup [{} -> Losses]
Seasons == 1..6

SelectionTypeOK ==
    /\ msKind \in Kinds
    /\ msStage \in Stages
    /\ msSeasons \in {5, 6}
    /\ msBoard \in Seq(Nat)
    /\ msSelected \in Candidates \cup {0}
    /\ msRead \in [Products -> SUBSET Seasons]
    /\ msFits \subseteq (SUBSET Seasons) \X Seasons
    /\ msHoldout \in [loss : Nat, brier : Nat, benchmarks : Seq(Marks), others : Besides]
    /\ msVerdict \in {"none", "promoted", "ensemble_candidate", "rejected"}

\* Every product has read only the seasons its part of the split gives it, and
\* every fit predicts a season after those it was trained on.
ReadsSplit ==
    /\ msRead["selection"] \subseteq {1, 2, 3}
    /\ msRead["pipeline"] \subseteq BaseTraining
    /\ msRead["calibration"] \subseteq {CalibrationSeason}
    /\ msRead["baseline"] \subseteq HistoricalPrior
    /\ \A f \in msFits : \A s \in f[1] : s < f[2]

\* Candidates are evaluated in the order of their numbers.
BoardInOrder == 1..Len(msBoard) \subseteq Candidates

\* After the selection the board is complete and nobody beats the selected one.
SelectionWon ==
    msStage \in SelectedStages =>
        /\ Candidates = 1..Len(msBoard)
        /\ msSelected \in Candidates
        /\ \A c \in Candidates : msBoard[msSelected] <= msBoard[c]

\* The holdout is measured once, against the benchmarks of the kind.
HoldoutMeasured ==
    /\ msStage \in {"verdict", "done"} => DOMAIN msHoldout.benchmarks = 1..BenchmarkCount
    /\ msVerdict = "promoted" => msStage = "done"

SelectionInv ==
    /\ SelectionTypeOK /\ ReadsSplit /\ BoardInOrder /\ SelectionWon /\ HoldoutMeasured
    /\ PromotionEarned

-----------------------------------------------------------------------------
(* Selection: lemmas about the choices *)

\* A nonempty set of naturals has a least element.
LEMMA Least ==
    ASSUME NEW T \in SUBSET Nat, T # {}
    PROVE  \E n \in T : \A m \in T : n <= m
<1>1. \E n \in T : \A m \in T : <<m, n>> \notin OpToRel(<, Nat)
  <2>1. IsWellFoundedOn(OpToRel(<, Nat), Nat)
    BY NatLessThanWellFounded
  <2> DEFINE R == OpToRel(<, Nat)
  <2> HIDE DEF R
  <2>2. \E n \in T : \A m \in T : <<m, n>> \notin R
    BY <2>1, WFMin DEF R
  <2> QED BY <2>2 DEF R
<1>2. ASSUME NEW m \in Nat, NEW n \in Nat, m < n PROVE <<m, n>> \in OpToRel(<, Nat)
  <2> DEFINE pair == <<m, n>>
  <2>1. pair \in Nat \X Nat /\ pair[1] < pair[2]
    BY <1>2
  <2> HIDE DEF pair
  <2>2. pair \in OpToRel(<, Nat)
    BY <2>1 DEF OpToRel
  <2> QED BY <2>2 DEF pair
<1>3. PICK n \in T : \A m \in T : <<m, n>> \notin OpToRel(<, Nat)
  BY <1>1
<1>4. \A m \in T : m \in Nat /\ n \in Nat /\ ~(m < n)
  BY <1>2, <1>3, Zenon
<1>5. \A m \in T : n <= m
  BY <1>4
<1> QED BY <1>5

\* The two losses of a mark are numbers.
LEMMA MarkType ==
    ASSUME NEW m \in Marks
    PROVE  m[1] \in Nat /\ m[2] \in Nat
<1>1. PICK a \in Losses, b \in Losses : m = <<a, b>>
  BY DEF Marks
<1> QED BY <1>1, SelectionAssumption

\* The mean loss of an evaluated candidate is a number.
LEMMA MeanLossType ==
    ASSUME msBoard \in Seq(Nat), NEW c \in 1..Len(msBoard)
    PROVE  msBoard[c] \in Nat
BY ElementOfSeq

\* On a complete board there is a leader, and no candidate beats it.
LEMMA LeaderWins ==
    ASSUME msBoard \in Seq(Nat), Candidates = 1..Len(msBoard)
    PROVE  /\ Leader \in Candidates
           /\ \A c \in Candidates : msBoard[Leader] <= msBoard[c]
<1>1. \A c \in Candidates : msBoard[c] \in Nat
  BY MeanLossType
<1> DEFINE losses == {msBoard[c] : c \in Candidates}
<1>2. PICK least \in losses : \A m \in losses : least <= m
  <2>1. losses \in SUBSET Nat
    BY <1>1
  <2>2. losses # {}
    BY SelectionAssumption
  <2> HIDE DEF losses
  <2> QED BY <2>1, <2>2, Least
<1> DEFINE best == {c \in Candidates : msBoard[c] = least}
<1>3. PICK first \in best : \A c \in best : first <= c
  <2>1. best \in SUBSET Nat
    BY SelectionAssumption
  <2>2. best # {}
    BY <1>2
  <2> HIDE DEF best
  <2> QED BY <2>1, <2>2, Least
<1>4. \A d \in Candidates : \/ msBoard[first] < msBoard[d]
                            \/ msBoard[first] = msBoard[d] /\ first <= d
  <2> TAKE d \in Candidates
  <2>1. least <= msBoard[d] /\ msBoard[first] = least /\ first \in Candidates
    BY <1>2, <1>3
  <2>2. CASE msBoard[d] = least
    <3>1. d \in best
      BY <2>2
    <3> HIDE DEF best
    <3> QED BY <1>3, <2>1, <2>2, <3>1
  <2>3. CASE msBoard[d] # least
    BY <1>1, <2>1, <2>3
  <2> QED BY <2>2, <2>3
<1>5. first \in Candidates
  BY <1>3
<1> HIDE DEF losses, best
<1>6. /\ Leader \in Candidates
      /\ \A d \in Candidates : \/ msBoard[Leader] < msBoard[d]
                               \/ msBoard[Leader] = msBoard[d] /\ Leader <= d
  BY <1>4, <1>5, Zenon DEF Leader
<1> HIDE DEF Leader
<1> QED BY <1>1, <1>6

\* Of one or two benchmarks, the best has the lowest log loss.
LEMMA BestBenchmarkWins ==
    ASSUME msHoldout.benchmarks \in Seq(Marks),
           DOMAIN msHoldout.benchmarks = 1..1 \/ DOMAIN msHoldout.benchmarks = 1..2
    PROVE  \E i \in DOMAIN msHoldout.benchmarks :
             /\ BestBenchmark = msHoldout.benchmarks[i]
             /\ \A j \in DOMAIN msHoldout.benchmarks :
                  msHoldout.benchmarks[i][1] <= msHoldout.benchmarks[j][1]
<1> DEFINE marks == msHoldout.benchmarks
           Wins(i) == \A j \in DOMAIN marks :
                        \/ marks[i][1] < marks[j][1]
                        \/ marks[i][1] = marks[j][1] /\ i <= j
           best == CHOOSE i \in DOMAIN marks : Wins(i)
<1>1. \A i \in DOMAIN marks : marks[i][1] \in Nat /\ i \in Nat
  <2> TAKE i \in DOMAIN marks
  <2>1. marks[i] \in Marks /\ i \in Nat
    BY ElementOfSeq, LenProperties
  <2> QED BY <2>1, MarkType
<1>2. \E i \in DOMAIN marks : Wins(i)
  <2>1. CASE DOMAIN marks = 1..1
    BY <1>1, <2>1
  <2>2. CASE DOMAIN marks = 1..2
    <3>1. 1 \in DOMAIN marks /\ 2 \in DOMAIN marks /\ \A j \in DOMAIN marks : j = 1 \/ j = 2
      BY <2>2
    <3>2. marks[1][1] <= marks[2][1] \/ marks[2][1] < marks[1][1]
      BY <1>1, <3>1
    <3>3. CASE marks[1][1] <= marks[2][1]
      <4>1. Wins(1)
        BY <1>1, <3>1, <3>3
      <4> QED BY <3>1, <4>1
    <3>4. CASE marks[2][1] < marks[1][1]
      <4>1. Wins(2)
        BY <1>1, <3>1, <3>4
      <4> QED BY <3>1, <4>1
    <3> QED BY <3>2, <3>3, <3>4
  <2> QED BY <2>1, <2>2
<1>3. best \in DOMAIN marks /\ Wins(best)
  BY <1>2, Zenon
<1>4. BestBenchmark = marks[best]
  BY Zenon DEF BestBenchmark
<1> HIDE DEF best
<1> QED BY <1>1, <1>3, <1>4

-----------------------------------------------------------------------------
(* The steps of a selection *)

\* The initial state: nothing is read, fitted, chosen or measured.
LEMMA SelectionStart == ModelSelectionInit => SelectionInv
<1> SUFFICES ASSUME ModelSelectionInit PROVE SelectionInv
  OBVIOUS
<1>1. SelectionTypeOK
  <2>1. msBoard \in Seq(Nat) /\ <<>> \in Seq(Marks) /\ <<>> \in Besides
    BY EmptySeq DEF ModelSelectionInit, Besides
  <2>2. msHoldout \in [loss : Nat, brier : Nat, benchmarks : Seq(Marks), others : Besides]
    BY <2>1 DEF ModelSelectionInit
  <2>3. msRead \in [Products -> SUBSET Seasons] /\ msFits \subseteq (SUBSET Seasons) \X Seasons
    BY DEF ModelSelectionInit
  <2> QED BY <2>1, <2>2, <2>3 DEF ModelSelectionInit, SelectionTypeOK, Stages
<1>2. ReadsSplit
  BY DEF ModelSelectionInit, ReadsSplit, Products
<1>3. BoardInOrder
  BY EmptySeq DEF ModelSelectionInit, BoardInOrder
<1>4. SelectionWon /\ HoldoutMeasured /\ PromotionEarned
  BY DEF ModelSelectionInit, SelectionWon, SelectedStages, HoldoutMeasured, PromotionEarned
<1> QED BY <1>1, <1>2, <1>3, <1>4 DEF SelectionInv

\* Nothing that was measured or decided changes when these three stay the same.
LEMMA PromotionKept ==
    ASSUME PromotionEarned,
           UNCHANGED <<msKind, msBoard, msSelected, msHoldout, msVerdict>>
    PROVE  PromotionEarned'
BY DEF PromotionEarned, Gain

\* Before the last stage nothing is promoted yet.
LEMMA NothingPromoted ==
    ASSUME SelectionInv, msStage # "done", msVerdict' = msVerdict
    PROVE  msVerdict' # "promoted" /\ PromotionEarned'
<1>1. msVerdict' # "promoted"
  BY DEF SelectionInv, HoldoutMeasured
<1> QED BY <1>1 DEF PromotionEarned

\* A dataset without exactly six seasons is refused before anything is read.
LEMMA LoadStep ==
    ASSUME SelectionInv, StandardSplit6 \/ PlayerSplit \/ TacticalSplit
    PROVE  SelectionInv'
<1>1. /\ msStage = "load" /\ msStage' \in {"folds", "rejected"}
      /\ UNCHANGED <<msKind, msSeasons, msBoard, msSelected, msRead, msFits, msHoldout, msVerdict>>
  BY DEF StandardSplit6, PlayerSplit, TacticalSplit, LoadSplit
<1>2. SelectionTypeOK'
  BY <1>1 DEF SelectionInv, SelectionTypeOK, Stages
<1>3. ReadsSplit' /\ BoardInOrder'
  BY <1>1 DEF SelectionInv, ReadsSplit, BoardInOrder
<1>4. msVerdict' # "promoted" /\ PromotionEarned'
  BY <1>1, NothingPromoted
<1>5. SelectionWon' /\ HoldoutMeasured'
  BY <1>1, <1>4 DEF SelectionWon, SelectedStages, HoldoutMeasured
<1> QED BY <1>2, <1>3, <1>4, <1>5 DEF SelectionInv

\* A candidate is fitted and scored on the development folds only.
LEMMA ScoreStep ==
    ASSUME SelectionInv, NEW c \in Candidates, ScoreCandidate(c)
    PROVE  SelectionInv'
<1>1. /\ msStage = "folds" /\ c = Len(msBoard) + 1
      /\ UNCHANGED <<msKind, msStage, msSeasons, msSelected, msHoldout, msVerdict>>
  BY DEF ScoreCandidate
<1>2. msBoard \in Seq(Nat)
  BY DEF SelectionInv, SelectionTypeOK
<1>3. PICK mean \in Nat : msBoard' = Append(msBoard, mean)
  <2>1. PICK l1 \in Losses, l2 \in Losses : msBoard' = Append(msBoard, l1 + l2)
    BY DEF ScoreCandidate
  <2>2. l1 + l2 \in Nat
    BY SelectionAssumption
  <2> QED BY <2>1, <2>2
<1>4. msBoard' \in Seq(Nat) /\ Len(msBoard') = Len(msBoard) + 1 /\ Len(msBoard) \in Nat
  BY <1>2, <1>3, AppendProperties, LenProperties
<1>5. msFits' = msFits \cup {<<{1}, 2>>, <<{1, 2}, 3>>}
  <2>1. {DevelopmentFolds[i] : i \in 1..2} = {<<{1}, 2>>, <<{1, 2}, 3>>}
    <3>1. DevelopmentFolds[1] = <<{1}, 2>> /\ DevelopmentFolds[2] = <<{1, 2}, 3>>
      BY DEF DevelopmentFolds
    <3>2. {DevelopmentFolds[i] : i \in 1..2} = {DevelopmentFolds[1], DevelopmentFolds[2]}
      BY 1..2 = {1, 2}
    <3> QED BY <3>1, <3>2
  <2> QED BY <2>1 DEF ScoreCandidate
<1>6. msRead' = [msRead EXCEPT !["selection"] = @ \cup {1, 2, 3}]
  <2>1. UNION {DevelopmentFolds[i][1] \cup {DevelopmentFolds[i][2]} : i \in 1..2} = {1, 2, 3}
    <3> DEFINE Both(i) == DevelopmentFolds[i][1] \cup {DevelopmentFolds[i][2]}
    <3>1. /\ DevelopmentFolds[1][1] = {1} /\ DevelopmentFolds[1][2] = 2
          /\ DevelopmentFolds[2][1] = {1, 2} /\ DevelopmentFolds[2][2] = 3
      BY DEF DevelopmentFolds
    <3>2. Both(1) = {1} \cup {2} /\ Both(2) = {1, 2} \cup {3}
      BY <3>1
    <3> HIDE DEF Both
    <3>3. {Both(i) : i \in 1..2} = {Both(1), Both(2)}
      BY 1..2 = {1, 2}
    <3>4. UNION {Both(i) : i \in 1..2} = {1, 2, 3}
      BY <3>2, <3>3
    <3> QED BY <3>4 DEF Both
  <2> QED BY <2>1 DEF ScoreCandidate
<1>7. SelectionTypeOK'
  <2>1. msFits' \subseteq (SUBSET Seasons) \X Seasons
    <3>1. {1} \in SUBSET Seasons /\ {1, 2} \in SUBSET Seasons /\ 2 \in Seasons /\ 3 \in Seasons
      BY DEF Seasons
    <3>2. msFits \subseteq (SUBSET Seasons) \X Seasons
      BY DEF SelectionInv, SelectionTypeOK
    <3> QED BY <1>5, <3>1, <3>2
  <2>2. msRead' \in [Products -> SUBSET Seasons]
    <3>1. msRead \in [Products -> SUBSET Seasons] /\ "selection" \in Products
      BY DEF SelectionInv, SelectionTypeOK, Products
    <3>2. msRead["selection"] \cup {1, 2, 3} \in SUBSET Seasons
      BY <3>1 DEF Seasons
    <3> QED BY <1>6, <3>1, <3>2
  <2> QED BY <1>1, <1>4, <2>1, <2>2 DEF SelectionInv, SelectionTypeOK
<1>8. ReadsSplit'
  <2>1. /\ msRead'["selection"] = msRead["selection"] \cup {1, 2, 3}
        /\ msRead'["pipeline"] = msRead["pipeline"]
        /\ msRead'["calibration"] = msRead["calibration"]
        /\ msRead'["baseline"] = msRead["baseline"]
    BY <1>6 DEF SelectionInv, SelectionTypeOK, Products
  <2>2. \A f \in msFits' : \A s \in f[1] : s < f[2]
    <3>1. \A f \in {<<{1}, 2>>, <<{1, 2}, 3>>} : \A s \in f[1] : s < f[2]
      OBVIOUS
    <3>2. \A f \in msFits : \A s \in f[1] : s < f[2]
      BY DEF SelectionInv, ReadsSplit
    <3> QED BY <1>5, <3>1, <3>2
  <2> QED BY <2>1, <2>2 DEF SelectionInv, ReadsSplit
<1>9. BoardInOrder'
  BY <1>1, <1>4 DEF SelectionInv, BoardInOrder
<1>10. msVerdict' # "promoted" /\ PromotionEarned'
  BY <1>1, NothingPromoted
<1>11. SelectionWon' /\ HoldoutMeasured'
  BY <1>1, <1>10 DEF SelectionWon, SelectedStages, HoldoutMeasured
<1> QED BY <1>7, <1>8, <1>9, <1>10, <1>11 DEF SelectionInv

\* The selection reads the complete board and nothing else.
LEMMA SelectStep ==
    ASSUME SelectionInv, SelectCandidate
    PROVE  SelectionInv'
<1>1. /\ msStage = "folds" /\ msStage' = "fit" /\ msSelected' = Leader
      /\ Len(msBoard) = Cardinality(Candidates)
      /\ UNCHANGED <<msKind, msSeasons, msBoard, msRead, msFits, msHoldout, msVerdict>>
  BY DEF SelectCandidate
<1>2. msBoard \in Seq(Nat) /\ Len(msBoard) \in Nat
  BY LenProperties DEF SelectionInv, SelectionTypeOK
<1>3. Candidates = 1..Len(msBoard)
  <2> DEFINE board == 1..Len(msBoard)
  <2>1. board \in SUBSET Candidates
    BY DEF SelectionInv, BoardInOrder
  <2>2. Cardinality(board) = Len(msBoard)
    <3> DEFINE n == Len(msBoard)
    <3>1. n \in Nat
      BY <1>2
    <3> HIDE DEF n
    <3>2. Cardinality(1..n) = IF 1 > n THEN 0 ELSE n - 1 + 1
      BY <3>1, FS_Interval
    <3>3. Cardinality(1..n) = n
      BY <3>1, <3>2
    <3> QED BY <3>3 DEF n
  <2> HIDE DEF board
  <2>3. Cardinality(Candidates) = Cardinality(board) => Candidates = board
    BY <2>1, FS_Subset, SelectionAssumption
  <2> QED BY <1>1, <2>2, <2>3 DEF board
<1>4. /\ Leader \in Candidates
      /\ \A c \in Candidates : msBoard[Leader] <= msBoard[c]
  BY <1>2, <1>3, LeaderWins
<1>5. SelectionWon'
  <2>1. \A c \in Candidates : msBoard'[msSelected'] <= msBoard'[c]
    BY <1>1, <1>4
  <2> HIDE DEF Leader
  <2> QED BY <1>1, <1>3, <1>4, <2>1 DEF SelectionWon
<1>6. SelectionTypeOK'
  BY <1>1, <1>4 DEF SelectionInv, SelectionTypeOK, Stages
<1>7. ReadsSplit' /\ BoardInOrder'
  BY <1>1 DEF SelectionInv, ReadsSplit, BoardInOrder
<1>8. msVerdict' # "promoted" /\ PromotionEarned'
  BY <1>1, NothingPromoted
<1>9. HoldoutMeasured'
  BY <1>1, <1>8 DEF HoldoutMeasured
<1> QED BY <1>5, <1>6, <1>7, <1>8, <1>9 DEF SelectionInv

\* The selected candidate stays the winner while the board is not touched.
LEMMA SelectionStays ==
    ASSUME SelectionInv, msStage \in SelectedStages, UNCHANGED <<msBoard, msSelected>>
    PROVE  SelectionWon' /\ BoardInOrder'
<1>1. \A c \in Candidates : msBoard[msSelected] <= msBoard[c]
  BY DEF SelectionInv, SelectionWon
<1>2. Candidates = 1..Len(msBoard') /\ msSelected' \in Candidates
  BY DEF SelectionInv, SelectionWon
<1> QED BY <1>1, <1>2 DEF SelectionWon, BoardInOrder

\* The final fit reads the base training seasons and predicts the next one.
LEMMA FitStep ==
    ASSUME SelectionInv, FitPipeline \/ FitComponents
    PROVE  SelectionInv'
<1>1. /\ msStage = "fit" /\ msStage' = "calibrate"
      /\ msRead' = [msRead EXCEPT !["pipeline"] = BaseTraining]
      /\ msFits' = msFits \cup {<<BaseTraining, CalibrationSeason>>}
      /\ UNCHANGED <<msKind, msSeasons, msBoard, msSelected, msHoldout, msVerdict>>
  BY DEF FitPipeline, FitComponents, FitOn
<1>2. SelectionTypeOK'
  <2>1. BaseTraining \in SUBSET Seasons /\ CalibrationSeason \in Seasons
    BY DEF BaseTraining, CalibrationSeason, Seasons
  <2>2. SelectionTypeOK
    BY DEF SelectionInv
  <2>3. msFits' \subseteq (SUBSET Seasons) \X Seasons
    BY <1>1, <2>1, <2>2 DEF SelectionTypeOK
  <2>4. msRead' \in [Products -> SUBSET Seasons]
    BY <1>1, <2>1, <2>2 DEF SelectionTypeOK
  <2> QED BY <1>1, <2>2, <2>3, <2>4 DEF SelectionTypeOK, Stages
<1>3. ReadsSplit'
  <2>1. /\ msRead'["selection"] = msRead["selection"]
        /\ msRead'["pipeline"] = BaseTraining
        /\ msRead'["calibration"] = msRead["calibration"]
        /\ msRead'["baseline"] = msRead["baseline"]
    BY <1>1 DEF SelectionInv, SelectionTypeOK, Products
  <2>2. \A s \in BaseTraining : s < CalibrationSeason
    BY DEF BaseTraining, CalibrationSeason
  <2>3. \A f \in msFits' : \A s \in f[1] : s < f[2]
    BY <1>1, <2>2 DEF SelectionInv, ReadsSplit
  <2> QED BY <2>1, <2>3 DEF SelectionInv, ReadsSplit
<1>4. SelectionWon' /\ BoardInOrder'
  BY <1>1, SelectionStays DEF SelectedStages
<1>5. msVerdict' # "promoted" /\ PromotionEarned'
  BY <1>1, NothingPromoted
<1>6. HoldoutMeasured'
  BY <1>1, <1>5 DEF HoldoutMeasured
<1> QED BY <1>2, <1>3, <1>4, <1>5, <1>6 DEF SelectionInv

\* The calibration reads its own season.
LEMMA CalibrateStep ==
    ASSUME SelectionInv, Calibrate
    PROVE  SelectionInv'
<1>1. /\ msStage = "calibrate" /\ msStage' = "holdout"
      /\ msRead' = [msRead EXCEPT !["calibration"] = {CalibrationSeason}]
      /\ UNCHANGED <<msKind, msSeasons, msBoard, msSelected, msFits, msHoldout, msVerdict>>
  BY DEF Calibrate
<1>2. SelectionTypeOK'
  <2>1. {CalibrationSeason} \in SUBSET Seasons
    BY DEF CalibrationSeason, Seasons
  <2> QED BY <1>1, <2>1 DEF SelectionInv, SelectionTypeOK, Stages
<1>3. ReadsSplit'
  <2>1. /\ msRead'["selection"] = msRead["selection"]
        /\ msRead'["pipeline"] = msRead["pipeline"]
        /\ msRead'["calibration"] = {CalibrationSeason}
        /\ msRead'["baseline"] = msRead["baseline"]
    BY <1>1 DEF SelectionInv, SelectionTypeOK, Products
  <2> QED BY <1>1, <2>1 DEF SelectionInv, ReadsSplit
<1>4. SelectionWon' /\ BoardInOrder'
  BY <1>1, SelectionStays DEF SelectedStages
<1>5. msVerdict' # "promoted" /\ PromotionEarned'
  BY <1>1, NothingPromoted
<1>6. HoldoutMeasured'
  BY <1>1, <1>5 DEF HoldoutMeasured
<1> QED BY <1>2, <1>3, <1>4, <1>5, <1>6 DEF SelectionInv

\* The holdout is predicted by the fit of the base seasons and measured against
\* benchmarks of the seasons before it.
LEMMA HoldoutStep ==
    ASSUME SelectionInv, EvaluateHoldout
    PROVE  SelectionInv'
<1>1. /\ msStage = "holdout" /\ msStage' = "verdict"
      /\ msRead' = [msRead EXCEPT !["baseline"] = HistoricalPrior]
      /\ msFits' = msFits \cup {<<BaseTraining, s>> : s \in HoldoutSeasons}
      /\ UNCHANGED <<msKind, msSeasons, msBoard, msSelected, msVerdict>>
  BY DEF EvaluateHoldout
<1>2. PICK l \in Losses, b \in Losses, marks \in [1..BenchmarkCount -> Marks],
          beside \in [OtherBenchmarks -> Losses] :
        msHoldout' = [loss |-> l, brier |-> b, benchmarks |-> marks, others |-> beside]
  BY DEF EvaluateHoldout, Marks
<1>3. BenchmarkCount \in Nat
  BY DEF BenchmarkCount
<1>4. marks \in Seq(Marks) /\ DOMAIN marks = 1..BenchmarkCount
  BY <1>3, SeqDef
<1>5. /\ msHoldout' \in [loss : Nat, brier : Nat, benchmarks : Seq(Marks), others : Besides]
      /\ msHoldout'.benchmarks = marks
  <2>1. beside \in Besides
    BY DEF OtherBenchmarks, Besides
  <2> QED BY <1>2, <1>4, <2>1, SelectionAssumption
<1>6. SelectionTypeOK'
  <2>1. HistoricalPrior \in SUBSET Seasons
    BY DEF HistoricalPrior, BaseTraining, CalibrationSeason, HoldoutSeasons, Seasons
  <2>2. {<<BaseTraining, s>> : s \in HoldoutSeasons} \subseteq (SUBSET Seasons) \X Seasons
    BY DEF BaseTraining, HoldoutSeasons, Seasons
  <2> QED BY <1>1, <1>5, <2>1, <2>2 DEF SelectionInv, SelectionTypeOK, Stages
<1>7. ReadsSplit'
  <2>1. /\ msRead'["selection"] = msRead["selection"]
        /\ msRead'["pipeline"] = msRead["pipeline"]
        /\ msRead'["calibration"] = msRead["calibration"]
        /\ msRead'["baseline"] = HistoricalPrior
    BY <1>1 DEF SelectionInv, SelectionTypeOK, Products
  <2>2. \A n \in HoldoutSeasons : \A s \in BaseTraining : s < n
    BY DEF BaseTraining, HoldoutSeasons
  <2>3. \A f \in msFits' : \A s \in f[1] : s < f[2]
    BY <1>1, <2>2 DEF SelectionInv, ReadsSplit
  <2> QED BY <2>1, <2>3 DEF SelectionInv, ReadsSplit
<1>8. SelectionWon' /\ BoardInOrder'
  BY <1>1, SelectionStays DEF SelectedStages
<1>9. msVerdict' # "promoted" /\ PromotionEarned'
  BY <1>1, NothingPromoted
<1>10. HoldoutMeasured'
  <2>1. BenchmarkCount' = BenchmarkCount
    BY <1>1 DEF BenchmarkCount
  <2> QED BY <1>1, <1>4, <1>5, <1>9, <2>1 DEF HoldoutMeasured
<1> QED BY <1>6, <1>7, <1>8, <1>9, <1>10 DEF SelectionInv

\* The verdict against one benchmark is a promotion only with the margin.
LEMMA VerdictNeedsMargin ==
    ASSUME NEW best, VerdictAgainst(best) = "promoted"
    PROVE  best[1] - msHoldout.loss >= Margin /\ msHoldout.brier < best[2]
BY DEF VerdictAgainst

\* A promotion is earned.
LEMMA VerdictStep ==
    ASSUME SelectionInv, Verdict
    PROVE  SelectionInv'
<1>1. /\ msStage = "verdict" /\ msStage' = "done"
      /\ UNCHANGED <<msKind, msSeasons, msBoard, msSelected, msRead, msFits, msHoldout>>
  BY DEF Verdict
<1> DEFINE marks == msHoldout.benchmarks
<1>2. /\ msKind \in Kinds /\ msHoldout.loss \in Nat /\ msHoldout.brier \in Nat
      /\ marks \in Seq(Marks) /\ DOMAIN marks = 1..BenchmarkCount
  BY <1>1 DEF SelectionInv, SelectionTypeOK, HoldoutMeasured
<1>3. \A i \in DOMAIN marks : marks[i] \in Marks /\ marks[i][1] \in Nat /\ marks[i][2] \in Nat
  <2> TAKE i \in DOMAIN marks
  <2>1. marks[i] \in Marks
    BY <1>2, ElementOfSeq, LenProperties
  <2> QED BY <2>1, MarkType
<1>4. \A c \in Candidates : msBoard[msSelected] <= msBoard[c]
  BY <1>1 DEF SelectionInv, SelectionWon, SelectedStages
<1>5. msVerdict' = "promoted" =>
        \E i \in DOMAIN marks :
          /\ marks[i][1] - msHoldout.loss >= Gain /\ msHoldout.brier < marks[i][2]
          /\ \A j \in DOMAIN marks : marks[i][1] <= marks[j][1]
  <2> SUFFICES ASSUME msVerdict' = "promoted"
               PROVE  \E i \in DOMAIN marks :
                        /\ marks[i][1] - msHoldout.loss >= Gain /\ msHoldout.brier < marks[i][2]
                        /\ \A j \in DOMAIN marks : marks[i][1] <= marks[j][1]
    OBVIOUS
  <2>1. CASE msKind \in Classifiers
    <3>1. VerdictAgainst(BestBenchmark) = "promoted"
      <4>1. msKind # "ensemble"
        BY <2>1 DEF Classifiers
      <4>2. msVerdict' = TabularVerdict
        BY <2>1, <4>1 DEF Verdict
      <4> QED BY <4>2 DEF TabularVerdict
    <3>2. PICK i \in DOMAIN marks : /\ BestBenchmark = marks[i]
                                    /\ \A j \in DOMAIN marks : marks[i][1] <= marks[j][1]
      BY <1>2, <2>1, BestBenchmarkWins DEF BenchmarkCount
    <3> HIDE DEF marks
    <3>3. marks[i][1] - msHoldout.loss >= Margin /\ msHoldout.brier < marks[i][2]
      BY <3>1, <3>2, VerdictNeedsMargin
    <3>4. Gain = Margin
      BY <2>1 DEF Gain, Classifiers
    <3> QED BY <3>2, <3>3, <3>4
  <2>2. CASE msKind \notin Classifiers
    <3>1. DOMAIN marks = 1..1
      BY <1>2, <2>2 DEF BenchmarkCount
    <3>2. 1 \in DOMAIN marks /\ \A j \in DOMAIN marks : j = 1
      BY <3>1
    <3>3. marks[1][1] - msHoldout.loss >= Gain /\ msHoldout.brier < marks[1][2]
      <4>1. CASE msKind = "ensemble"
        <5>1. VerdictAgainst(marks[1]) = "promoted"
          BY <2>2, <4>1 DEF Verdict, EnsembleVerdict, GoalsBenchmark
        <5>2. Gain = Margin
          BY <4>1 DEF Gain
        <5> HIDE DEF marks
        <5> QED BY <5>1, <5>2, VerdictNeedsMargin
      <4>2. CASE msKind # "ensemble"
        <5>1. UseCountModel = "promoted"
          BY <2>2, <4>2 DEF Verdict
        <5>2. msHoldout.loss < marks[1][1] /\ msHoldout.brier < marks[1][2]
          BY <5>1 DEF UseCountModel
        <5>3. Gain = 1
          BY <1>2, <2>2, <4>2 DEF Gain, Kinds
        <5> HIDE DEF marks
        <5> QED BY <1>2, <1>3, <3>2, <5>2, <5>3
      <4> QED BY <4>1, <4>2
    <3>4. \A j \in DOMAIN marks : marks[1][1] <= marks[j][1]
      BY <1>3, <3>2
    <3> QED BY <3>2, <3>3, <3>4
  <2> QED BY <2>1, <2>2
<1>6. PromotionEarned'
  <2> SUFFICES ASSUME msVerdict' = "promoted"
               PROVE  /\ \A i \in DOMAIN marks : marks[i][1] - msHoldout.loss >= Gain
                      /\ \E i \in DOMAIN marks :
                           /\ \A j \in DOMAIN marks : marks[i][1] <= marks[j][1]
                           /\ msHoldout.brier < marks[i][2]
                      /\ \A c \in Candidates : msBoard[msSelected] <= msBoard[c]
    BY <1>1 DEF PromotionEarned, Gain
  <2>1. PICK i \in DOMAIN marks :
          /\ marks[i][1] - msHoldout.loss >= Gain /\ msHoldout.brier < marks[i][2]
          /\ \A j \in DOMAIN marks : marks[i][1] <= marks[j][1]
    BY <1>5
  <2>2. \A j \in DOMAIN marks : marks[j][1] - msHoldout.loss >= Gain
    <3> TAKE j \in DOMAIN marks
    <3>1. Gain \in Nat
      BY SelectionAssumption DEF Gain
    <3> HIDE DEF marks
    <3> QED BY <1>2, <1>3, <2>1, <3>1
  <2> QED BY <1>4, <2>1, <2>2
<1>7. SelectionTypeOK'
  <2>1. msVerdict' \in {"none", "promoted", "ensemble_candidate", "rejected"}
    BY DEF Verdict, TabularVerdict, EnsembleVerdict, UseCountModel, VerdictAgainst
  <2> QED BY <1>1, <2>1 DEF SelectionInv, SelectionTypeOK, Stages
<1>8. ReadsSplit'
  BY <1>1 DEF SelectionInv, ReadsSplit
<1>9. SelectionWon' /\ BoardInOrder'
  BY <1>1, SelectionStays DEF SelectedStages
<1>10. HoldoutMeasured'
  <2>1. BenchmarkCount' = BenchmarkCount
    BY <1>1 DEF BenchmarkCount
  <2> QED BY <1>1, <1>2, <2>1 DEF HoldoutMeasured
<1> QED BY <1>6, <1>7, <1>8, <1>9, <1>10 DEF SelectionInv

-----------------------------------------------------------------------------
(* The specification of a selection *)

LEMMA SelectionNextInv == SelectionInv /\ [ModelSelectionNext]_selectionVars => SelectionInv'
<1> SUFFICES ASSUME SelectionInv, [ModelSelectionNext]_selectionVars PROVE SelectionInv'
  OBVIOUS
<1>1. ASSUME NEW c \in Candidates, EvaluateCandidate(c) \/ EvaluateWeights(c) \/ EvaluateAlpha(c)
      PROVE  SelectionInv'
  BY <1>1, ScoreStep DEF EvaluateCandidate, EvaluateWeights, EvaluateAlpha
<1>2. CASE UNCHANGED selectionVars
  <2>1. /\ SelectionTypeOK' /\ ReadsSplit' /\ BoardInOrder' /\ HoldoutMeasured'
    BY <1>2 DEF selectionVars, SelectionInv, SelectionTypeOK, ReadsSplit, BoardInOrder,
       HoldoutMeasured, BenchmarkCount
  <2>2. SelectionWon'
    BY <1>2, SelectionStays DEF selectionVars, SelectionWon
  <2>3. PromotionEarned'
    BY <1>2, PromotionKept DEF selectionVars, SelectionInv
  <2> QED BY <2>1, <2>2, <2>3 DEF SelectionInv
<1> QED
  BY <1>1, <1>2, LoadStep, SelectStep, FitStep, CalibrateStep, HoldoutStep, VerdictStep
  DEF ModelSelectionNext

\* Every stage of a training has read what its split allows and chosen the best of
\* what it measured.
THEOREM SelectionInvariance == ModelSelectionSpec => []SelectionInv
  BY SelectionStart, SelectionNextInv, PTL DEF ModelSelectionSpec

\* The split of the six seasons is respected by every training, whatever its kind,
\* its candidates and the losses it measures: selection, fit, calibration and
\* baseline never read a target of the holdout, the calibration season is read by
\* nobody else, and every fit predicts a later season than it was trained on.
THEOREM HoldoutStaysIsolated == ModelSelectionSpec => []HoldoutIsolated
<1>1. SelectionInv => HoldoutIsolated
  <2> SUFFICES ASSUME SelectionInv PROVE HoldoutIsolated
    OBVIOUS
  <2>1. ReadsSplit
    BY DEF SelectionInv
  <2>2. \A p \in Products : msRead[p] \cap HoldoutSeasons = {}
    BY <2>1 DEF ReadsSplit, Products, BaseTraining, CalibrationSeason, HistoricalPrior,
       HoldoutSeasons
  <2>3. /\ msRead["calibration"] \cap msRead["pipeline"] = {}
        /\ msRead["selection"] \cap msRead["calibration"] = {}
    BY <2>1 DEF ReadsSplit, BaseTraining, CalibrationSeason
  <2> QED BY <2>1, <2>2, <2>3 DEF ReadsSplit, HoldoutIsolated
<1> QED BY <1>1, SelectionInvariance, PTL

\* A promotion means what its report says, for any number of candidates and any
\* margin: the model beats by the margin every benchmark its verdict compares with,
\* the strongest of them on the second measure as well, and no candidate had a lower
\* mean loss on the folds.  The benchmarks that are only reported may have any loss.
THEOREM PromotionIsEarned == ModelSelectionSpec => []PromotionEarned
<1>1. SelectionInv => PromotionEarned
  BY DEF SelectionInv
<1> QED BY <1>1, SelectionInvariance, PTL

-----------------------------------------------------------------------------
(* Files: the inductive invariant *)

\* The kinds of export that are gated by their coverage.
GatedExports == {"player", "tactical"}
ExportSteps == {"csv", "report"}
TrainingSteps == {"model", "evaluation"}

NewestIn(content) == content[Len(content)]

\* The variables keep their shapes.
FilesShape ==
    /\ mfImport \in Imports /\ mfPlayers \in PlayerExports
    /\ mfCsv = [k \in Exports |-> mfCsv[k]]
    /\ mfQuality = [k \in Exports |-> mfQuality[k]]
    /\ mfScript = [step |-> mfScript.step, kind |-> mfScript.kind, data |-> mfScript.data,
                   sources |-> mfScript.sources, records |-> mfScript.records]
    /\ mfScript.step \in ExportSteps \cup TrainingSteps \cup {"none"}
    /\ mfFaults \in 0..MaxFaults

\* A report of a gated export describes a whole csv, names the files that csv was
\* built from and counts the records of the player files among them.
Honest(report) ==
    \/ report \in {NoReport, BrokenReport}
    \/ /\ report.of.whole
       /\ report.sources = report.of.content
       /\ report.records = {NewestIn(report.of.content)}

ReportsHonest == \A k \in GatedExports : Honest(mfQuality[k])

\* A script that exports has rendered whole data.
ExportRendered ==
    mfScript.step \in ExportSteps =>
        /\ mfScript.kind \in Exports
        /\ mfScript.data.whole
        /\ mfScript.kind \in GatedExports =>
             mfScript.records = {NewestIn(mfScript.data.content)}

\* What the two properties say of one artifact, before it is written.
Traceable(kind, data, sources) ==
    /\ kind \in {"player", "ensemble", "tactical"} =>
         data.whole /\ data.content[Len(data.content)] \in CoveredExports
    /\ kind \in {"player", "tactical"} => sources = data.content
    /\ kind = "statistics" =>
         data.whole /\ Fixtures[data.content[1]] = Fixtures[sources[1]]

TrainingTraceable ==
    mfScript.step \in TrainingSteps =>
        Traceable(mfScript.kind, mfScript.data, mfScript.sources)

\* The version a script writes: which of its sources it includes depends on its kind.
ScriptVersion ==
    Version(IF mfScript.kind \in {"statistics", "tactical"} THEN mfScript.sources
            ELSE IF mfScript.kind = "player" THEN SubSeq(mfScript.sources, 2, 2)
            ELSE <<>>)

\* A script that is about to write its evaluation finds none of that version.
EvaluationFree ==
    mfScript.step = "evaluation" =>
        \A a \in mfArtifacts : a.version = ScriptVersion => a.evaluation = "none"

ArtifactsSound ==
    \A a \in mfArtifacts :
        /\ Traceable(a.version.kind, a.version.data, a.sources)
        /\ a.evaluation # "none" => a.model = "whole"

FilesInv ==
    /\ FilesShape /\ ReportsHonest /\ ExportRendered /\ TrainingTraceable
    /\ EvaluationFree /\ ArtifactsSound

-----------------------------------------------------------------------------
(* Files: lemmas about the scripts *)

\* A step that neither writes nor removes artifacts keeps what is known of them.
LEMMA ArtifactsUntouched ==
    ASSUME ArtifactsSound, UNCHANGED mfArtifacts
    PROVE  ArtifactsSound'
  BY DEF ArtifactsSound

\* Without a script nothing is claimed about one.
LEMMA ScriptEnds ==
    ASSUME mfScript' = NoScript
    PROVE  /\ ExportRendered' /\ TrainingTraceable' /\ EvaluationFree'
           /\ mfScript' = [step |-> mfScript'.step, kind |-> mfScript'.kind,
                           data |-> mfScript'.data, sources |-> mfScript'.sources,
                           records |-> mfScript'.records]
           /\ mfScript'.step = "none"
<1>1. mfScript'.step = "none"
  BY DEF NoScript
<1>2. mfScript' = [step |-> mfScript'.step, kind |-> mfScript'.kind,
                   data |-> mfScript'.data, sources |-> mfScript'.sources,
                   records |-> mfScript'.records]
  BY DEF NoScript
<1> QED
  BY <1>1, <1>2 DEF ExportRendered, TrainingTraceable, EvaluationFree, ExportSteps, TrainingSteps

\* What an export renders ends with the player files it counts the records of.
LEMMA RenderedEndsWithPlayers ==
    ASSUME NEW kind \in GatedExports
    PROVE  Rendered(kind).whole /\ NewestIn(Rendered(kind).content) = mfPlayers
<1>1. CASE kind = "player"
  <2>1. Rendered(kind).content = <<mfCsv["base"], mfPlayers>> /\ Rendered(kind).whole
    BY <1>1 DEF Rendered, PlayerRows
  <2> QED BY <2>1 DEF NewestIn
<1>2. CASE kind = "tactical"
  <2>1. Rendered(kind).content = <<mfCsv["player"], mfImport, mfPlayers>> /\ Rendered(kind).whole
    BY <1>2 DEF Rendered, TacticalRows
  <2> QED BY <2>1 DEF NewestIn
<1> QED BY <1>1, <1>2 DEF GatedExports

\* The gate passes only a whole csv of covered player files, whose report names
\* what it was built from.
LEMMA GatePasses ==
    ASSUME FilesInv, NEW kind \in GatedExports, ReportMatches(kind), mfQuality[kind].trainable
    PROVE  /\ mfCsv[kind].whole
           /\ mfCsv[kind].content[Len(mfCsv[kind].content)] \in CoveredExports
           /\ mfQuality[kind].sources = mfCsv[kind].content
<1>1. /\ mfQuality[kind] \notin {NoReport, BrokenReport}
      /\ mfQuality[kind].of = mfCsv[kind]
  <2>1. /\ mfQuality[kind] # NoReport /\ mfCsv[kind] # BrokenCsv
        /\ mfQuality[kind].of = mfCsv[kind]
    BY Zenon DEF ReportMatches, ExportValid
  <2>2. BrokenReport.of = BrokenCsv
    BY DEF BrokenReport, NoReport
  <2> QED BY <2>1, <2>2
<1>2. Honest(mfQuality[kind])
  BY DEF FilesInv, ReportsHonest
<1>3. /\ mfCsv[kind].whole
      /\ mfQuality[kind].sources = mfCsv[kind].content
      /\ mfQuality[kind].records = {NewestIn(mfCsv[kind].content)}
  BY <1>1, <1>2, Zenon DEF Honest
<1>4. Coverage(kind, mfQuality[kind].records)
  BY Zenon DEF ReportMatches
<1>5. mfQuality[kind].records \subseteq CoveredExports
  <2>1. CASE kind = "player"
    BY <1>4, <2>1 DEF Coverage, AssessPlayerCoverage
  <2>2. CASE kind = "tactical"
    BY <1>4, <2>2 DEF Coverage, AssessTacticalCoverage
  <2> QED BY <2>1, <2>2 DEF GatedExports
<1> QED BY <1>3, <1>5 DEF NewestIn

\* A training whose gate accepts its data can name what it was trained on.
LEMMA AcceptedTraceable ==
    ASSUME FilesInv, NEW kind \in Models, TrainingAccepts(kind)
    PROVE  Traceable(kind, TrainingData(kind), RecordedSources(kind))
<1>1. CASE kind \in {"player", "ensemble"}
  <2>1. LoadPlayerImpactDataset /\ TrainingData(kind) = mfCsv["player"]
    BY <1>1 DEF TrainingAccepts, TrainingData
  <2>2. /\ mfCsv["player"].whole
        /\ mfCsv["player"].content[Len(mfCsv["player"].content)] \in CoveredExports
        /\ mfQuality["player"].sources = mfCsv["player"].content
    BY <2>1, GatePasses DEF LoadPlayerImpactDataset, GatedExports
  <2>3. kind = "player" => RecordedSources(kind) = mfQuality["player"].sources
    BY DEF RecordedSources
  <2> QED BY <1>1, <2>1, <2>2, <2>3, Zenon DEF Traceable
<1>2. CASE kind = "tactical"
  <2>1. LoadTacticalTrainingDataset /\ TrainingData(kind) = mfCsv["tactical"]
    BY <1>2 DEF TrainingAccepts, TrainingData
  <2>2. /\ mfCsv["tactical"].whole
        /\ mfCsv["tactical"].content[Len(mfCsv["tactical"].content)] \in CoveredExports
        /\ mfQuality["tactical"].sources = mfCsv["tactical"].content
    BY <2>1, GatePasses DEF LoadTacticalTrainingDataset, GatedExports
  <2>3. RecordedSources(kind) = mfQuality["tactical"].sources
    BY <1>2 DEF RecordedSources
  <2> QED BY <1>2, <2>1, <2>2, <2>3, Zenon DEF Traceable
<1>3. CASE kind = "statistics"
  <2>1. LoadStatisticsDataset /\ TrainingData(kind) = mfCsv["base"]
    BY <1>3 DEF TrainingAccepts, TrainingData
  <2>2. RecordedSources(kind) = <<mfImport>> /\ <<mfImport>>[1] = mfImport
    BY <1>3 DEF RecordedSources
  <2> QED BY <1>3, <2>1, <2>2, Zenon DEF Traceable, LoadStatisticsDataset
<1>4. CASE kind \notin {"player", "ensemble", "tactical", "statistics"}
  BY <1>4 DEF Traceable
<1> QED BY <1>1, <1>2, <1>3, <1>4

-----------------------------------------------------------------------------
(* The steps of a script *)

\* An export renders its data before it writes any of it.
LEMMA BeginExportStep ==
    ASSUME FilesInv, NEW kind \in Exports, NEW force \in BOOLEAN, BeginExport(kind, force)
    PROVE  FilesInv'
<1>1. /\ mfScript' = [step |-> "csv", kind |-> kind, data |-> Rendered(kind),
                      sources |-> <<>>, records |-> {mfPlayers}]
      /\ UNCHANGED <<mfImport, mfPlayers, mfCsv, mfQuality, mfArtifacts, mfFaults>>
  BY DEF BeginExport
<1>2. /\ mfScript'.step = "csv" /\ mfScript'.kind = kind /\ mfScript'.data = Rendered(kind)
      /\ mfScript'.records = {mfPlayers}
  BY <1>1
<1>3. FilesShape'
  BY <1>1 DEF FilesInv, FilesShape, ExportSteps
<1>4. ExportRendered'
  <2>1. Rendered(kind).whole
    BY DEF Rendered
  <2>2. kind \in GatedExports => NewestIn(Rendered(kind).content) = mfPlayers
    BY RenderedEndsWithPlayers
  <2> HIDE DEF Rendered
  <2> QED BY <1>2, <2>1, <2>2, Zenon DEF ExportRendered, NewestIn
<1>5. ReportsHonest' /\ ArtifactsSound'
  BY <1>1, ArtifactsUntouched DEF FilesInv, ReportsHonest
<1>6. TrainingTraceable' /\ EvaluationFree'
  BY <1>2 DEF TrainingTraceable, EvaluationFree, TrainingSteps
<1> QED BY <1>3, <1>4, <1>5, <1>6 DEF FilesInv

LEMMA WriteCsvStep ==
    ASSUME FilesInv, NEW kind \in Exports, WriteCsv(kind)
    PROVE  FilesInv'
<1>1. /\ mfScript.step = "csv"
      /\ mfCsv' = [mfCsv EXCEPT ![kind] = mfScript.data]
      /\ mfScript' = [mfScript EXCEPT !.step = "report"]
      /\ UNCHANGED <<mfImport, mfPlayers, mfQuality, mfArtifacts, mfFaults>>
  BY DEF WriteCsv
<1>2. FilesShape
  BY DEF FilesInv
<1>3. mfScript' = [step |-> "report", kind |-> mfScript.kind, data |-> mfScript.data,
                   sources |-> mfScript.sources, records |-> mfScript.records]
  BY <1>1, <1>2 DEF FilesShape
<1>4. /\ mfScript'.step = "report" /\ mfScript'.kind = mfScript.kind
      /\ mfScript'.data = mfScript.data /\ mfScript'.records = mfScript.records
  BY <1>3
<1>5. FilesShape'
  <2>1. mfCsv' = [k \in Exports |-> mfCsv'[k]]
    BY <1>1, <1>2 DEF FilesShape
  <2> QED BY <1>1, <1>2, <1>3, <2>1 DEF FilesShape, ExportSteps
<1>6. ExportRendered'
  <2>1. ExportRendered /\ mfScript.step \in ExportSteps
    BY <1>1 DEF FilesInv, ExportSteps
  <2> QED BY <1>4, <2>1, Zenon DEF ExportRendered, NewestIn
<1>7. ReportsHonest' /\ ArtifactsSound'
  BY <1>1, ArtifactsUntouched DEF FilesInv, ReportsHonest
<1>8. TrainingTraceable' /\ EvaluationFree'
  BY <1>4 DEF TrainingTraceable, EvaluationFree, TrainingSteps
<1> QED BY <1>5, <1>6, <1>7, <1>8 DEF FilesInv

\* The report describes the data its own script rendered, not the csv on disk.
LEMMA WriteReportStep ==
    ASSUME FilesInv, NEW kind \in Exports, WriteQualityReport(kind)
    PROVE  FilesInv'
<1>1. /\ mfScript.step = "report" /\ mfScript.kind = kind
      /\ mfQuality' = [mfQuality EXCEPT ![kind] = Summary(kind, mfScript)]
      /\ mfScript' = NoScript
      /\ UNCHANGED <<mfImport, mfPlayers, mfCsv, mfArtifacts, mfFaults>>
  BY DEF WriteQualityReport
<1>2. FilesShape
  BY DEF FilesInv
<1>3. ReportsHonest'
  <2> SUFFICES ASSUME NEW k \in GatedExports PROVE Honest(mfQuality'[k])
    BY Zenon DEF ReportsHonest, Honest
  <2>1. CASE k = kind
    <3> DEFINE report == Summary(kind, mfScript)
    <3>1. /\ report.of = mfScript.data /\ report.sources = mfScript.data.content
          /\ report.records = mfScript.records
      BY DEF Summary
    <3>2. /\ mfScript.data.whole
          /\ mfScript.records = {NewestIn(mfScript.data.content)}
      BY <1>1, <2>1, Zenon DEF FilesInv, ExportRendered, ExportSteps
    <3>3. mfQuality'[k] = report
      BY <1>1, <1>2, <2>1 DEF FilesShape
    <3> HIDE DEF report
    <3> QED BY <3>1, <3>2, <3>3, Zenon DEF Honest
  <2>2. CASE k # kind
    <3>1. mfQuality'[k] = mfQuality[k]
      BY <1>1, <1>2, <2>2 DEF FilesShape, GatedExports, Exports
    <3> QED BY <3>1, Zenon DEF FilesInv, ReportsHonest
  <2> QED BY <2>1, <2>2
<1>4. FilesShape'
  <2>1. mfQuality' = [k \in Exports |-> mfQuality'[k]]
    <3> HIDE DEF Summary
    <3> QED BY <1>1, <1>2 DEF FilesShape
  <2> QED BY <1>1, <1>2, <2>1, ScriptEnds DEF FilesShape
<1>5. ArtifactsSound'
  BY <1>1, ArtifactsUntouched DEF FilesInv
<1> QED BY <1>1, <1>3, <1>4, <1>5, ScriptEnds DEF FilesInv

\* A training starts behind its gate.
LEMMA BeginTrainingStep ==
    ASSUME FilesInv, NEW kind \in Models, BeginTraining(kind)
    PROVE  FilesInv'
<1>1. /\ TrainingAccepts(kind)
      /\ mfScript' = [step |-> "model", kind |-> kind, data |-> TrainingData(kind),
                      sources |-> RecordedSources(kind), records |-> {}]
      /\ UNCHANGED <<mfImport, mfPlayers, mfCsv, mfQuality, mfArtifacts, mfFaults>>
  BY DEF BeginTraining
<1>2. /\ mfScript'.step = "model" /\ mfScript'.kind = kind
      /\ mfScript'.data = TrainingData(kind) /\ mfScript'.sources = RecordedSources(kind)
  BY <1>1
<1>3. Traceable(kind, TrainingData(kind), RecordedSources(kind))
  BY <1>1, AcceptedTraceable
<1>4. TrainingTraceable'
  BY <1>2, <1>3, Zenon DEF TrainingTraceable, Traceable
<1>5. FilesShape'
  BY <1>1 DEF FilesInv, FilesShape, TrainingSteps
<1>6. ReportsHonest' /\ ArtifactsSound'
  BY <1>1, ArtifactsUntouched DEF FilesInv, ReportsHonest
<1>7. ExportRendered' /\ EvaluationFree'
  BY <1>2 DEF ExportRendered, EvaluationFree, ExportSteps
<1> QED BY <1>4, <1>5, <1>6, <1>7 DEF FilesInv

\* Every training script writes the version its kind determines.
LEMMA WritesItsVersion ==
    ASSUME \/ WriteEloArtifacts \/ WriteGoalArtifacts \/ WriteTabularArtifacts
           \/ WriteEnsembleArtifacts \/ WriteStatisticsArtifacts
           \/ WritePlayerArtifacts \/ WriteTacticalArtifacts
    PROVE  \/ WriteModel(ScriptVersion) \/ WriteEvaluation(ScriptVersion)
           \/ TornWrite(ScriptVersion)
  BY DEF WriteEloArtifacts, WriteGoalArtifacts, WriteTabularArtifacts, WriteEnsembleArtifacts,
     WriteStatisticsArtifacts, WritePlayerArtifacts, WriteTacticalArtifacts, WriteArtifacts,
     EloVersion, GoalVersion, TabularVersion, EnsembleVersion, StatisticsVersion,
     PlayerVersion, TacticalVersion, ScriptVersion

\* The artifact a script puts is as traceable as the script, and replaces only
\* those of its own version.
LEMMA PutSound ==
    ASSUME ArtifactsSound, NEW model \in {"whole", "torn"},
           NEW evaluation \in {"none", "torn", "whole"},
           evaluation # "none" => model = "whole",
           Traceable(mfScript.kind, mfScript.data, mfScript.sources),
           PutArtifact(ScriptVersion, model, evaluation)
    PROVE  ArtifactsSound'
<1> DEFINE new == [version |-> ScriptVersion, sources |-> mfScript.sources,
                   model |-> model, evaluation |-> evaluation]
<1>1. \A a \in mfArtifacts' : a \in mfArtifacts \/ a = new
  BY DEF PutArtifact
<1>2. /\ new.version.kind = mfScript.kind /\ new.version.data = mfScript.data
      /\ new.sources = mfScript.sources /\ new.model = model /\ new.evaluation = evaluation
  BY DEF ScriptVersion, Version
<1> HIDE DEF new
<1>3. Traceable(new.version.kind, new.version.data, new.sources)
  BY <1>2
<1>4. \A a \in mfArtifacts' : /\ Traceable(a.version.kind, a.version.data, a.sources)
                              /\ a.evaluation # "none" => a.model = "whole"
  BY <1>1, <1>2, <1>3, Zenon DEF ArtifactsSound
<1> QED BY <1>4, Zenon DEF ArtifactsSound, Traceable

\* One write of a training script, whole or torn.
LEMMA WriteArtifactStep ==
    ASSUME FilesInv,
           \/ WriteModel(ScriptVersion) \/ WriteEvaluation(ScriptVersion)
           \/ TornWrite(ScriptVersion)
    PROVE  FilesInv'
<1>1. UNCHANGED <<mfImport, mfPlayers, mfCsv, mfQuality>>
  BY DEF WriteModel, WriteEvaluation, TornWrite
<1>2. FilesShape /\ mfFaults' \in 0..MaxFaults /\ ArtifactsSound
  BY ModelFilesAssumption DEF FilesInv, FilesShape, WriteModel, WriteEvaluation, TornWrite
<1>3. ReportsHonest'
  BY <1>1 DEF FilesInv, ReportsHonest
<1>4. mfScript.step \in TrainingSteps => Traceable(mfScript.kind, mfScript.data, mfScript.sources)
  BY DEF FilesInv, TrainingTraceable
<1>5. CASE mfScript' = NoScript
  <2>1. ArtifactsSound'
    <3>1. CASE UNCHANGED mfArtifacts
      BY <1>2, <3>1, ArtifactsUntouched
    <3>2. CASE mfArtifacts' # mfArtifacts
      <4>1. \E model \in {"whole", "torn"}, evaluation \in {"none", "torn", "whole"} :
              /\ evaluation # "none" => model = "whole"
              /\ PutArtifact(ScriptVersion, model, evaluation)
              /\ mfScript.step \in TrainingSteps
        BY <1>2, <1>5, <3>2
        DEF WriteModel, WriteEvaluation, TornWrite, TrainingSteps, FilesShape, NoScript
      <4> QED BY <1>2, <1>4, <4>1, PutSound
    <3> QED BY <3>1, <3>2
  <2>2. FilesShape'
    BY <1>1, <1>2, <1>5, ScriptEnds DEF FilesShape
  <2> QED BY <1>3, <1>5, <2>1, <2>2, ScriptEnds DEF FilesInv
<1>6. CASE mfScript' # NoScript
  <2>1. /\ mfScript.step = "model" /\ VersionFree(ScriptVersion)
        /\ PutArtifact(ScriptVersion, "whole", "none")
        /\ mfScript' = [mfScript EXCEPT !.step = "evaluation"]
    BY <1>6 DEF WriteModel, WriteEvaluation, TornWrite
  <2>2. mfScript' = [step |-> "evaluation", kind |-> mfScript.kind, data |-> mfScript.data,
                     sources |-> mfScript.sources, records |-> mfScript.records]
    BY <1>2, <2>1 DEF FilesShape
  <2>3. /\ mfScript'.step = "evaluation" /\ mfScript'.kind = mfScript.kind
        /\ mfScript'.data = mfScript.data /\ mfScript'.sources = mfScript.sources
    BY <2>2
  <2>4. ArtifactsSound'
    BY <1>2, <1>4, <2>1, PutSound DEF TrainingSteps
  <2>5. FilesShape'
    BY <1>1, <1>2, <2>2 DEF FilesShape, TrainingSteps
  <2>6. TrainingTraceable'
    BY <1>4, <2>1, <2>3, Zenon DEF TrainingTraceable, TrainingSteps, Traceable
  <2>7. EvaluationFree'
    <3>1. ScriptVersion' = ScriptVersion
      BY <2>3 DEF ScriptVersion, Version
    <3>2. \A a \in mfArtifacts' : a.version = ScriptVersion => a.evaluation = "none"
      BY <2>1 DEF PutArtifact, VersionFree
    <3> QED BY <3>1, <3>2 DEF EvaluationFree
  <2>8. ExportRendered'
    BY <2>3 DEF ExportRendered, ExportSteps
  <2> QED BY <1>3, <2>4, <2>5, <2>6, <2>7, <2>8 DEF FilesInv
<1> QED BY <1>5, <1>6

\* A crash leaves a torn csv, a broken report or nothing, and no script.
LEMMA CrashStep ==
    ASSUME FilesInv, Crash
    PROVE  FilesInv'
<1>1. /\ mfScript' = NoScript
      /\ mfFaults < MaxFaults /\ mfFaults' = mfFaults + 1
      /\ UNCHANGED <<mfImport, mfPlayers, mfArtifacts>>
  BY DEF Crash
<1>2. FilesShape
  BY DEF FilesInv
<1>3. /\ mfCsv' = [k \in Exports |-> mfCsv'[k]]
      /\ mfQuality' = [k \in Exports |-> mfQuality'[k]]
      /\ \A k \in Exports : mfQuality'[k] \in {mfQuality[k], BrokenReport}
  <2> HIDE DEF BrokenReport
  <2> QED BY <1>2 DEF Crash, FilesShape
<1>4. mfFaults' \in 0..MaxFaults
  BY <1>1, <1>2, ModelFilesAssumption DEF FilesShape
<1>5. FilesShape'
  BY <1>1, <1>2, <1>3, <1>4, ScriptEnds DEF FilesShape
<1>6. ReportsHonest'
  <2> SUFFICES ASSUME NEW k \in GatedExports PROVE Honest(mfQuality'[k])
    BY Zenon DEF ReportsHonest, Honest
  <2>1. Honest(mfQuality[k])
    BY DEF FilesInv, ReportsHonest
  <2>2. mfQuality'[k] = mfQuality[k] \/ mfQuality'[k] = BrokenReport
    BY <1>3 DEF GatedExports, Exports
  <2> QED BY <2>1, <2>2, Zenon DEF Honest
<1>7. ArtifactsSound'
  BY <1>1, ArtifactsUntouched DEF FilesInv
<1> QED BY <1>1, <1>5, <1>6, <1>7, ScriptEnds DEF FilesInv

\* New sources reach no report and no artifact by themselves.
LEMMA ReplaceStep ==
    ASSUME FilesInv, ReplaceSources
    PROVE  FilesInv'
<1>1. /\ mfScript = NoScript /\ mfScript' = NoScript
      /\ mfImport' \in Imports /\ mfPlayers' \in PlayerExports
      /\ mfFaults < MaxFaults /\ mfFaults' = mfFaults + 1
      /\ UNCHANGED <<mfCsv, mfQuality, mfArtifacts>>
  BY DEF ReplaceSources
<1>2. FilesShape
  BY DEF FilesInv
<1>3. mfFaults' \in 0..MaxFaults
  BY <1>1, <1>2, ModelFilesAssumption DEF FilesShape
<1>4. FilesShape'
  BY <1>1, <1>2, <1>3, ScriptEnds DEF FilesShape
<1>5. ReportsHonest' /\ ArtifactsSound'
  BY <1>1, ArtifactsUntouched DEF FilesInv, ReportsHonest
<1> QED BY <1>1, <1>4, <1>5, ScriptEnds DEF FilesInv

-----------------------------------------------------------------------------
(* The specification of the files *)

LEMMA FilesStart == ModelFilesInit => FilesInv
<1> SUFFICES ASSUME ModelFilesInit PROVE FilesInv
  OBVIOUS
<1>1. /\ mfImport \in Imports /\ mfPlayers \in PlayerExports
      /\ mfCsv = [k \in Exports |-> NoCsv] /\ mfQuality = [k \in Exports |-> NoReport]
      /\ mfScript = NoScript /\ mfArtifacts = {} /\ mfFaults = 0
  BY DEF ModelFilesInit, ModelFilesStart
<1>2. mfScript.step = "none"
  BY <1>1 DEF NoScript
<1>3. FilesShape
  <2>1. mfScript = [step |-> mfScript.step, kind |-> mfScript.kind, data |-> mfScript.data,
                    sources |-> mfScript.sources, records |-> mfScript.records]
    BY <1>1 DEF NoScript
  <2> QED BY <1>1, <1>2, <2>1, ModelFilesAssumption DEF FilesShape
<1>4. ReportsHonest
  BY <1>1 DEF ReportsHonest, Honest, GatedExports, Exports
<1>5. ArtifactsSound
  BY <1>1 DEF ArtifactsSound
<1> QED
  BY <1>2, <1>3, <1>4, <1>5
  DEF FilesInv, ExportRendered, TrainingTraceable, EvaluationFree, ExportSteps, TrainingSteps

LEMMA FilesStep == FilesInv /\ [ModelFilesNext]_modelFilesVars => FilesInv'
<1> SUFFICES ASSUME FilesInv, [ModelFilesNext]_modelFilesVars PROVE FilesInv'
  OBVIOUS
<1>1. ASSUME NEW kind \in Exports, WriteFeatureExport(kind) PROVE FilesInv'
  BY <1>1, BeginExportStep, WriteCsvStep, WriteReportStep DEF WriteFeatureExport
<1>2. CASE WritePrematchExport \/ WritePlayerExport \/ WriteTacticalExport
  BY <1>1, <1>2 DEF WritePrematchExport, WritePlayerExport, WriteTacticalExport, Exports
<1>3. CASE UNCHANGED modelFilesVars
  BY <1>3
  DEF modelFilesVars, FilesInv, FilesShape, ReportsHonest, ExportRendered, TrainingTraceable,
      EvaluationFree, ArtifactsSound, ScriptVersion, Version
<1>4. CASE \/ WriteEloArtifacts \/ WriteGoalArtifacts \/ WriteTabularArtifacts
           \/ WriteEnsembleArtifacts \/ WriteStatisticsArtifacts
           \/ WritePlayerArtifacts \/ WriteTacticalArtifacts
  BY <1>4, WritesItsVersion, WriteArtifactStep
<1>5. CASE Crash \/ ReplaceSources
  BY <1>5, CrashStep, ReplaceStep
<1>6. CASE \E k \in Models : BeginTraining(k)
  BY <1>6, BeginTrainingStep
<1> QED BY <1>2, <1>3, <1>4, <1>5, <1>6 DEF ModelFilesNext

\* Every file, whole or torn, and the script at work agree on what was read.
THEOREM FilesInvariance == ModelFilesSpec => []FilesInv
  BY FilesStart, FilesStep, PTL DEF ModelFilesSpec

\* However the sources are replaced and wherever a script dies: a player, tactical
\* or ensemble model was trained on a whole export of covered player files, and the
\* checksums a player or tactical model names are of the files its export was built
\* from (the report is matched against the csv, and its verdict recomputed).
THEOREM GatedTraceable == ModelFilesSpec => []GatedModelsTraceable
<1>1. FilesInv => GatedModelsTraceable
  BY Zenon DEF FilesInv, ArtifactsSound, Traceable, GatedModelsTraceable
<1> QED BY <1>1, FilesInvariance, PTL

\* A statistics model was trained on features and counts of the same fixtures, and
\* an evaluation, torn or whole, is only found beside the whole model it is of.
THEOREM EvaluationsSound == ModelFilesSpec => []EvaluationsDescribeModels
<1>1. FilesInv => EvaluationsDescribeModels
  BY Zenon DEF FilesInv, ArtifactsSound, Traceable, EvaluationsDescribeModels
<1> QED BY <1>1, FilesInvariance, PTL

\* A complete model is never changed or removed, and an evaluation never replaced:
\* scripts that run again on the same inputs find their version and end.
THEOREM WrittenOnce == ModelFilesSpec => ArtifactsWrittenOnce
<1> DEFINE Kept(a) == \E b \in mfArtifacts' :
                        /\ b.version = a.version /\ b.model = "whole"
                        /\ a.evaluation # "none" => b = a
<1>1. ASSUME FilesInv, [ModelFilesNext]_modelFilesVars, NEW a \in mfArtifacts, a.model = "whole"
      PROVE  Kept(a)
  <2>1. CASE a \in mfArtifacts'
    BY <1>1, <2>1
  <2>2. CASE a \notin mfArtifacts'
    <3>1. mfArtifacts' # mfArtifacts
      BY <1>1, <2>2
    <3>2. \/ WriteModel(ScriptVersion) \/ WriteEvaluation(ScriptVersion)
          \/ TornWrite(ScriptVersion)
      <4>1. \/ WriteEloArtifacts \/ WriteGoalArtifacts \/ WriteTabularArtifacts
            \/ WriteEnsembleArtifacts \/ WriteStatisticsArtifacts
            \/ WritePlayerArtifacts \/ WriteTacticalArtifacts
        BY <1>1, <3>1
        DEF ModelFilesNext, modelFilesVars, WritePrematchExport, WritePlayerExport,
            WriteTacticalExport, WriteFeatureExport, BeginExport, WriteCsv, WriteQualityReport,
            BeginTraining, Crash, ReplaceSources
      <4> QED BY <4>1, WritesItsVersion
    <3>3. ~(VersionFree(ScriptVersion) /\ \E model, evaluation :
                                           PutArtifact(ScriptVersion, model, evaluation))
      BY <1>1, <2>2 DEF VersionFree, PutArtifact
    <3>4. /\ mfScript.step = "evaluation"
          /\ \E evaluation : PutArtifact(ScriptVersion, "whole", evaluation)
      BY <3>1, <3>2, <3>3 DEF WriteModel, WriteEvaluation, TornWrite
    <3>5. a.version = ScriptVersion
      BY <1>1, <2>2, <3>4 DEF PutArtifact
    <3>6. a.evaluation = "none"
      BY <1>1, <3>4, <3>5 DEF FilesInv, EvaluationFree
    <3>7. PICK evaluation : PutArtifact(ScriptVersion, "whole", evaluation)
      BY <3>4
    <3>8. \E b \in mfArtifacts' : b.version = ScriptVersion /\ b.model = "whole"
      <4> DEFINE b == [version |-> ScriptVersion, sources |-> mfScript.sources,
                       model |-> "whole", evaluation |-> evaluation]
      <4>1. b \in mfArtifacts'
        BY <3>7 DEF PutArtifact
      <4> QED BY <4>1
    <3> QED BY <3>5, <3>6, <3>8
  <2> QED BY <2>1, <2>2
<1>2. FilesInv /\ [ModelFilesNext]_modelFilesVars =>
        [\A a \in mfArtifacts : a.model = "whole" => Kept(a)]_modelFilesVars
  BY <1>1
<1> QED BY <1>2, FilesInvariance, PTL DEF ModelFilesSpec, ArtifactsWrittenOnce

-----------------------------------------------------------------------------
(* The walks: what they have absorbed                                       *)

Passes == Walks \cup {"load", "rejected", "done"}
Entry == {"result", "carry"} \X Int

\* A sequence, of whatever it holds.
IsSequence(s) == s \in Seq(ToSet(s))

Knows(file, known, records) ==
    known \in Seq(Entry) /\ AbsorbedInOrder(file, known, records)

\* The records that the walk has passed, and those of them it has absorbed.
Behind(records, pos) == {records[i] : i \in 1..(pos - 1)}
Absorbed == Behind(WalkRecords, mwPos) \ mwPending

PublicBefore(file, cutoff) == {r \in ToSet(file) : r.available < cutoff}

WalkTypeOK ==
    /\ mwFile \in Seq(Record)
    /\ mwPass \in Passes
    /\ mwKnown \in [elo : Seq(Entry), goals : Seq(Entry)]
    /\ mwRows = [w \in Walks |-> mwRows[w]]
    /\ \A w \in Walks : IsSequence(mwRows[w])

\* A walk has a dataset that keeps the contract; a training one has all seasons.
DatasetAccepted ==
    /\ mwPass \notin {"load", "rejected"} => ~FileRejected(mwFile)
    /\ mwPass \in Walks \ {"features"} => Len(SeasonsOf(mwFile)) = RequiredSeasons

\* Of the records behind it the walk has absorbed those that were public before
\* the last cutoff, and the heap holds the others.
HeapHoldsTheRest ==
    mwPass \in Walks =>
        /\ mwPos \in 1..(Len(WalkRecords) + 1)
        /\ mwPending \subseteq Behind(WalkRecords, mwPos)
        /\ mwPos > 1 => \A r \in Behind(WalkRecords, mwPos) :
             r \in mwPending <=> r.available >= WalkCutoff(WalkRecords[mwPos - 1])
        /\ \A m \in ModelsOf(mwPass) : Knows(mwFile, mwKnown[m], Absorbed)

RowsKnow ==
    /\ \A w \in Walks : \A row \in ToSet(mwRows[w]) : \A m \in ModelsOf(w) :
         Knows(mwFile, row.known[m], PublicBefore(mwFile, row.cutoff))
    /\ \A m \in {"elo", "goals"} : mwFinal[m] # <<>> => Knows(mwFile, mwFinal[m], ToSet(mwFile))

WalkInv == WalkTypeOK /\ DatasetAccepted /\ HeapHoldsTheRest /\ RowsKnow

\* What a walk needs of its records: they are in the order of their kickoffs,
\* and whatever was played before one of them comes before it.
Chronicle(records) ==
    /\ records \in Seq(ToSet(mwFile))
    /\ \A i, j \in DOMAIN records : i < j =>
         records[i].id # records[j].id /\ records[i].kickoff <= records[j].kickoff
    /\ \A x \in ToSet(mwFile), j \in DOMAIN records :
         x.kickoff < records[j].kickoff => \E i \in 1..(j - 1) : records[i] = x

-----------------------------------------------------------------------------
(* The seasons of a dataset                                                 *)

SeasonStep(a, b, seen, r) ==
    IF Contains(seen, r.season) THEN seen ELSE Append(seen, r.season)

\* The seasons of the first k records, each before those that begin later.
SeasonsMet(file, k, seen) ==
    /\ seen \in Seq(Nat)
    /\ \A i \in 1..Len(seen) : \E a \in 1..k : file[a].season = seen[i]
    /\ \A a \in 1..k : \E i \in 1..Len(seen) : seen[i] = file[a].season
    /\ \A i, j \in 1..Len(seen) : i < j =>
         \E a \in 1..k : /\ file[a].season = seen[i]
                        /\ \A b \in 1..a : file[b].season # seen[j]

SeasonRows == INSTANCE Folding WITH Step <- SeasonStep, Keeps <- SeasonsMet

LEMMA RecordFacts ==
    ASSUME NEW file \in Seq(Record), NEW i \in 1..Len(file)
    PROVE  /\ file[i] \in Record /\ file[i].season \in Nat \ {0} /\ file[i].id \in Int
           /\ file[i].kickoff \in Int /\ file[i].available \in Int
<1>1. file[i] \in Record
  BY ElementOfSeq
<1> QED BY <1>1 DEF Record

LEMMA SeasonMet ==
    ASSUME NEW file \in Seq(Record), NEW k \in 1..Len(file), NEW seen,
           SeasonsMet(file, k - 1, seen)
    PROVE  SeasonsMet(file, k, SeasonStep(0, 0, seen, file[k]))
<1> DEFINE season == file[k].season
<1>1. /\ k \in Nat /\ 1..(k - 1) \subseteq 1..k /\ 1..k = 1..(k - 1) \cup {k} /\ season \in Nat
  BY RecordFacts, LenProperties
<1>2. /\ seen \in Seq(Nat) /\ Len(seen) \in Nat
      /\ \A i \in 1..Len(seen) : \E a \in 1..(k - 1) : file[a].season = seen[i]
      /\ \A a \in 1..(k - 1) : \E i \in 1..Len(seen) : seen[i] = file[a].season
      /\ \A i, j \in 1..Len(seen) : i < j =>
           \E a \in 1..(k - 1) : /\ file[a].season = seen[i]
                                /\ \A b \in 1..a : file[b].season # seen[j]
  BY LenProperties DEF SeasonsMet
<1>3. CASE Contains(seen, season)
  <2>1. SeasonStep(0, 0, seen, file[k]) = seen
    BY <1>3 DEF SeasonStep
  <2>2. \E i \in 1..Len(seen) : seen[i] = season
    BY <1>3 DEF Contains
  <2>3. \A a \in 1..k : \E i \in 1..Len(seen) : seen[i] = file[a].season
    BY <1>1, <1>2, <2>2
  <2>4. \A i \in 1..Len(seen) : \E a \in 1..k : file[a].season = seen[i]
    BY <1>1, <1>2
  <2>5. ASSUME NEW i \in 1..Len(seen), NEW j \in 1..Len(seen), i < j
        PROVE  \E a \in 1..k : /\ file[a].season = seen[i]
                              /\ \A b \in 1..a : file[b].season # seen[j]
    <3>1. PICK a \in 1..(k - 1) : /\ file[a].season = seen[i]
                                /\ \A b \in 1..a : file[b].season # seen[j]
      BY <1>2, <2>5
    <3>2. a \in 1..k
      BY <1>1
    <3> QED BY <3>1, <3>2, Zenon
  <2> HIDE DEF season
  <2>6. SeasonsMet(file, k, seen)
    BY <1>2, <2>3, <2>4, <2>5 DEF SeasonsMet
  <2> QED BY <2>1, <2>6
<1>4. CASE ~Contains(seen, season)
  <2> DEFINE more == Append(seen, season)
             n == Len(seen)
  <2>1. SeasonStep(0, 0, seen, file[k]) = more
    BY <1>4 DEF SeasonStep
  <2>2. \A i \in 1..n : seen[i] # season
    BY <1>4 DEF Contains
  <2>3. /\ more \in Seq(Nat) /\ Len(more) = n + 1 /\ more[n + 1] = season
        /\ \A i \in 1..n : more[i] = seen[i]
    BY <1>1, <1>2, AppendProperties
  <2>4. n \in Nat /\ 1..(n + 1) = 1..n \cup {n + 1}
    BY <1>2
  <2> HIDE DEF more, n, season
  <2>5. ASSUME NEW i \in 1..(n + 1) PROVE \E a \in 1..k : file[a].season = more[i]
    <3>1. CASE i \in 1..n
      <4>1. PICK a \in 1..(k - 1) : file[a].season = seen[i]
        BY <1>2, <3>1 DEF n
      <4> QED BY <1>1, <2>3, <3>1, <4>1
    <3>2. CASE i = n + 1
      BY <1>1, <2>3, <3>2 DEF season
    <3> QED BY <2>4, <3>1, <3>2
  <2>6. ASSUME NEW a \in 1..k PROVE \E i \in 1..(n + 1) : more[i] = file[a].season
    <3>1. CASE a \in 1..(k - 1)
      <4>1. PICK i \in 1..n : seen[i] = file[a].season
        BY <1>2, <3>1 DEF n
      <4> QED BY <2>3, <2>4, <4>1
    <3>2. CASE a = k
      <4>1. n + 1 \in 1..(n + 1) /\ more[n + 1] = file[a].season
        BY <2>3, <2>4, <3>2 DEF season
      <4> QED BY <4>1
    <3> QED BY <1>1, <3>1, <3>2
  <2>7. ASSUME NEW i \in 1..(n + 1), NEW j \in 1..(n + 1), i < j
        PROVE  \E a \in 1..k : /\ file[a].season = more[i]
                              /\ \A b \in 1..a : file[b].season # more[j]
    <3>1. i \in 1..n
      BY <2>4, <2>7
    <3>2. CASE j \in 1..n
      <4>1. PICK a \in 1..(k - 1) : /\ file[a].season = seen[i]
                                  /\ \A b \in 1..a : file[b].season # seen[j]
        BY <1>2, <2>7, <3>1, <3>2 DEF n
      <4> QED BY <1>1, <2>3, <3>1, <3>2, <4>1
    <3>3. CASE j = n + 1
      <4>1. PICK a \in 1..(k - 1) : file[a].season = seen[i]
        BY <1>2, <3>1 DEF n
      <4>2. ASSUME NEW b \in 1..a PROVE file[b].season # more[j]
        <5>1. b \in 1..(k - 1)
          BY <1>1, <4>1
        <5>2. PICK c \in 1..n : seen[c] = file[b].season
          BY <1>2, <5>1 DEF n
        <5> QED BY <2>2, <2>3, <3>3, <5>2
      <4>3. a \in 1..k /\ file[a].season = more[i]
        BY <1>1, <2>3, <3>1, <4>1
      <4> QED BY <4>2, <4>3
    <3> QED BY <2>4, <3>2, <3>3
  <2>8. SeasonsMet(file, k, more)
    BY <2>3, <2>5, <2>6, <2>7 DEF SeasonsMet
  <2> QED BY <2>1, <2>8
<1> QED BY <1>3, <1>4

\* The seasons of a dataset, in the order in which they begin.
LEMMA SeasonsFound ==
    ASSUME NEW file \in Seq(Record)
    PROVE  SeasonsMet(file, Len(file), SeasonsOf(file))
<1>1. SeasonsOf(file) = SeasonRows!Folded(0, 0, <<>>, file)
  BY Zenon DEF SeasonsOf, SeasonStep, SeasonRows!Folded, SeasonRows!FoldLeft,
               SeasonRows!MapThenFoldSet, SeasonRows!Max, FoldLeft, MapThenFoldSet, Max
<1>2. SeasonsMet(file, 0, <<>>)
  BY EmptySeq DEF SeasonsMet
<1> DEFINE n == Len(file)
<1>3. n \in Nat /\ DOMAIN file = 1..n
  BY LenProperties
<1>4. \A k \in 1..n : \A seen :
        SeasonsMet(file, k - 1, seen) => SeasonsMet(file, k, SeasonStep(0, 0, seen, file[k]))
  BY SeasonMet
<1> HIDE DEF n
<1>5. SeasonsMet(file, n, SeasonRows!Folded(0, 0, <<>>, file))
  BY <1>2, <1>3, <1>4, SeasonRows!FoldKeeps
<1> QED BY <1>1, <1>5 DEF n

-----------------------------------------------------------------------------
(* The records through a season                                             *)

KeepStep(allowed, b, kept, r) == IF r.season \in allowed THEN Append(kept, r) ELSE kept

\* f finds the kept records among the first k of the file: all of the allowed
\* seasons, in their order.
Filters(file, allowed, k, kept, f) ==
    /\ f \in [1..Len(kept) -> 1..k]
    /\ \A i \in 1..Len(kept) : kept[i] = file[f[i]] /\ file[f[i]].season \in allowed
    /\ \A i, j \in 1..Len(kept) : i < j => f[i] < f[j]
    /\ \A a \in 1..k : file[a].season \in allowed => \E i \in 1..Len(kept) : f[i] = a

Filtered(g, k, kept) ==
    kept \in Seq(Record) /\ \E f : Filters(g.file, g.allowed, k, kept, f)

FilterRows == INSTANCE Folding WITH Step <- KeepStep, Keeps <- Filtered

LEMMA RecordKept ==
    ASSUME NEW file \in Seq(Record), NEW allowed, NEW g, g.file = file, g.allowed = allowed,
           NEW k \in 1..Len(file), NEW kept, Filtered(g, k - 1, kept)
    PROVE  Filtered(g, k, KeepStep(allowed, 0, kept, file[k]))
<1> DEFINE r == file[k]
           n == Len(kept)
<1>1. /\ k \in Nat /\ 1..(k - 1) \subseteq 1..k /\ 1..k = 1..(k - 1) \cup {k} /\ r \in Record
  BY RecordFacts, LenProperties
<1>2. kept \in Seq(Record) /\ n \in Nat
  BY LenProperties DEF Filtered
<1>3. PICK f : Filters(file, allowed, k - 1, kept, f)
  BY DEF Filtered
<1>4. CASE r.season \notin allowed
  <2>1. Filters(file, allowed, k, kept, f)
    <3>1. f \in [1..n -> 1..k]
      BY <1>1, <1>3 DEF Filters
    <3>2. \A a \in 1..k : file[a].season \in allowed => \E i \in 1..n : f[i] = a
      BY <1>1, <1>3, <1>4 DEF Filters
    <3> QED BY <1>3, <3>1, <3>2 DEF Filters
  <2> QED BY <1>2, <1>4, <2>1 DEF Filtered, KeepStep
<1>5. CASE r.season \in allowed
  <2> DEFINE more == Append(kept, r)
             h == [i \in 1..(n + 1) |-> IF i = n + 1 THEN k ELSE f[i]]
  <2>1. /\ more \in Seq(Record) /\ Len(more) = n + 1 /\ more[n + 1] = r
        /\ \A i \in 1..n : more[i] = kept[i]
    BY <1>1, <1>2, AppendProperties
  <2>2. 1..(n + 1) = 1..n \cup {n + 1} /\ n + 1 \notin 1..n
    BY <1>2
  <2>3. h[n + 1] = k /\ \A i \in 1..n : h[i] = f[i] /\ f[i] \in 1..(k - 1)
    BY <1>3, <2>2 DEF Filters
  <2>4. h \in [1..(n + 1) -> 1..k]
    BY <1>1, <2>2, <2>3
  <2>5. KeepStep(allowed, 0, kept, r) = more
    BY <1>5 DEF KeepStep
  <2> HIDE DEF more, h
  <2>6. ASSUME NEW i \in 1..(n + 1)
        PROVE  more[i] = file[h[i]] /\ file[h[i]].season \in allowed
    <3>1. CASE i \in 1..n
      <4>1. kept[i] = file[f[i]] /\ file[f[i]].season \in allowed
        BY <1>3, <3>1 DEF Filters
      <4>2. more[i] = kept[i] /\ h[i] = f[i]
        BY <2>1, <2>3, <3>1
      <4> QED BY <4>1, <4>2
    <3>2. CASE i = n + 1
      BY <1>5, <2>1, <2>3, <3>2
    <3> QED BY <2>2, <3>1, <3>2
  <2>7. ASSUME NEW i \in 1..(n + 1), NEW j \in 1..(n + 1), i < j
        PROVE  h[i] < h[j]
    <3>1. i \in 1..n
      BY <1>2, <2>2, <2>7
    <3>2. CASE j \in 1..n
      BY <1>3, <2>3, <2>7, <3>1, <3>2 DEF Filters
    <3>3. CASE j = n + 1
      BY <1>1, <2>3, <3>1, <3>3
    <3> QED BY <2>2, <3>2, <3>3
  <2>8. ASSUME NEW a \in 1..k, file[a].season \in allowed
        PROVE  \E i \in 1..(n + 1) : h[i] = a
    <3>1. CASE a \in 1..(k - 1)
      <4>1. PICK i \in 1..n : f[i] = a
        BY <1>3, <2>8, <3>1 DEF Filters
      <4> QED BY <2>2, <2>3, <4>1
    <3>2. CASE a = k
      BY <2>2, <2>3, <3>2
    <3> QED BY <1>1, <3>1, <3>2
  <2>9. Filters(file, allowed, k, more, h)
    BY <2>1, <2>4, <2>6, <2>7, <2>8 DEF Filters
  <2> QED BY <2>1, <2>5, <2>9 DEF Filtered
<1> QED BY <1>4, <1>5

\* The seasons up to one of those of the dataset.
SeasonsThrough(file, last) == {SeasonsOf(file)[i] : i \in 1..last}

LEMMA ThroughFiltered ==
    ASSUME NEW file \in Seq(Record), NEW season,
           NEW k \in 1..Len(SeasonsOf(file)), SeasonsOf(file)[k] = season
    PROVE  \E last \in 1..Len(SeasonsOf(file)) : \E f :
             /\ SeasonsOf(file)[last] = season
             /\ ThroughSeason(file, season) \in Seq(Record)
             /\ Filters(file, SeasonsThrough(file, last), Len(file),
                        ThroughSeason(file, season), f)
<1> DEFINE seasons == SeasonsOf(file)
           last == CHOOSE i \in DOMAIN seasons : seasons[i] = season
           allowed == {seasons[i] : i \in 1..last}
           g == [file |-> file, allowed |-> allowed]
           through == FilterRows!Folded(allowed, 0, <<>>, file)
           n == Len(file)
<1>1. ThroughSeason(file, season) = through
  BY Zenon DEF ThroughSeason, KeepStep, FilterRows!Folded, FilterRows!FoldLeft,
               FilterRows!MapThenFoldSet, FilterRows!Max, FoldLeft, MapThenFoldSet, Max
<1>2. last \in 1..Len(seasons) /\ seasons[last] = season
  <2>1. seasons \in Seq(Nat)
    BY SeasonsFound DEF SeasonsMet
  <2>2. DOMAIN seasons = 1..Len(seasons)
    BY <2>1, LenProperties
  <2> QED BY <2>2
<1>3. n \in Nat /\ DOMAIN file = 1..n
  BY LenProperties
<1>4. g.file = file /\ g.allowed = allowed
  OBVIOUS
<1> HIDE DEF n, g, through
<1>5. Filtered(g, 0, <<>>)
  <2>1. <<>> \in Seq(Record) /\ Len(<<>>) = 0
    BY EmptySeq
  <2>2. Filters(file, allowed, 0, <<>>, [i \in 1..0 |-> i])
    BY <2>1 DEF Filters
  <2> QED BY <1>4, <2>1, <2>2 DEF Filtered
<1>6. \A k1 \in 1..n : \A kept :
        Filtered(g, k1 - 1, kept) => Filtered(g, k1, KeepStep(allowed, 0, kept, file[k1]))
  <2> HIDE DEF allowed
  <2> QED BY <1>4, RecordKept DEF n
<1>7. Filtered(g, n, through)
  <2> HIDE DEF allowed
  <2> QED BY <1>3, <1>5, <1>6, FilterRows!FoldKeeps DEF through
<1>8. allowed = SeasonsThrough(file, last)
  BY DEF SeasonsThrough
<1>9. through \in Seq(Record) /\ \E f : Filters(file, SeasonsThrough(file, last), n, through, f)
  BY <1>4, <1>7, <1>8 DEF Filtered
<1> QED BY <1>1, <1>2, <1>9 DEF n

-----------------------------------------------------------------------------
(* The records of a walk                                                    *)

LEMMA Accepted ==
    ASSUME NEW file \in Seq(Record), ~FileRejected(file)
    PROVE  /\ DOMAIN file = 1..Len(file) /\ Len(file) \in Nat /\ file # <<>>
           /\ \A i \in 1..Len(file) : file[i].kickoff < file[i].available
           /\ \A i, j \in 1..Len(file) : i # j => file[i].id # file[j].id
           /\ \A i, j \in 1..Len(file) : i < j => file[i].kickoff <= file[j].kickoff
           /\ \A i, j, k \in 1..Len(file) :
                i < j /\ j < k /\ file[i].season = file[k].season
                  => file[i].season = file[j].season
<1>1. DOMAIN file = 1..Len(file) /\ Len(file) \in Nat
  BY LenProperties
<1>2. /\ file # <<>> /\ ~SeasonReopened(file)
      /\ \A i \in 1..Len(file) : ~RecordInvalid(file[i])
      /\ \A i, j \in 1..Len(file) : i # j => file[i].id # file[j].id
      /\ \A i, j \in 1..Len(file) : i < j => Earlier(file[i], file[j])
  BY <1>1 DEF FileRejected
<1>3. \A i \in 1..Len(file) : file[i].kickoff < file[i].available
  BY <1>2, RecordFacts DEF RecordInvalid
<1>4. \A i, j \in 1..Len(file) : i < j => file[i].kickoff <= file[j].kickoff
  BY <1>2, RecordFacts DEF Earlier
<1>5. \A i, j, k \in 1..Len(file) :
        i < j /\ j < k /\ file[i].season = file[k].season => file[i].season = file[j].season
  BY <1>1, <1>2 DEF SeasonReopened
<1> QED BY <1>1, <1>2, <1>3, <1>4, <1>5

LEMMA FileChronicle ==
    ASSUME mwFile \in Seq(Record), ~FileRejected(mwFile)
    PROVE  Chronicle(mwFile)
<1>1. /\ DOMAIN mwFile = 1..Len(mwFile) /\ Len(mwFile) \in Nat
      /\ \A i, j \in 1..Len(mwFile) : i # j => mwFile[i].id # mwFile[j].id
      /\ \A i, j \in 1..Len(mwFile) : i < j => mwFile[i].kickoff <= mwFile[j].kickoff
      /\ \A i \in 1..Len(mwFile) : mwFile[i].kickoff \in Int
  BY Accepted, RecordFacts
<1>2. mwFile \in Seq(ToSet(mwFile))
  <2>1. mwFile \in [1..Len(mwFile) -> ToSet(mwFile)]
    BY <1>1 DEF ToSet
  <2> QED BY <1>1, <2>1, SeqDef
<1>3. ASSUME NEW x \in ToSet(mwFile), NEW j \in DOMAIN mwFile, x.kickoff < mwFile[j].kickoff
      PROVE  \E i \in 1..(j - 1) : mwFile[i] = x
  <2>1. PICK i \in 1..Len(mwFile) : mwFile[i] = x
    BY <1>1 DEF ToSet
  <2>2. i \in Int /\ j \in Int /\ 1 <= i
    BY <1>1
  <2>3. i < j
    <3>1. CASE j < i
      <4>1. mwFile[j].kickoff <= mwFile[i].kickoff
        BY <1>1, <3>1
      <4>2. mwFile[j].kickoff \in Int /\ mwFile[i].kickoff \in Int
        BY <1>1
      <4> QED BY <1>3, <2>1, <4>1, <4>2
    <3>2. CASE j = i
      <4>1. mwFile[i].kickoff \in Int
        BY <1>1
      <4> QED BY <1>3, <2>1, <3>2, <4>1
    <3> QED BY <2>2, <3>1, <3>2
  <2> QED BY <2>1, <2>2, <2>3
<1>4. \A i, j \in DOMAIN mwFile : i < j => mwFile[i].id # mwFile[j].id
  BY <1>1
<1> QED BY <1>1, <1>2, <1>3, <1>4 DEF Chronicle

\* Whatever comes before a record of the allowed seasons is of an allowed season.
LEMMA AllowedBefore ==
    ASSUME NEW file \in Seq(Record), ~FileRejected(file),
           NEW last \in 1..Len(SeasonsOf(file)),
           NEW b \in 1..Len(file), file[b].season \in SeasonsThrough(file, last),
           NEW a \in 1..Len(file), a < b
    PROVE  file[a].season \in SeasonsThrough(file, last)
<1> DEFINE seasons == SeasonsOf(file)
<1>1. PICK q \in 1..last : seasons[q] = file[b].season
  BY DEF SeasonsThrough
<1>2. /\ seasons \in Seq(Nat)
      /\ \A k \in 1..Len(file) : \E i \in 1..Len(seasons) : seasons[i] = file[k].season
      /\ \A i, j \in 1..Len(seasons) : i < j =>
           \E k \in 1..Len(file) : /\ file[k].season = seasons[i]
                                /\ \A m \in 1..k : file[m].season # seasons[j]
  BY SeasonsFound DEF SeasonsMet
<1>3. PICK p \in 1..Len(seasons) : seasons[p] = file[a].season
  BY <1>2
<1>4. Len(seasons) \in Nat
  BY <1>2, LenProperties
<1> HIDE DEF seasons
<1>5. q \in 1..Len(seasons)
  BY <1>1, <1>4 DEF seasons
<1>6. CASE q < p
  <2>1. PICK c \in 1..Len(file) : /\ file[c].season = seasons[q]
                               /\ \A m \in 1..c : file[m].season # seasons[p]
    BY <1>2, <1>5, <1>6
  <2>2. c < a
    <3> SUFFICES ASSUME a <= c PROVE FALSE
      BY <2>1
    <3>1. a \in 1..c
      OBVIOUS
    <3> QED BY <1>3, <2>1, <3>1
  <2>3. file[c].season = file[a].season
    BY <1>1, <2>1, <2>2, Accepted
  <2>4. c \in 1..c
    OBVIOUS
  <2> QED BY <1>3, <2>1, <2>3, <2>4
<1>7. CASE p <= q
  <2>1. p \in 1..last
    BY <1>7
  <2> QED BY <1>3, <2>1 DEF SeasonsThrough, seasons
<1> QED BY <1>5, <1>6, <1>7

LEMMA ThroughChronicle ==
    ASSUME mwFile \in Seq(Record), ~FileRejected(mwFile),
           NEW season, NEW k \in 1..Len(SeasonsOf(mwFile)), SeasonsOf(mwFile)[k] = season
    PROVE  Chronicle(ThroughSeason(mwFile, season)) /\ ThroughSeason(mwFile, season) \in Seq(Record)
<1> DEFINE kept == ThroughSeason(mwFile, season)
           n == Len(kept)
           all == Len(mwFile)
<1>0. PICK last \in 1..Len(SeasonsOf(mwFile)) :
        \E f : /\ kept \in Seq(Record)
               /\ Filters(mwFile, SeasonsThrough(mwFile, last), all, kept, f)
  BY ThroughFiltered
<1> HIDE DEF kept
<1>1. PICK f : kept \in Seq(Record) /\ Filters(mwFile, SeasonsThrough(mwFile, last), all, kept, f)
  BY <1>0
<1>2. n \in Nat /\ DOMAIN kept = 1..n
  BY <1>1, LenProperties
<1>3. /\ \A i \in 1..n : /\ f[i] \in 1..all /\ kept[i] = mwFile[f[i]]
                         /\ mwFile[f[i]].season \in SeasonsThrough(mwFile, last)
      /\ \A i, j \in 1..n : i < j => f[i] < f[j]
      /\ \A a \in 1..all : mwFile[a].season \in SeasonsThrough(mwFile, last)
                             => \E i \in 1..n : f[i] = a
  BY <1>1 DEF Filters
<1>4. /\ DOMAIN mwFile = 1..all /\ all \in Nat
      /\ \A i, j \in 1..all : i # j => mwFile[i].id # mwFile[j].id
      /\ \A i, j \in 1..all : i < j => mwFile[i].kickoff <= mwFile[j].kickoff
      /\ \A i \in 1..all : mwFile[i].kickoff \in Int
  BY Accepted, RecordFacts
<1>5. kept \in Seq(ToSet(mwFile))
  <2>1. ASSUME NEW i \in 1..n PROVE kept[i] \in ToSet(mwFile)
    <3>1. PICK a \in 1..all : kept[i] = mwFile[a]
      BY <1>3
    <3>2. mwFile[a] \in ToSet(mwFile)
      BY <1>4 DEF ToSet
    <3> QED BY <3>1, <3>2
  <2>2. kept = [i \in 1..n |-> kept[i]]
    BY <1>1, <1>2, SeqDef
  <2>3. kept \in [1..n -> ToSet(mwFile)]
    BY <2>1, <2>2
  <2> HIDE DEF n
  <2> QED BY <1>2, <2>3, SeqDef
<1> HIDE DEF n, all
<1>6. ASSUME NEW i \in 1..n, NEW j \in 1..n, i < j
      PROVE  kept[i].id # kept[j].id /\ kept[i].kickoff <= kept[j].kickoff
  <2>1. PICK a, b : a = f[i] /\ b = f[j]
    OBVIOUS
  <2>2. a < b /\ a \in 1..all /\ b \in 1..all /\ kept[i] = mwFile[a] /\ kept[j] = mwFile[b]
    BY <1>3, <1>6, <2>1
  <2>3. a # b
    BY <1>4, <2>2
  <2>4. mwFile[a].id # mwFile[b].id /\ mwFile[a].kickoff <= mwFile[b].kickoff
    BY <1>4, <2>2, <2>3
  <2> QED BY <2>2, <2>4
<1>7. ASSUME NEW x \in ToSet(mwFile), NEW j \in 1..n, x.kickoff < kept[j].kickoff
      PROVE  \E i \in 1..(j - 1) : kept[i] = x
  <2>1. PICK a \in 1..all : mwFile[a] = x
    BY <1>4 DEF ToSet
  <2>2. f[j] \in 1..all /\ kept[j] = mwFile[f[j]]
    BY <1>3
  <2>3. a < f[j]
    <3> DEFINE b == f[j]
    <3>1. b \in 1..all /\ mwFile[a].kickoff < mwFile[b].kickoff
      BY <1>7, <2>1, <2>2
    <3> HIDE DEF b
    <3>2. a \in Int /\ b \in Int /\ mwFile[a].kickoff \in Int /\ mwFile[b].kickoff \in Int
      BY <1>4, <3>1
    <3>3. b < a => mwFile[b].kickoff <= mwFile[a].kickoff
      BY <1>4, <3>1
    <3>4. b # a
      BY <3>1, <3>2
    <3>5. ~(b < a)
      BY <3>1, <3>2, <3>3
    <3>6. a < b
      BY <3>2, <3>4, <3>5
    <3> QED BY <3>6 DEF b
  <2>4. mwFile[a].season \in SeasonsThrough(mwFile, last)
    BY <1>3, <2>2, <2>3, AllowedBefore DEF all
  <2>5. PICK i \in 1..n : f[i] = a
    BY <1>3, <2>4
  <2>6. i < j
    <3>1. i \in Int /\ j \in Int /\ f[i] \in Int /\ f[j] \in Int
      BY <1>2, <1>3, <1>4
    <3>2. j < i => f[j] < f[i]
      BY <1>3
    <3>3. i # j /\ ~(f[j] < f[i])
      BY <2>3, <2>5, <3>1
    <3> QED BY <3>1, <3>2, <3>3
  <2>7. i \in 1..(j - 1)
    BY <1>2, <2>6
  <2>8. kept[i] = x
    BY <1>3, <2>1, <2>5
  <2> QED BY <2>7, <2>8
<1>8. Chronicle(kept)
  BY <1>2, <1>5, <1>6, <1>7 DEF Chronicle
<1> QED BY <1>1, <1>8 DEF kept

\* Every walk goes through its records in the order of their kickoffs.
LEMMA WalkChronicle ==
    ASSUME WalkTypeOK, DatasetAccepted, mwPass \in Walks
    PROVE  Chronicle(WalkRecords) /\ WalkRecords \in Seq(Record)
<1>1. mwFile \in Seq(Record) /\ ~FileRejected(mwFile)
  BY DEF WalkTypeOK, DatasetAccepted, Walks
<1>2. CASE mwPass \in {"elo tune", "goals tune"}
  <2>1. Len(SeasonsOf(mwFile)) = RequiredSeasons
    BY <1>2 DEF DatasetAccepted, Walks
  <2>2. RequiredSeasons - 2 \in 1..Len(SeasonsOf(mwFile))
    BY <2>1, WalkAssumption
  <2>3. StandardSplit(mwFile).validation = SeasonsOf(mwFile)[RequiredSeasons - 2]
    BY DEF StandardSplit
  <2>4. WalkRecords = ThroughSeason(mwFile, StandardSplit(mwFile).validation)
    BY <1>2 DEF WalkRecords, TuneData
  <2> QED BY <1>1, <2>2, <2>3, <2>4, ThroughChronicle
<1>3. CASE mwPass \notin {"elo tune", "goals tune"}
  <2>1. WalkRecords = mwFile
    BY <1>3 DEF WalkRecords
  <2> QED BY <1>1, <2>1, FileChronicle
<1> QED BY <1>2, <1>3

-----------------------------------------------------------------------------
(* The heap                                                                 *)

OneEach(records) == \A r, s \in records : r.id = s.id => r = s

LEMMA HeapOrders ==
    ASSUME NEW r \in Record, NEW s \in Record, NEW t \in Record
    PROVE  /\ ~HeapOrder(r, r) /\ ~(HeapOrder(r, s) /\ HeapOrder(s, r))
           /\ HeapOrder(r, s) /\ HeapOrder(s, t) => HeapOrder(r, t)
           /\ r.id # s.id => HeapOrder(r, s) \/ HeapOrder(s, r)
<1>1. /\ r.available \in Int /\ s.available \in Int /\ t.available \in Int
      /\ r.id \in Int /\ s.id \in Int /\ t.id \in Int
  BY DEF Record
<1> QED BY <1>1 DEF HeapOrder

\* A heap gives each of its results once, in their order.
LEMMA PoppedInOrder ==
    ASSUME NEW S \in SUBSET Record, IsFiniteSet(S), OneEach(S)
    PROVE  /\ Popped(S) \in Seq(S) /\ Len(Popped(S)) \in Nat
           /\ \A r \in S : \E i \in 1..Len(Popped(S)) : Popped(S)[i] = r
           /\ \A i \in 1..Len(Popped(S)) : Popped(S)[i] \in S
           /\ \A i, j \in 1..Len(Popped(S)) :
                i < j => HeapOrder(Popped(S)[i], Popped(S)[j])
<1> DEFINE below == [r \in S |-> {s \in S : HeapOrder(s, r)}]
           q == InPlaces(S, below)
<1>1. below \in [S -> SUBSET S] /\ \A r, s \in S : r \in below[s] <=> HeapOrder(r, s)
  OBVIOUS
<1>2. Popped(S) = q
  BY DEF Popped
<1> HIDE DEF below
<1>3. \A r \in S : r \notin below[r]
  BY <1>1, HeapOrders
<1>4. \A r, s \in S : r \in below[s] => below[r] \subseteq below[s]
  <2> SUFFICES ASSUME NEW r \in S, NEW s \in S, r \in below[s], NEW t \in below[r]
               PROVE  t \in below[s]
    OBVIOUS
  <2>1. t \in S
    BY <1>1
  <2> QED BY <1>1, <2>1, HeapOrders
<1>5. \A r, s \in S : r # s => r \in below[s] \/ s \in below[r]
  BY <1>1, HeapOrders DEF OneEach
<1>6. /\ q \in Seq(S) /\ Len(q) \in Nat
      /\ \A r \in S : \E i \in 1..Len(q) : q[i] = r
      /\ \A i \in 1..Len(q) : q[i] \in S
      /\ \A i, j \in 1..Len(q) : i < j => q[i] \in below[q[j]]
  BY <1>1, <1>3, <1>4, <1>5, PlacesInOrder
<1> HIDE DEF q
<1> QED BY <1>1, <1>2, <1>6

-----------------------------------------------------------------------------
(* What a model has absorbed                                                *)

Known == [elo : Seq(Entry), goals : Seq(Entry)]
Result(r) == <<"result", r.id>>

\* A log that goes on with the first k of these results.
GoesOn(log, popped, k, new) ==
    /\ Len(new) = Len(log) + k
    /\ \A i \in 1..Len(log) : new[i] = log[i]
    /\ \A i \in 1..k : new[Len(log) + i] = Result(popped[i])

AbsorbStep(models, b, known, result) ==
    LET elo(k, r) == IF "elo" \in models THEN EloUpdate(k, r) ELSE k
        goals(k, r) == IF "goals" \in models THEN GoalUpdate(k, r) ELSE k
    IN  goals(elo(known, result), result)

AbsorbedRows(g, k, known) ==
    /\ known \in Known
    /\ \A m \in g.models : GoesOn(g.known[m], g.popped, k, known[m])

PoppedRows == INSTANCE Folding WITH Step <- AbsorbStep, Keeps <- AbsorbedRows

LEMMA ModelNames == \A walk : ModelsOf(walk) \subseteq {"elo", "goals"}
BY DEF ModelsOf

LEMMA GoesOnByOne ==
    ASSUME NEW log \in Seq(Entry), NEW popped, NEW k \in Nat \ {0}, NEW new \in Seq(Entry),
           GoesOn(log, popped, k - 1, new)
    PROVE  GoesOn(log, popped, k, Append(new, Result(popped[k])))
<1> DEFINE entry == Result(popped[k])
           more == Append(new, entry)
           n == Len(log)
<1>1. n \in Nat /\ Len(new) = n + (k - 1)
  BY LenProperties DEF GoesOn
<1>2. /\ Len(more) = n + k /\ more[n + k] = entry
      /\ \A i \in 1..(n + (k - 1)) : more[i] = new[i]
  <2> HIDE DEF n, entry
  <2> QED BY <1>1
<1> HIDE DEF more
<1>3. \A i \in 1..n : more[i] = log[i]
  BY <1>1, <1>2 DEF GoesOn
<1>4. ASSUME NEW i \in 1..k PROVE more[n + i] = Result(popped[i])
  <2>1. CASE i = k
    BY <1>2, <2>1
  <2>2. CASE i \in 1..(k - 1)
    <3>1. n + i \in 1..(n + (k - 1))
      BY <1>1, <2>2
    <3>2. new[n + i] = Result(popped[i])
      BY <2>2 DEF GoesOn
    <3> QED BY <1>2, <3>1, <3>2
  <2> QED BY <2>1, <2>2
<1> QED BY <1>2, <1>3, <1>4 DEF GoesOn, more

LEMMA UpdateFacts ==
    ASSUME NEW known \in Known, NEW r \in Record
    PROVE  /\ EloUpdate(known, r) \in Known /\ GoalUpdate(known, r) \in Known
           /\ EloUpdate(known, r).elo = Append(known.elo, Result(r))
           /\ EloUpdate(known, r).goals = known.goals
           /\ GoalUpdate(known, r).goals = Append(known.goals, Result(r))
           /\ GoalUpdate(known, r).elo = known.elo
<1>1. Result(r) \in Entry
  BY DEF Result, Entry, Record
<1> DEFINE entry == Result(r)
           elo == Append(known.elo, entry)
           goals == Append(known.goals, entry)
<1>2. elo \in Seq(Entry) /\ goals \in Seq(Entry)
  <2> HIDE DEF entry
  <2>1. known.elo \in Seq(Entry) /\ known.goals \in Seq(Entry)
    BY DEF Known
  <2> QED BY <1>1, <2>1, AppendProperties DEF entry
<1>3. EloUpdate(known, r) = [known EXCEPT !.elo = elo]
  BY DEF EloUpdate, Result, Known
<1>4. GoalUpdate(known, r) = [known EXCEPT !.goals = goals]
  BY DEF GoalUpdate, Result, Known
<1> HIDE DEF entry, elo, goals
<1>5. /\ [known EXCEPT !.elo = elo] \in Known /\ [known EXCEPT !.elo = elo].elo = elo
      /\ [known EXCEPT !.elo = elo].goals = known.goals
  BY <1>2 DEF Known
<1>6. /\ [known EXCEPT !.goals = goals] \in Known /\ [known EXCEPT !.goals = goals].goals = goals
      /\ [known EXCEPT !.goals = goals].elo = known.elo
  BY <1>2 DEF Known
<1> QED BY <1>3, <1>4, <1>5, <1>6 DEF entry, elo, goals

LEMMA ResultAbsorbed ==
    ASSUME NEW g, g.known \in Known, g.popped \in Seq(Record), g.models \subseteq {"elo", "goals"},
           NEW k \in 1..Len(g.popped), NEW known, AbsorbedRows(g, k - 1, known)
    PROVE  AbsorbedRows(g, k, AbsorbStep(g.models, 0, known, g.popped[k]))
<1> DEFINE r == g.popped[k]
           models == g.models
           elo == IF "elo" \in models THEN EloUpdate(known, r) ELSE known
           goals == IF "goals" \in models THEN GoalUpdate(elo, r) ELSE elo
<1>1. k \in Nat \ {0} /\ r \in Record /\ known \in Known
  BY ElementOfSeq, LenProperties DEF AbsorbedRows
<1>2. AbsorbStep(models, 0, known, r) = goals
  BY DEF AbsorbStep
<1>3. /\ elo \in Known /\ elo.goals = known.goals
      /\ elo.elo = IF "elo" \in models THEN Append(known.elo, Result(r)) ELSE known.elo
  BY <1>1, UpdateFacts
<1> HIDE DEF elo
<1>4. /\ goals \in Known /\ goals.elo = elo.elo
      /\ goals.goals = IF "goals" \in models THEN Append(elo.goals, Result(r))
                       ELSE elo.goals
  BY <1>1, <1>3, UpdateFacts
<1> HIDE DEF goals
<1>5. ASSUME NEW m \in models PROVE goals[m] = Append(known[m], Result(r))
  <2>1. m \in {"elo", "goals"}
    OBVIOUS
  <2>2. CASE m = "elo"
    BY <1>3, <1>4, <2>2
  <2>3. CASE m = "goals"
    BY <1>3, <1>4, <2>3
  <2> QED BY <2>1, <2>2, <2>3
<1>6. ASSUME NEW m \in models PROVE GoesOn(g.known[m], g.popped, k, goals[m])
  <2>1. m \in {"elo", "goals"}
    OBVIOUS
  <2>2. g.known[m] \in Seq(Entry) /\ known[m] \in Seq(Entry)
    BY <1>1, <2>1 DEF Known
  <2>3. GoesOn(g.known[m], g.popped, k - 1, known[m])
    BY DEF AbsorbedRows
  <2>4. PICK log, popped, old : log = g.known[m] /\ popped = g.popped /\ old = known[m]
    OBVIOUS
  <2>5. GoesOn(log, popped, k, Append(old, Result(popped[k])))
    BY <1>1, <2>2, <2>3, <2>4, GoesOnByOne
  <2>6. goals[m] = Append(old, Result(popped[k]))
    BY <1>5, <2>4
  <2> QED BY <2>4, <2>5, <2>6
<1>7. AbsorbedRows(g, k, goals)
  BY <1>4, <1>6 DEF AbsorbedRows
<1> QED BY <1>2, <1>7

\* What is absorbed is a fold over the results.
LEMMA AbsorbFolds ==
    \A known, popped :
        Absorb(known, popped) = PoppedRows!Folded(ModelsOf(mwPass), 0, known, popped)
BY Zenon DEF Absorb, AbsorbStep, PoppedRows!Folded, PoppedRows!FoldLeft,
             PoppedRows!MapThenFoldSet, PoppedRows!Max, FoldLeft, MapThenFoldSet, Max

\* Absorbing results lets the log of each model of the walk go on with them.
LEMMA AbsorbGoesOn ==
    ASSUME NEW known \in Known, NEW popped \in Seq(Record)
    PROVE  /\ Absorb(known, popped) \in Known
           /\ \A m \in ModelsOf(mwPass) :
                GoesOn(known[m], popped, Len(popped), Absorb(known, popped)[m])
<1>1. Absorb(known, popped) = PoppedRows!Folded(ModelsOf(mwPass), 0, known, popped)
  BY AbsorbFolds
<1>2. PICK models : models = ModelsOf(mwPass)
  OBVIOUS
<1> DEFINE g == [known |-> known, popped |-> popped, models |-> models]
           n == Len(popped)
           folded == PoppedRows!Folded(models, 0, known, popped)
<1>3. g.known = known /\ g.popped = popped /\ g.models = models
  OBVIOUS
<1>4. n \in Nat /\ DOMAIN popped = 1..n
  BY LenProperties
<1> HIDE DEF g, n
<1>5. AbsorbedRows(g, 0, known)
  <2>1. \A m \in models : Len(known[m]) \in Nat
    <3>1. \A m \in {"elo", "goals"} : known[m] \in Seq(Entry)
      BY DEF Known
    <3> QED BY <1>2, <3>1, ModelNames, LenProperties
  <2> QED BY <1>3, <2>1 DEF AbsorbedRows, GoesOn
<1>6. \A k \in 1..n : \A d :
        AbsorbedRows(g, k - 1, d) => AbsorbedRows(g, k, AbsorbStep(models, 0, d, popped[k]))
  BY <1>2, <1>3, ModelNames, ResultAbsorbed DEF n
<1>7. AbsorbedRows(g, n, folded)
  BY <1>4, <1>5, <1>6, PoppedRows!FoldKeeps
<1>8. Absorb(known, popped) = folded
  BY <1>1, <1>2
<1> HIDE DEF folded
<1> QED BY <1>2, <1>3, <1>7, <1>8 DEF AbsorbedRows, n

LEMMA RecordNamed ==
    ASSUME NEW file, OneEach(ToSet(file)), NEW r \in ToSet(file)
    PROVE  RecordOf(file, r.id) = r
BY DEF RecordOf, OneEach

LEMMA LogFacts ==
    ASSUME NEW log \in Seq(Entry), NEW i \in 1..Len(log)
    PROVE  i \in ResultsIn(log) <=> log[i][1] = "result"
BY LenProperties DEF ResultsIn

\* What the results of a log are the records of.
LEMMA LogResults ==
    ASSUME NEW file, NEW log, NEW A, Knows(file, log, A), NEW i \in ResultsIn(log)
    PROVE  i \in 1..Len(log) /\ \E r \in A : log[i][2] = r.id
<1>1. log \in Seq(Entry) /\ {log[j][2] : j \in ResultsIn(log)} = {r.id : r \in A}
  BY DEF Knows, AbsorbedInOrder
<1>2. i \in 1..Len(log)
  BY <1>1, LenProperties DEF ResultsIn
<1>3. log[i][2] \in {r.id : r \in A}
  BY <1>1
<1> QED BY <1>2, <1>3

\* A season that is carried over adds no result.
LEMMA CarryKnows ==
    ASSUME NEW file, NEW log, NEW A, Knows(file, log, A), NEW season \in Int
    PROVE  Knows(file, Append(log, <<"carry", season>>), A)
<1> DEFINE carry == <<"carry", season>>
           new == Append(log, carry)
           n == Len(log)
<1>1. /\ log \in Seq(Entry) /\ {log[i][2] : i \in ResultsIn(log)} = {r.id : r \in A}
      /\ \A i, j \in ResultsIn(log) : i < j =>
           HeapOrder(RecordOf(file, log[i][2]), RecordOf(file, log[j][2]))
  BY DEF Knows, AbsorbedInOrder
<1>2. carry \in Entry /\ carry[1] = "carry"
  BY DEF Entry
<1>3. n \in Nat /\ DOMAIN log = 1..n
  BY <1>1, LenProperties
<1> HIDE DEF carry
<1>4. /\ new \in Seq(Entry) /\ DOMAIN new = 1..(n + 1) /\ new[n + 1] = carry
      /\ \A i \in 1..n : new[i] = log[i]
  BY <1>1, <1>2, <1>3, AppendProperties, LenProperties
<1> HIDE DEF new, n
<1>5. ResultsIn(new) = ResultsIn(log)
  <2>1. 1..(n + 1) = 1..n \cup {n + 1}
    BY <1>3
  <2>2. "carry" # "result"
    OBVIOUS
  <2> QED BY <1>2, <1>3, <1>4, <2>1, <2>2 DEF ResultsIn
<1>6. \A i \in ResultsIn(log) : new[i] = log[i]
  BY <1>3, <1>4 DEF ResultsIn
<1>7. {new[i][2] : i \in ResultsIn(new)} = {r.id : r \in A}
  BY <1>1, <1>5, <1>6
<1>8. \A i, j \in ResultsIn(new) : i < j =>
        HeapOrder(RecordOf(file, new[i][2]), RecordOf(file, new[j][2]))
  BY <1>1, <1>5, <1>6
<1>9. Knows(file, new, A)
  BY <1>4, <1>7, <1>8 DEF Knows, AbsorbedInOrder
<1> QED BY <1>9 DEF new, carry

\* A log that goes on with later results knows these too.
LEMMA GoesOnKnows ==
    ASSUME NEW file, OneEach(ToSet(file)), NEW A \in SUBSET ToSet(file),
           NEW B \in SUBSET ToSet(file), B \subseteq Record,
           NEW log, Knows(file, log, A), NEW popped \in Seq(B),
           \A r \in B : \E i \in 1..Len(popped) : popped[i] = r,
           \A i, j \in 1..Len(popped) : i < j => HeapOrder(popped[i], popped[j]),
           \A r \in A, s \in B : HeapOrder(r, s),
           NEW new \in Seq(Entry), GoesOn(log, popped, Len(popped), new)
    PROVE  Knows(file, new, A \cup B)
<1> DEFINE n == Len(log)
           k == Len(popped)
<1>1. /\ log \in Seq(Entry) /\ {log[i][2] : i \in ResultsIn(log)} = {r.id : r \in A}
      /\ \A i, j \in ResultsIn(log) : i < j =>
           HeapOrder(RecordOf(file, log[i][2]), RecordOf(file, log[j][2]))
  BY DEF Knows, AbsorbedInOrder
<1>2. n \in Nat /\ k \in Nat /\ DOMAIN log = 1..n
  BY <1>1, LenProperties
<1>3. /\ DOMAIN new = 1..(n + k)
      /\ \A i \in 1..n : new[i] = log[i]
      /\ \A i \in 1..k : new[n + i] = Result(popped[i]) /\ popped[i] \in B
  BY LenProperties, ElementOfSeq DEF GoesOn
<1> HIDE DEF n, k
<1>4. \A i \in 1..n : i \in ResultsIn(new) <=> i \in ResultsIn(log)
  BY <1>2, <1>3 DEF ResultsIn
<1>5. \A i \in 1..k : /\ n + i \in ResultsIn(new) /\ new[n + i][2] = popped[i].id
                      /\ popped[i] \in B
  <2> SUFFICES ASSUME NEW i \in 1..k
               PROVE  /\ n + i \in ResultsIn(new) /\ new[n + i][2] = popped[i].id
                      /\ popped[i] \in B
    OBVIOUS
  <2>1. n + i \in 1..(n + k)
    BY <1>2
  <2>2. Result(popped[i])[1] = "result" /\ Result(popped[i])[2] = popped[i].id
    BY DEF Result
  <2> QED BY <1>3, <2>1, <2>2 DEF ResultsIn
<1>6. ASSUME NEW i \in ResultsIn(new)
      PROVE  \/ i \in ResultsIn(log) /\ i \in 1..n
             \/ \E j \in 1..k : i = n + j
  <2>1. i \in 1..(n + k)
    BY <1>3 DEF ResultsIn
  <2>2. CASE i \in 1..n
    BY <1>4, <2>2
  <2>3. CASE i \notin 1..n
    <3>1. i - n \in 1..k /\ i = n + (i - n)
      BY <1>2, <2>1, <2>3
    <3> QED BY <3>1
  <2> QED BY <2>2, <2>3
<1>7. {new[i][2] : i \in ResultsIn(new)} = {r.id : r \in A \cup B}
  <2>1. ASSUME NEW i \in ResultsIn(new)
        PROVE  new[i][2] \in {r.id : r \in A \cup B}
    <3>1. CASE i \in ResultsIn(log) /\ i \in 1..n
      <4>1. PICK r \in A : log[i][2] = r.id
        BY <3>1, LogResults
      <4>2. new[i][2] = r.id /\ r \in A \cup B
        BY <1>3, <3>1, <4>1
      <4> QED BY <4>2, Zenon
    <3>2. CASE \E j \in 1..k : i = n + j
      <4>1. PICK j \in 1..k : i = n + j
        BY <3>2
      <4> QED BY <1>5, <4>1
    <3> QED BY <1>6, <3>1, <3>2
  <2>2. ASSUME NEW r \in A PROVE r.id \in {new[i][2] : i \in ResultsIn(new)}
    <3>1. r.id \in {log[i][2] : i \in ResultsIn(log)}
      BY <1>1
    <3>2. PICK i \in ResultsIn(log) : log[i][2] = r.id
      BY <3>1
    <3>3. i \in 1..n
      BY <1>2 DEF ResultsIn
    <3> QED BY <1>3, <1>4, <3>2, <3>3
  <2>3. ASSUME NEW r \in B PROVE r.id \in {new[i][2] : i \in ResultsIn(new)}
    <3>1. PICK i \in 1..k : popped[i] = r
      BY DEF k
    <3> QED BY <1>5, <3>1
  <2> QED BY <2>1, <2>2, <2>3
<1>8. ASSUME NEW i \in ResultsIn(new), NEW j \in ResultsIn(new), i < j
      PROVE  HeapOrder(RecordOf(file, new[i][2]), RecordOf(file, new[j][2]))
  <2>1. CASE j \in ResultsIn(log) /\ j \in 1..n
    <3>1. i \in 1..n
      <4>1. i \in 1..(n + k)
        BY <1>3 DEF ResultsIn
      <4> QED BY <1>2, <1>8, <2>1, <4>1
    <3>2. i \in ResultsIn(log)
      BY <1>4, <3>1
    <3> QED BY <1>1, <1>3, <1>8, <2>1, <3>1, <3>2
  <2>2. CASE \E q \in 1..k : j = n + q
    <3>1. PICK q \in 1..k : j = n + q
      BY <2>2
    <3>2. new[j][2] = popped[q].id /\ popped[q] \in B
      BY <1>5, <3>1
    <3>3. RecordOf(file, new[j][2]) = popped[q]
      BY <3>2, RecordNamed
    <3>4. CASE i \in ResultsIn(log) /\ i \in 1..n
      <4>1. PICK r \in A : log[i][2] = r.id
        BY <3>4, LogResults
      <4>2. RecordOf(file, new[i][2]) = r
        BY <1>3, <3>4, <4>1, RecordNamed
      <4> QED BY <3>2, <3>3, <4>2
    <3>5. CASE \E p \in 1..k : i = n + p
      <4>1. PICK p \in 1..k : i = n + p
        BY <3>5
      <4>2. new[i][2] = popped[p].id /\ popped[p] \in B
        BY <1>5, <4>1
      <4>3. RecordOf(file, new[i][2]) = popped[p]
        BY <4>2, RecordNamed
      <4>4. p < q
        BY <1>2, <1>8, <3>1, <4>1
      <4> QED BY <3>3, <4>3, <4>4 DEF k
    <3> QED BY <1>6, <3>4, <3>5
  <2> QED BY <1>6, <2>1, <2>2
<1> QED BY <1>7, <1>8 DEF Knows, AbsorbedInOrder

-----------------------------------------------------------------------------
(* One step of a walk                                                       *)

\* The records of the file, one by one.
LEMMA FileRecords ==
    ASSUME mwFile \in Seq(Record), ~FileRejected(mwFile)
    PROVE  /\ ToSet(mwFile) \in SUBSET Record /\ IsFiniteSet(ToSet(mwFile))
           /\ OneEach(ToSet(mwFile))
           /\ \A r \in ToSet(mwFile) : r.kickoff < r.available
<1> DEFINE n == Len(mwFile)
<1>1. /\ DOMAIN mwFile = 1..n /\ n \in Nat
      /\ \A i \in 1..n : mwFile[i] \in Record /\ mwFile[i].kickoff < mwFile[i].available
      /\ \A i, j \in 1..n : i # j => mwFile[i].id # mwFile[j].id
  BY Accepted, RecordFacts
<1>2. ToSet(mwFile) = {mwFile[i] : i \in 1..n}
  BY <1>1 DEF ToSet
<1> HIDE DEF n
<1>3. IsFiniteSet(ToSet(mwFile))
  <2> DEFINE f == [i \in 1..n |-> mwFile[i]]
             T == ToSet(mwFile)
  <2>1. f \in Surjection(1..n, T)
    BY <1>2 DEF Surjection
  <2>2. IsFiniteSet(1..n)
    BY <1>1, FS_Interval
  <2> HIDE DEF f, T
  <2>3. IsFiniteSet(T)
    BY <2>1, <2>2, FS_Surjection
  <2> QED BY <2>3 DEF T
<1>4. OneEach(ToSet(mwFile))
  BY <1>1, <1>2 DEF OneEach
<1> QED BY <1>1, <1>2, <1>3, <1>4

\* The cutoff of a record is not after its kickoff, and cutoffs do not decrease.
LEMMA Cutoffs ==
    ASSUME NEW r \in Record, NEW s \in Record
    PROVE  /\ WalkCutoff(r) \in Int /\ WalkCutoff(r) <= r.kickoff
           /\ r.kickoff <= s.kickoff => WalkCutoff(r) <= WalkCutoff(s)
<1>1. r.kickoff \in Int /\ s.kickoff \in Int
  BY DEF Record
<1>2. PredictionLead \in Nat
  BY WalkAssumption
<1> QED BY <1>1, <1>2 DEF WalkCutoff, FeatureCutoff

\* The heap after a step whose cutoff is c and whose results are S.
Advances(r, c, S, later) ==
    /\ mwPos + 1 \in 1..(Len(WalkRecords) + 1) /\ r \in Record /\ c \in Int
    /\ later \subseteq Behind(WalkRecords, mwPos + 1)
    /\ \A x \in Behind(WalkRecords, mwPos + 1) : x \in later <=> x.available >= c
    /\ Behind(WalkRecords, mwPos + 1) \ later = PublicBefore(mwFile, c)
    /\ Absorbed \cup S = PublicBefore(mwFile, c)
    /\ \A x \in Absorbed, s \in S : HeapOrder(x, s)

LEMMA PendingAdvances ==
    ASSUME WalkInv, mwPass \in Walks, mwPos <= Len(WalkRecords),
           NEW r, r = WalkRecords[mwPos], NEW c, c = WalkCutoff(r),
           NEW S, S = {x \in mwPending : x.available < c},
           NEW later, later = (mwPending \ S) \cup {r}
    PROVE  Advances(r, c, S, later)
<1> DEFINE R == WalkRecords
           p == mwPos
           n == Len(R)
           before == Behind(R, p)
           after == Behind(R, p + 1)
           past == {x \in ToSet(mwFile) : x.available < c}
<1>1. /\ mwFile \in Seq(Record) /\ ~FileRejected(mwFile) /\ Chronicle(R) /\ R \in Seq(Record)
  BY WalkChronicle DEF WalkInv, WalkTypeOK, DatasetAccepted, Walks
<1>2. /\ ToSet(mwFile) \in SUBSET Record
      /\ \A x \in ToSet(mwFile) : x.kickoff < x.available
  BY <1>1, FileRecords
<1>3. /\ p \in 1..(n + 1) /\ mwPending \subseteq before
      /\ p > 1 => \A x \in before : x \in mwPending <=> x.available >= WalkCutoff(R[p - 1])
  BY DEF WalkInv, HeapHoldsTheRest
<1>4. /\ n \in Nat /\ DOMAIN R = 1..n /\ p \in 1..n
  BY <1>1, <1>3, LenProperties
<1>5. \A i \in 1..n : R[i] \in Record /\ R[i] \in ToSet(mwFile)
  BY <1>1, ElementOfSeq DEF Chronicle
<1>6. /\ \A i, j \in 1..n : i < j => R[i].id # R[j].id /\ R[i].kickoff <= R[j].kickoff
      /\ \A x \in ToSet(mwFile), j \in 1..n :
           x.kickoff < R[j].kickoff => \E i \in 1..(j - 1) : R[i] = x
  BY <1>1, <1>4 DEF Chronicle
<1>7. r = R[p]
  OBVIOUS
<1> HIDE DEF R, p, n
<1>8. before = {R[i] : i \in 1..(p - 1)} /\ after = {R[i] : i \in 1..p}
  <2>1. (p + 1) - 1 = p
    BY <1>4
  <2> QED BY <2>1 DEF Behind
<1> HIDE DEF before, after
<1>9. r \in Record /\ r \in ToSet(mwFile)
  BY <1>4, <1>5, <1>7
<1>10. c \in Int /\ c <= r.kickoff /\ r.kickoff \in Int /\ r.available \in Int
  BY <1>9, Cutoffs DEF Record
<1>11. r.available >= c
  <2>1. r.kickoff < r.available
    BY <1>2, <1>9
  <2> QED BY <1>10, <2>1
<1>12. after = before \cup {r} /\ r \notin before
  <2>1. 1..p = 1..(p - 1) \cup {p}
    BY <1>4
  <2>2. after = before \cup {r}
    BY <1>7, <1>8, <2>1
  <2>3. ASSUME NEW i \in 1..(p - 1) PROVE R[i] # r
    <3>1. i \in 1..n /\ i < p
      BY <1>4
    <3> QED BY <1>4, <1>6, <1>7, <3>1
  <2> QED BY <1>8, <2>2, <2>3
<1>13. \A x \in before : x \in Record /\ x \in ToSet(mwFile) /\ x.available \in Int
  <2>1. 1..(p - 1) \subseteq 1..n
    BY <1>4
  <2>2. \A x \in before : x \in Record /\ x \in ToSet(mwFile)
    BY <1>5, <1>8, <2>1
  <2> QED BY <2>2 DEF Record
\* the cutoff of the walk's last record, when there is one
<1>14. ASSUME NEW x \in before
       PROVE  \E last \in Int : last <= c /\ \A y \in before : y \in mwPending <=> y.available >= last
  <2>1. p > 1
    BY <1>4, <1>8
  <2>2. p - 1 \in 1..n /\ p - 1 < p
    BY <1>4, <2>1
  <2>3. R[p - 1] \in Record /\ R[p - 1].kickoff <= r.kickoff
    BY <1>4, <1>5, <1>6, <1>7, <2>2
  <2>4. WalkCutoff(R[p - 1]) \in Int /\ WalkCutoff(R[p - 1]) <= c
    BY <1>9, <2>3, Cutoffs
  <2> QED BY <1>3, <2>1, <2>4
<1>15. ASSUME NEW x \in before
       PROVE  /\ x \in later <=> x.available >= c
              /\ x \notin mwPending => x.available < c
  <2>1. PICK last \in Int : /\ last <= c
                          /\ \A y \in before : y \in mwPending <=> y.available >= last
    BY <1>14
  <2>2. x.available \in Int /\ (x \in mwPending <=> x.available >= last)
    BY <1>13, <2>1
  <2>3. x # r
    BY <1>12
  <2> DEFINE a == x.available
  <2>4. x \in later <=> x \in mwPending /\ ~(a < c)
    BY <2>3
  <2> HIDE DEF a
  <2>5. a \in Int /\ (x \in mwPending <=> a >= last)
    BY <2>2 DEF a
  <2>6. (a >= c => a >= last) /\ (~(a >= last) => a < c) /\ (~(a < c) <=> a >= c)
    BY <1>10, <2>1, <2>5
  <2> QED BY <2>4, <2>5, <2>6 DEF a
<1>16. \A x \in after : x \in later <=> x.available >= c
  BY <1>11, <1>12, <1>15
<1>17. later \subseteq after
  BY <1>3, <1>12
<1>18. ASSUME NEW x \in past PROVE x \in before
  <2>1. x \in Record /\ x.kickoff < x.available /\ x.available < c /\ x \in ToSet(mwFile)
    BY <1>2
  <2>2. x.kickoff \in Int /\ x.available \in Int
    BY <2>1 DEF Record
  <2>3. x.kickoff < r.kickoff
    BY <1>10, <2>1, <2>2
  <2>4. PICK i \in 1..(p - 1) : R[i] = x
    BY <1>4, <1>6, <1>7, <2>1, <2>3
  <2> QED BY <1>8, <2>4
<1>19. ASSUME NEW x \in before
       PROVE  x.available < c <=> ~(x.available >= c)
  BY <1>10, <1>13
<1>20. after \ later = past
  BY <1>11, <1>12, <1>13, <1>15, <1>16, <1>18, <1>19
<1>21. (before \ mwPending) \cup S = past
  BY <1>3, <1>13, <1>15, <1>18, <1>19
<1>22. ASSUME NEW x \in before \ mwPending, NEW s \in S PROVE HeapOrder(x, s)
  <2>1. PICK last \in Int : /\ last <= c
                          /\ \A y \in before : y \in mwPending <=> y.available >= last
    BY <1>14
  <2>2. s \in before /\ s \in mwPending
    BY <1>3
  <2>3. s.available >= last /\ ~(x.available >= last) /\ s.available \in Int /\ x.available \in Int
    BY <1>13, <2>1, <2>2
  <2>4. x.available < s.available
    BY <2>1, <2>3
  <2> QED BY <2>4 DEF HeapOrder
<1>23. p + 1 \in 1..(n + 1)
  BY <1>4
<1>24. past = PublicBefore(mwFile, c) /\ before \ mwPending = Absorbed
  BY DEF PublicBefore, Absorbed, before, R, p
<1> HIDE DEF past
<1> QED BY <1>9, <1>10, <1>16, <1>17, <1>20, <1>21, <1>22, <1>23, <1>24
        DEF Advances, R, p, n, before, after

LEMMA SeasonBegun ==
    ASSUME NEW known \in Known, NEW season \in Int, NEW A,
           \A m \in ModelsOf(mwPass) : Knows(mwFile, known[m], A)
    PROVE  /\ BeginSeason(known, season) \in Known
           /\ \A m \in ModelsOf(mwPass) : Knows(mwFile, BeginSeason(known, season)[m], A)
<1> DEFINE carry == <<"carry", season>>
           elos == Append(known.elo, carry)
           elo == IF "elo" \in ModelsOf(mwPass) THEN EloBeginSeason(known, season) ELSE known
           goals == Append(elo.goals, carry)
<1>1. PICK file : file = mwFile
  OBVIOUS
<1>2. \A log \in Seq(Entry) : Append(log, carry) \in Seq(Entry)
  BY AppendProperties DEF Entry
<1>3. \A log : Knows(file, log, A) => Knows(file, Append(log, carry), A)
  BY CarryKnows
<1>4. /\ elo \in Known /\ elo.goals = known.goals
      /\ elo.elo = known.elo \/ elo.elo = elos
  <2>1. EloBeginSeason(known, season) \in {known, [known EXCEPT !.elo = elos]}
    BY DEF EloBeginSeason, Known
  <2>2. elos \in Seq(Entry)
    <3>1. known.elo \in Seq(Entry)
      BY DEF Known
    <3> HIDE DEF carry
    <3> QED BY <1>2, <3>1
  <2>3. elo \in {known, [known EXCEPT !.elo = elos]}
    BY <2>1
  <2> HIDE DEF elo, elos
  <2> QED BY <2>2, <2>3 DEF Known
<1>5. BeginSeason(known, season)
        = IF "goals" \in ModelsOf(mwPass) THEN GoalBeginSeason(elo, season) ELSE elo
  BY DEF BeginSeason
<1>6. GoalBeginSeason(elo, season) \in {elo, [elo EXCEPT !.goals = goals]}
  <2> HIDE DEF elo
  <2> QED BY <1>4 DEF GoalBeginSeason, Known
<1> DEFINE both == BeginSeason(known, season)
<1>7. /\ both \in Known /\ both.elo = elo.elo
      /\ both.goals = elo.goals \/ both.goals = goals
  <2>1. both \in {elo, [elo EXCEPT !.goals = goals]}
    BY <1>5, <1>6
  <2>2. goals \in Seq(Entry)
    <3>1. elo.goals \in Seq(Entry)
      BY <1>4 DEF Known
    <3> HIDE DEF carry, elo
    <3> QED BY <1>2, <3>1
  <2> HIDE DEF elo, goals, both
  <2> QED BY <1>4, <2>1, <2>2 DEF Known
<1>8. ASSUME NEW m \in ModelsOf(mwPass) PROVE Knows(file, both[m], A)
  <2>1. m \in {"elo", "goals"} /\ Knows(file, known[m], A)
    BY <1>1, ModelNames
  <2>2. both[m] = known[m] \/ both[m] = Append(known[m], carry)
    <3>1. CASE m = "elo"
      <4>1. both.elo = known.elo \/ both.elo = Append(known.elo, carry)
        BY <1>4, <1>7
      <4> HIDE DEF both, carry
      <4> QED BY <3>1, <4>1
    <3>2. CASE m = "goals"
      <4>1. both.goals = known.goals \/ both.goals = Append(known.goals, carry)
        BY <1>4, <1>7
      <4> HIDE DEF both, carry
      <4> QED BY <3>2, <4>1
    <3> QED BY <2>1, <3>1, <3>2
  <2> HIDE DEF both, carry
  <2> QED BY <1>3, <2>1, <2>2
<1>9. \A m \in ModelsOf(mwPass) : Knows(mwFile, both[m], A)
  BY <1>1, <1>8
<1> QED BY <1>7, <1>9

\* Absorbing what the heap gives adds just these results.
LEMMA PoppedKnown ==
    ASSUME mwFile \in Seq(Record), ~FileRejected(mwFile), NEW known \in Known,
           NEW A \in SUBSET ToSet(mwFile), NEW B \in SUBSET ToSet(mwFile),
           \A m \in ModelsOf(mwPass) : Knows(mwFile, known[m], A),
           \A r \in A, s \in B : HeapOrder(r, s)
    PROVE  /\ Absorb(known, Popped(B)) \in Known /\ ToSet(Popped(B)) = B
           /\ \A m \in ModelsOf(mwPass) : Knows(mwFile, Absorb(known, Popped(B))[m], A \cup B)
<1>1. PICK file : file = mwFile
  OBVIOUS
<1> DEFINE popped == Popped(B)
           absorbed == Absorb(known, popped)
<1>2. /\ ToSet(file) \in SUBSET Record /\ IsFiniteSet(ToSet(file)) /\ OneEach(ToSet(file))
  BY <1>1, FileRecords
<1>3. B \in SUBSET Record /\ IsFiniteSet(B) /\ OneEach(B) /\ B \in SUBSET ToSet(file)
        /\ A \in SUBSET ToSet(file)
  <2>1. B \in SUBSET ToSet(file) /\ A \in SUBSET ToSet(file)
    BY <1>1
  <2>2. IsFiniteSet(B)
    <3> DEFINE T == ToSet(file)
    <3>1. IsFiniteSet(T) /\ B \in SUBSET T
      BY <1>2, <2>1
    <3> HIDE DEF T
    <3> QED BY <3>1, FS_Subset
  <2> QED BY <1>2, <2>1, <2>2 DEF OneEach
<1>4. /\ popped \in Seq(B) /\ Len(popped) \in Nat
      /\ \A r \in B : \E i \in 1..Len(popped) : popped[i] = r
      /\ \A i \in 1..Len(popped) : popped[i] \in B
      /\ \A i, j \in 1..Len(popped) : i < j => HeapOrder(popped[i], popped[j])
  BY <1>3, PoppedInOrder
<1> HIDE DEF popped
<1>5. popped \in Seq(Record) /\ DOMAIN popped = 1..Len(popped)
  <2> DEFINE n == Len(popped)
  <2>1. DOMAIN popped = 1..n /\ popped \in [1..n -> B]
    BY <1>4, LenProperties
  <2>2. popped \in [1..n -> Record]
    BY <1>3, <2>1
  <2>3. n \in Nat
    BY <1>4
  <2> HIDE DEF n
  <2>4. popped \in Seq(Record)
    BY <2>2, <2>3, SeqDef
  <2> QED BY <2>1, <2>4 DEF n
<1>6. ToSet(popped) = B
  BY <1>4, <1>5 DEF ToSet
<1>7. /\ absorbed \in Known
      /\ \A m \in ModelsOf(mwPass) : GoesOn(known[m], popped, Len(popped), absorbed[m])
  BY <1>5, AbsorbGoesOn
<1> HIDE DEF absorbed
<1>8. ASSUME NEW m \in ModelsOf(mwPass) PROVE Knows(mwFile, absorbed[m], A \cup B)
  <2>1. m \in {"elo", "goals"}
    BY ModelNames
  <2>2. absorbed[m] \in Seq(Entry)
    BY <1>7, <2>1 DEF Known
  <2>3. Knows(file, known[m], A) /\ GoesOn(known[m], popped, Len(popped), absorbed[m])
    BY <1>1, <1>7
  <2>4. Knows(file, absorbed[m], A \cup B)
    BY <1>2, <1>3, <1>4, <2>2, <2>3, GoesOnKnows
  <2> QED BY <1>1, <2>4
<1> QED BY <1>6, <1>7, <1>8 DEF absorbed, popped

\* The row of a record knows what was public before its cutoff.
LEMMA KnownAdvances ==
    ASSUME WalkInv, mwPass \in Walks, mwPos <= Len(WalkRecords),
           NEW r, r = WalkRecords[mwPos], NEW c, c = WalkCutoff(r),
           NEW popped, popped = PopAvailable(c),
           NEW known, known = BeginSeason(Absorb(mwKnown, popped), r.season)
    PROVE  /\ ToSet(popped) = {x \in mwPending : x.available < c}
           /\ known \in Known
           /\ \A m \in ModelsOf(mwPass) : Knows(mwFile, known[m], PublicBefore(mwFile, c))
<1>1. PICK S, later, A, past : /\ S = {x \in mwPending : x.available < c}
                               /\ later = (mwPending \ S) \cup {r}
                               /\ A = Absorbed /\ past = PublicBefore(mwFile, c)
  OBVIOUS
<1>2. r \in Record /\ A \cup S = past /\ \A x \in A, s \in S : HeapOrder(x, s)
  <2>1. Advances(r, c, S, later)
    BY <1>1, PendingAdvances
  <2> QED BY <1>1, <2>1 DEF Advances
<1>3. mwFile \in Seq(Record) /\ ~FileRejected(mwFile)
  BY DEF WalkInv, WalkTypeOK, DatasetAccepted, Walks
<1>4. A \in SUBSET ToSet(mwFile) /\ S \in SUBSET ToSet(mwFile)
  BY <1>1, <1>2 DEF PublicBefore
<1>5. PICK before : before = mwKnown
  OBVIOUS
<1>6. before \in Known /\ \A m \in ModelsOf(mwPass) : Knows(mwFile, before[m], A)
  BY <1>1, <1>5 DEF WalkInv, WalkTypeOK, HeapHoldsTheRest, Known
<1>7. popped = Popped(S)
  BY <1>1 DEF PopAvailable
<1>8. /\ Absorb(before, popped) \in Known /\ ToSet(popped) = S
      /\ \A m \in ModelsOf(mwPass) : Knows(mwFile, Absorb(before, popped)[m], A \cup S)
  BY <1>2, <1>3, <1>4, <1>6, <1>7, PoppedKnown
<1>9. PICK season, absorbed : season = r.season /\ absorbed = Absorb(before, popped)
  OBVIOUS
<1>10. season \in Int
  BY <1>2, <1>9 DEF Record
<1>11. known = BeginSeason(absorbed, season)
  BY <1>5, <1>9
<1>12. absorbed \in Known /\ \A m \in ModelsOf(mwPass) : Knows(mwFile, absorbed[m], past)
  BY <1>2, <1>8, <1>9
<1>13. known \in Known /\ \A m \in ModelsOf(mwPass) : Knows(mwFile, known[m], past)
  BY <1>10, <1>11, <1>12, SeasonBegun
<1> QED BY <1>1, <1>8, <1>13

LEMMA Appended ==
    ASSUME NEW s, IsSequence(s), NEW x
    PROVE  IsSequence(Append(s, x)) /\ ToSet(Append(s, x)) = ToSet(s) \cup {x}
<1> DEFINE T == ToSet(s) \cup {x}
           n == Len(s)
           more == Append(s, x)
<1>1. s \in Seq(T) /\ x \in T
  <2>1. s \in Seq(ToSet(s)) /\ ToSet(s) \subseteq T
    BY DEF IsSequence
  <2>2. n \in Nat /\ DOMAIN s = 1..n /\ s \in [1..n -> ToSet(s)]
    BY <2>1, LenProperties
  <2>3. s \in [1..n -> T]
    BY <2>1, <2>2
  <2> HIDE DEF T, n
  <2>4. s \in Seq(T)
    BY <2>2, <2>3, SeqDef
  <2> QED BY <2>4 DEF T
<1>2. n \in Nat /\ DOMAIN s = 1..n
  BY <1>1, LenProperties
<1> HIDE DEF T
<1>3. /\ more \in Seq(T) /\ DOMAIN more = 1..(n + 1) /\ more[n + 1] = x
      /\ \A i \in 1..n : more[i] = s[i]
  BY <1>1, <1>2, AppendProperties, LenProperties
<1> HIDE DEF more, n
<1>4. 1..(n + 1) = 1..n \cup {n + 1}
  BY <1>2
<1>5. {more[i] : i \in 1..(n + 1)} = {s[i] : i \in 1..n} \cup {x}
  BY <1>3, <1>4
<1>6. ToSet(more) = ToSet(s) \cup {x}
  BY <1>2, <1>3, <1>5 DEF ToSet
<1> QED BY <1>3, <1>6 DEF IsSequence, T, more

LEMMA NothingKnows ==
    /\ NothingKnown \in Known
    /\ \A file : \A m \in {"elo", "goals"} : Knows(file, NothingKnown[m], {})
<1>1. <<>> \in Seq(Entry) /\ Len(<<>>) = 0
  BY EmptySeq
<1>2. DOMAIN <<>> = {}
  BY <1>1
<1>3. ResultsIn(<<>>) = {}
  BY <1>2 DEF ResultsIn
<1>4. \A file : Knows(file, <<>>, {})
  BY <1>1, <1>3, Zenon DEF Knows, AbsorbedInOrder
<1> QED BY <1>1, <1>4 DEF NothingKnown, Known

\* A step of a walk: it predicts the record at hand, and puts its result away.
LEMMA WalkStepKeeps ==
    ASSUME WalkInv, mwPass \in Walks, WalkStep
    PROVE  WalkInv'
<1>1. PICK r, c, popped, S, known, later, R, walk, file :
        /\ r = WalkRecords[mwPos] /\ c = WalkCutoff(r)
        /\ popped = PopAvailable(c) /\ S = {x \in mwPending : x.available < c}
        /\ known = BeginSeason(Absorb(mwKnown, popped), r.season)
        /\ later = (mwPending \ S) \cup {r}
        /\ R = WalkRecords /\ walk = mwPass /\ file = mwFile
  OBVIOUS
<1>2. PICK row : /\ row.known = known /\ row.cutoff = c
                 /\ mwRows' = [mwRows EXCEPT ![walk] = Append(@, row)]
  <2>1. PICK history : mwRows' = [mwRows EXCEPT ![mwPass] = Append(@, WalkRow(r, known, history))]
    BY <1>1 DEF WalkStep
  <2>2. WalkRow(r, known, history).known = known /\ WalkRow(r, known, history).cutoff = c
    BY <1>1 DEF WalkRow
  <2> QED BY <1>1, <2>1, <2>2
<1>3. /\ mwPos <= Len(R) /\ mwPos' = mwPos + 1 /\ mwKnown' = known
      /\ mwFile' = file /\ mwPass' = walk /\ mwFinal' = mwFinal
      /\ mwPending' = (mwPending \ ToSet(popped)) \cup {r}
  BY <1>1 DEF WalkStep
<1>4. Advances(r, c, S, later)
  BY <1>1, <1>3, PendingAdvances
<1>5. /\ ToSet(popped) = S /\ known \in Known
      /\ \A m \in ModelsOf(mwPass) : Knows(mwFile, known[m], PublicBefore(mwFile, c))
  BY <1>1, <1>3, KnownAdvances
<1>6. WalkRecords' = R
  BY <1>1, <1>3 DEF WalkRecords, TuneData
<1>7. \A x : WalkCutoff(x)' = WalkCutoff(x)
  BY <1>1, <1>3 DEF WalkCutoff
<1>8. walk \in Walks /\ mwRows = [w \in Walks |-> mwRows[w]] /\ \A w \in Walks : IsSequence(mwRows[w])
  BY <1>1 DEF WalkInv, WalkTypeOK
<1>9. /\ mwRows' = [w \in Walks |-> mwRows'[w]]
      /\ mwRows'[walk] = Append(mwRows[walk], row)
      /\ \A w \in Walks \ {walk} : mwRows'[w] = mwRows[w]
  BY <1>2, <1>8
<1>10. ASSUME NEW w \in Walks
       PROVE  /\ IsSequence(mwRows'[w])
              /\ \A x \in ToSet(mwRows'[w]) : x \in ToSet(mwRows[w]) \/ (w = walk /\ x = row)
  <2>0. PICK old, new : old = mwRows[w] /\ new = mwRows'[w]
    OBVIOUS
  <2>1. IsSequence(old)
    BY <1>8, <2>0
  <2>2. /\ IsSequence(new)
        /\ \A x \in ToSet(new) : x \in ToSet(old) \/ (w = walk /\ x = row)
    <3>1. CASE w = walk
      <4>1. new = Append(old, row)
        BY <1>9, <2>0, <3>1
      <4>2. IsSequence(Append(old, row)) /\ ToSet(Append(old, row)) = ToSet(old) \cup {row}
        BY <2>1, Appended
      <4> QED BY <3>1, <4>1, <4>2
    <3>2. CASE w # walk
      <4>1. new = old
        BY <1>9, <2>0, <3>2
      <4> QED BY <2>1, <4>1
    <3> QED BY <3>1, <3>2
  <2> QED BY <2>0, <2>2
<1>11. WalkTypeOK'
  <2>1. (/\ mwFile \in Seq(Record) /\ mwPass \in Passes)'
    BY <1>1, <1>3 DEF WalkInv, WalkTypeOK
  <2>2. (mwKnown \in [elo : Seq(Entry), goals : Seq(Entry)])'
    BY <1>3, <1>5 DEF Known
  <2>3. \A w \in Walks : IsSequence(mwRows'[w])
    BY <1>10
  <2> QED BY <1>9, <2>1, <2>2, <2>3 DEF WalkTypeOK
<1>12. DatasetAccepted'
  BY <1>1, <1>3 DEF WalkInv, DatasetAccepted
<1>13. HeapHoldsTheRest'
  <2>1. mwPending' = later
    BY <1>1, <1>3, <1>5
  <2>2. /\ mwPos + 1 \in 1..(Len(R) + 1) /\ later \subseteq Behind(R, mwPos + 1)
        /\ \A x \in Behind(R, mwPos + 1) : x \in later <=> x.available >= c
        /\ Behind(R, mwPos + 1) \ later = PublicBefore(file, c)
    BY <1>1, <1>4 DEF Advances
  <2>3. WalkCutoff(WalkRecords[mwPos - 1])' = c
    <3>1. mwPos' - 1 = mwPos
      <4>1. mwPos \in Nat
        BY DEF WalkInv, HeapHoldsTheRest
      <4> QED BY <1>3, <4>1
    <3>2. WalkRecords'[mwPos' - 1] = r
      BY <1>1, <1>6, <3>1
    <3> QED BY <1>1, <1>7, <3>2
  <2>4. Absorbed' = PublicBefore(file, c)
    BY <1>3, <1>6, <2>1, <2>2 DEF Absorbed
  <2>5. \A m \in ModelsOf(walk) : Knows(file, known[m], PublicBefore(file, c))
    BY <1>1, <1>5
  <2>6. /\ mwPos' \in 1..(Len(WalkRecords') + 1)
        /\ mwPending' \subseteq Behind(WalkRecords', mwPos')
        /\ \A x \in Behind(WalkRecords', mwPos') : x \in mwPending' <=> x.available >= c
    BY <1>3, <1>6, <2>1, <2>2
  <2>7. \A m \in ModelsOf(mwPass') : Knows(mwFile', mwKnown'[m], Absorbed')
    BY <1>3, <2>4, <2>5
  <2> QED BY <2>3, <2>6, <2>7 DEF HeapHoldsTheRest
<1>14. RowsKnow'
  <2>1. /\ \A w \in Walks : \A x \in ToSet(mwRows[w]) : \A m \in ModelsOf(w) :
             Knows(file, x.known[m], PublicBefore(file, x.cutoff))
        /\ \A m \in {"elo", "goals"} : mwFinal[m] # <<>> => Knows(file, mwFinal[m], ToSet(file))
    BY <1>1 DEF WalkInv, RowsKnow
  <2>2. \A m \in ModelsOf(walk) : Knows(file, row.known[m], PublicBefore(file, row.cutoff))
    BY <1>1, <1>2, <1>5
  <2>3. \A w \in Walks : \A x \in ToSet(mwRows'[w]) : \A m \in ModelsOf(w) :
          Knows(file, x.known[m], PublicBefore(file, x.cutoff))
    BY <1>10, <2>1, <2>2
  <2> QED BY <1>3, <2>1, <2>3 DEF RowsKnow
<1> QED BY <1>11, <1>12, <1>13, <1>14 DEF WalkInv

-----------------------------------------------------------------------------
(* The other steps                                                          *)

LEMMA FreshWalkKeeps ==
    ASSUME WalkTypeOK', DatasetAccepted', FreshWalk
    PROVE  HeapHoldsTheRest'
<1>1. PICK file, records : file = mwFile' /\ records = WalkRecords'
  OBVIOUS
<1>2. mwPos' = 1 /\ mwPending' = {} /\ mwKnown' = NothingKnown
  BY DEF FreshWalk
<1> SUFFICES ASSUME mwPass' \in Walks PROVE HeapHoldsTheRest'
  BY DEF HeapHoldsTheRest
<1>3. file \in Seq(Record)
  BY <1>1 DEF WalkTypeOK
<1>4. records \in Seq(Record)
  <2>1. CASE mwPass' \in {"elo tune", "goals tune"}
    <3>1. Len(SeasonsOf(file)) = RequiredSeasons
      BY <1>1, <2>1 DEF DatasetAccepted, Walks
    <3>2. RequiredSeasons - 2 \in 1..Len(SeasonsOf(file))
      BY <3>1, WalkAssumption
    <3>3. StandardSplit(file).validation = SeasonsOf(file)[RequiredSeasons - 2]
      BY DEF StandardSplit
    <3>4. records = ThroughSeason(file, StandardSplit(file).validation)
      BY <1>1, <2>1 DEF WalkRecords, TuneData
    <3> QED BY <1>3, <3>2, <3>3, <3>4, ThroughFiltered
  <2>2. CASE mwPass' \notin {"elo tune", "goals tune"}
    BY <1>1, <1>3, <2>2 DEF WalkRecords
  <2> QED BY <2>1, <2>2
<1>5. Len(records) \in Nat
  BY <1>4, LenProperties
<1>6. Behind(records, 1) = {}
  BY DEF Behind
<1>7. Absorbed' = {}
  BY <1>1, <1>2, <1>6 DEF Absorbed
<1>8. \A m \in ModelsOf(mwPass') : Knows(file, NothingKnown[m], {})
  BY NothingKnows, ModelNames
<1>9. /\ mwPos' \in 1..(Len(records) + 1) /\ mwPending' \subseteq Behind(records, mwPos')
      /\ ~(mwPos' > 1)
  BY <1>2, <1>5, <1>6
<1>10. \A m \in ModelsOf(mwPass') : Knows(mwFile', mwKnown'[m], Absorbed')
  BY <1>1, <1>2, <1>7, <1>8
<1> QED BY <1>1, <1>9, <1>10 DEF HeapHoldsTheRest

\* The end of one program and the start of the next.
LEMMA NextWalkKeeps ==
    ASSUME WalkInv, FreshWalk, mwFile' = mwFile, mwRows' = mwRows,
           mwPass' \in Passes, DatasetAccepted', RowsKnow'
    PROVE  WalkInv'
<1>1. mwKnown' \in [elo : Seq(Entry), goals : Seq(Entry)]
  BY NothingKnows DEF FreshWalk, Known
<1>2. WalkTypeOK'
  BY <1>1 DEF WalkInv, WalkTypeOK
<1>3. HeapHoldsTheRest'
  BY <1>2, FreshWalkKeeps
<1> QED BY <1>2, <1>3 DEF WalkInv

LEMMA LoadKeeps ==
    ASSUME WalkInv, LoadHistoricalDataset
    PROVE  WalkInv'
<1>1. mwFile' = mwFile /\ mwRows' = mwRows /\ mwFinal' = mwFinal /\ FreshWalk
  BY DEF LoadHistoricalDataset
<1>2. mwPass' = IF FileRejected(mwFile) THEN "rejected"
                ELSE IF Len(SeasonsOf(mwFile)) = RequiredSeasons THEN "elo tune"
                ELSE "features"
  BY DEF LoadHistoricalDataset
<1>3. mwPass' \in Passes
  BY <1>2 DEF Passes, Walks
<1>4. DatasetAccepted'
  BY <1>1, <1>2 DEF DatasetAccepted, Walks
<1>5. RowsKnow'
  BY <1>1 DEF WalkInv, RowsKnow
<1> QED BY <1>1, <1>3, <1>4, <1>5, NextWalkKeeps

LEMMA TuneKeeps ==
    ASSUME WalkInv, NEW walk \in {"elo tune", "goals tune"},
           NEW next \in {"elo test", "goals test"}, Tune(walk, next)
    PROVE  WalkInv'
<1>1. /\ mwFile' = mwFile /\ mwRows' = mwRows /\ mwFinal' = mwFinal /\ FreshWalk
      /\ mwPass = walk /\ mwPass' = next
  BY DEF Tune
<1>2. mwPass' \in Passes
  BY <1>1 DEF Passes, Walks
<1>3. DatasetAccepted'
  BY <1>1 DEF WalkInv, DatasetAccepted, Walks
<1>4. RowsKnow'
  BY <1>1 DEF WalkInv, RowsKnow
<1> QED BY <1>1, <1>2, <1>3, <1>4, NextWalkKeeps

\* At its end the training absorbs what the heap still holds: then it knows
\* every result of the file.
TrainingEnded == mwPass \in {"elo test", "goals test"} /\ mwPos > Len(WalkRecords)

LEMMA TrainedOnAll ==
    ASSUME WalkInv, TrainingEnded
    PROVE  \A m \in ModelsOf(mwPass) :
             Knows(mwFile, Absorb(mwKnown, Popped(mwPending))[m], ToSet(mwFile))
<1> DEFINE n == Len(mwFile)
<1>1. WalkRecords = mwFile /\ mwPass \in Walks
  BY DEF WalkRecords, Walks, TrainingEnded
<1>2. mwFile \in Seq(Record) /\ ~FileRejected(mwFile)
  BY DEF WalkInv, WalkTypeOK, DatasetAccepted, TrainingEnded
<1>3. /\ mwPos \in 1..(n + 1) /\ mwPos > n
      /\ mwPending \subseteq Behind(mwFile, mwPos)
      /\ mwPos > 1 => \A x \in Behind(mwFile, mwPos) :
           x \in mwPending <=> x.available >= WalkCutoff(mwFile[mwPos - 1])
      /\ \A m \in ModelsOf(mwPass) : Knows(mwFile, mwKnown[m], Absorbed)
  BY <1>1 DEF WalkInv, HeapHoldsTheRest, TrainingEnded
<1>4. n \in Nat /\ DOMAIN mwFile = 1..n /\ n > 0 /\ \A i \in 1..n : mwFile[i] \in Record
  <2>1. n \in Nat /\ DOMAIN mwFile = 1..n /\ mwFile # <<>>
    BY <1>2, Accepted
  <2>2. Len(mwFile) # 0
    BY <1>2, <2>1, EmptySeq, Zenon
  <2>3. n # 0
    BY <2>2
  <2>4. \A i \in 1..n : mwFile[i] \in Record
    BY <1>2, RecordFacts
  <2> HIDE DEF n
  <2> QED BY <2>1, <2>3, <2>4
<1> HIDE DEF n
<1>5. mwPos = n + 1 /\ mwPos - 1 = n /\ mwPos > 1 /\ n \in 1..n
  BY <1>3, <1>4
<1>6. Behind(mwFile, mwPos) = ToSet(mwFile)
  BY <1>4, <1>5 DEF Behind, ToSet
<1>7. PICK A, B, known, last :
        A = Absorbed /\ B = mwPending /\ known = mwKnown /\ last = WalkCutoff(mwFile[n])
  OBVIOUS
<1>8. /\ A \in SUBSET ToSet(mwFile) /\ B \in SUBSET ToSet(mwFile) /\ A \cup B = ToSet(mwFile)
      /\ A \cap B = {}
  BY <1>1, <1>3, <1>6, <1>7 DEF Absorbed
<1>9. ASSUME NEW x \in A, NEW s \in B PROVE HeapOrder(x, s)
  <2>1. last \in Int
    <3>1. mwFile[n] \in Record
      BY <1>4, <1>5
    <3> QED BY <1>7, <3>1, Cutoffs
  <2>2. \A y \in ToSet(mwFile) : (y \in B <=> y.available >= last)
    BY <1>3, <1>5, <1>6, <1>7
  <2>3. x \in ToSet(mwFile) /\ s \in ToSet(mwFile) /\ x \notin B
    BY <1>8
  <2>4. x.available \in Int /\ s.available \in Int
    <3>1. x \in Record /\ s \in Record
      BY <1>2, <2>3, FileRecords
    <3> QED BY <3>1 DEF Record
  <2>5. ~(x.available >= last) /\ s.available >= last
    BY <2>2, <2>3
  <2>6. x.available < s.available
    <3> DEFINE a == x.available
               b == s.available
    <3>1. a \in Int /\ b \in Int /\ ~(a >= last) /\ b >= last
      BY <2>4, <2>5
    <3> HIDE DEF a, b
    <3>2. a < b
      BY <2>1, <3>1
    <3> QED BY <3>2 DEF a, b
  <2> QED BY <2>6 DEF HeapOrder
<1>10. known \in Known /\ \A m \in ModelsOf(mwPass) : Knows(mwFile, known[m], A)
  BY <1>3, <1>7 DEF WalkInv, WalkTypeOK, Known
<1>11. \A m \in ModelsOf(mwPass) : Knows(mwFile, Absorb(known, Popped(B))[m], A \cup B)
  BY <1>2, <1>8, <1>9, <1>10, PoppedKnown
<1> QED BY <1>7, <1>8, <1>11

LEMMA TrainKeeps ==
    ASSUME WalkInv, NEW walk \in {"elo test", "goals test"},
           NEW next \in {"goals tune", "features"}, Train(walk, next)
    PROVE  WalkInv'
<1>1. /\ mwFile' = mwFile /\ mwRows' = mwRows /\ FreshWalk
      /\ mwPass = walk /\ mwPass' = next /\ TrainingEnded
      /\ mwFinal' = [m \in {"elo", "goals"} |->
                       IF m \in ModelsOf(walk) THEN Absorb(mwKnown, Popped(mwPending))[m]
                       ELSE mwFinal[m]]
  BY DEF Train, TrainingEnded
<1>2. mwPass' \in Passes
  BY <1>1 DEF Passes, Walks
<1>3. DatasetAccepted'
  BY <1>1 DEF WalkInv, DatasetAccepted, Walks
<1>4. RowsKnow'
  <2>1. PICK file, rest, final : /\ file = mwFile /\ final = mwFinal
                                 /\ rest = Absorb(mwKnown, Popped(mwPending))
    OBVIOUS
  <2>2. \A m \in ModelsOf(walk) : Knows(file, rest[m], ToSet(file))
    BY <1>1, <2>1, TrainedOnAll
  <2>3. /\ \A w \in Walks : \A row \in ToSet(mwRows[w]) : \A m \in ModelsOf(w) :
             Knows(file, row.known[m], PublicBefore(file, row.cutoff))
        /\ \A m \in {"elo", "goals"} : final[m] # <<>> => Knows(file, final[m], ToSet(file))
    BY <2>1 DEF WalkInv, RowsKnow
  <2>4. ASSUME NEW m \in {"elo", "goals"}, mwFinal'[m] # <<>>
        PROVE  Knows(file, mwFinal'[m], ToSet(file))
    <3>1. CASE m \in ModelsOf(walk)
      <4>1. mwFinal'[m] = rest[m]
        BY <1>1, <2>1, <3>1
      <4> QED BY <2>2, <3>1, <4>1
    <3>2. CASE m \notin ModelsOf(walk)
      <4>1. mwFinal'[m] = final[m]
        BY <1>1, <2>1, <3>2
      <4> QED BY <2>3, <2>4, <4>1
    <3> QED BY <3>1, <3>2
  <2> QED BY <1>1, <2>1, <2>3, <2>4 DEF RowsKnow
<1> QED BY <1>1, <1>2, <1>3, <1>4, NextWalkKeeps

LEMMA FinishKeeps ==
    ASSUME WalkInv, FinishFeatures
    PROVE  WalkInv'
<1>1. /\ mwFile' = mwFile /\ mwRows' = mwRows /\ mwFinal' = mwFinal /\ mwKnown' = mwKnown
      /\ mwPass = "features" /\ mwPass' = "done"
  BY DEF FinishFeatures
<1>2. WalkTypeOK'
  BY <1>1 DEF WalkInv, WalkTypeOK, Passes
<1>3. DatasetAccepted' /\ HeapHoldsTheRest'
  BY <1>1 DEF WalkInv, DatasetAccepted, HeapHoldsTheRest, Walks
<1>4. RowsKnow'
  BY <1>1 DEF WalkInv, RowsKnow
<1> QED BY <1>2, <1>3, <1>4 DEF WalkInv

LEMMA WalkStarts == ASSUME MatchWalkInit PROVE WalkInv
<1>1. /\ mwFile \in Files /\ mwPass = "load" /\ mwKnown = NothingKnown
      /\ mwRows = [w \in Walks |-> <<>>] /\ mwFinal = NothingKnown
  BY DEF MatchWalkInit, MatchWalkStart
<1>2. ToSet(<<>>) = {} /\ IsSequence(<<>>)
  <2>1. DOMAIN <<>> = {}
    OBVIOUS
  <2>2. ToSet(<<>>) = {}
    BY <2>1 DEF ToSet
  <2> QED BY <2>2, EmptySeq DEF IsSequence
<1>3. WalkTypeOK
  <2>1. mwFile \in Seq(Record)
    BY <1>1, WalkAssumption
  <2>2. mwKnown \in [elo : Seq(Entry), goals : Seq(Entry)]
    BY <1>1, NothingKnows DEF Known
  <2>3. mwRows = [w \in Walks |-> mwRows[w]] /\ \A w \in Walks : IsSequence(mwRows[w])
    BY <1>1, <1>2
  <2> QED BY <1>1, <2>1, <2>2, <2>3 DEF WalkTypeOK, Passes
<1>4. DatasetAccepted /\ HeapHoldsTheRest
  BY <1>1 DEF DatasetAccepted, HeapHoldsTheRest, Walks
<1>5. RowsKnow
  <2>1. \A w \in Walks : ToSet(mwRows[w]) = {}
    BY <1>1, <1>2
  <2>2. \A m \in {"elo", "goals"} : mwFinal[m] = <<>>
    BY <1>1 DEF NothingKnown
  <2> QED BY <2>1, <2>2 DEF RowsKnow
<1> QED BY <1>3, <1>4, <1>5 DEF WalkInv

THEOREM WalkInvariance == MatchWalkSpec => []WalkInv
<1>1. MatchWalkInit => WalkInv
  BY WalkStarts
<1>2. ASSUME WalkInv, [MatchWalkNext]_matchWalkVars PROVE WalkInv'
  <2>1. CASE LoadHistoricalDataset
    BY <1>2, <2>1, LoadKeeps
  <2>2. CASE WalkForward
    BY <1>2, <2>2, WalkStepKeeps DEF WalkForward, Walks
  <2>3. CASE WalkForwardGoals
    BY <1>2, <2>3, WalkStepKeeps DEF WalkForwardGoals, Walks
  <2>4. CASE BuildPrematchFeatures
    BY <1>2, <2>4, WalkStepKeeps DEF BuildPrematchFeatures, Walks
  <2>5. CASE TuneElo
    BY <1>2, <2>5, TuneKeeps DEF TuneElo
  <2>6. CASE TuneGoalModel
    BY <1>2, <2>6, TuneKeeps DEF TuneGoalModel
  <2>7. CASE TrainBaseline
    BY <1>2, <2>7, TrainKeeps DEF TrainBaseline
  <2>8. CASE TrainGoalModel
    BY <1>2, <2>8, TrainKeeps DEF TrainGoalModel
  <2>9. CASE FinishFeatures
    BY <1>2, <2>9, FinishKeeps
  <2>10. CASE UNCHANGED matchWalkVars
    <3>1. /\ mwFile' = mwFile /\ mwPass' = mwPass /\ mwPos' = mwPos /\ mwPending' = mwPending
          /\ mwKnown' = mwKnown /\ mwRows' = mwRows /\ mwFinal' = mwFinal
      BY <2>10 DEF matchWalkVars
    <3>2. WalkRecords' = WalkRecords
      BY <3>1 DEF WalkRecords, TuneData
    <3>3. \A x : WalkCutoff(x)' = WalkCutoff(x)
      BY <3>1 DEF WalkCutoff
    <3>4. Absorbed' = Absorbed
      BY <3>1, <3>2 DEF Absorbed
    <3>5. HeapHoldsTheRest'
      BY <1>2, <3>1, <3>2, <3>3, <3>4 DEF WalkInv, HeapHoldsTheRest
    <3>6. WalkTypeOK' /\ DatasetAccepted' /\ RowsKnow'
      BY <1>2, <3>1 DEF WalkInv, WalkTypeOK, DatasetAccepted, RowsKnow
    <3> QED BY <3>5, <3>6 DEF WalkInv
  <2> QED BY <1>2, <2>1, <2>2, <2>3, <2>4, <2>5, <2>6, <2>7, <2>8, <2>9, <2>10
          DEF MatchWalkNext
<1> QED BY <1>1, <1>2, PTL DEF MatchWalkSpec

\* Every prediction and every feature row knows exactly the results that were
\* public before its cutoff, absorbed in the order in which they became public,
\* and a trained model has absorbed every result of the file once: the walks of
\* walk_forward, walk_forward_goals and build_prematch_features, each with its heap.
THEOREM RowsKnowThePast == MatchWalkSpec => []RowKnowsExactlyThePast
<1>1. WalkInv => RowKnowsExactlyThePast
  BY DEF WalkInv, RowsKnow, Knows, PublicBefore, RowKnowsExactlyThePast
<1> QED BY <1>1, WalkInvariance, PTL

-----------------------------------------------------------------------------
(* The form of a club                                                       *)

Observation == [id : Int, kickoff : Int, available : Int]

PlaysIn(c, r) == c \in {r.home, r.away}

\* The results of a club among these records, and the fixtures it plays in them.
ResultsOf(records, c) == {ResultObservation(r) : r \in {x \in records : PlaysIn(c, x)}}
FixturesOf(records, c) ==
    {[id |-> r.id, kickoff |-> r.kickoff] : r \in {x \in records : PlaysIn(c, x)}}

\* In the feature walk a club has the results that were absorbed and the fixtures
\* of all that was passed.
HistoriesHold ==
    mwPass = "features" => \A c \in Clubs :
        /\ ToSet(mwHistory[c]) = ResultsOf(Absorbed, c)
        /\ mwSchedule[c] = FixturesOf(Behind(WalkRecords, mwPos), c)

\* A form in the order of its kickoffs, with no later known result left out.
MostRecent(form, known) ==
    /\ \A i, j \in DOMAIN form : i < j => form[i].kickoff <= form[j].kickoff
    /\ \A r \in known : r.id \notin {form[i].id : i \in DOMAIN form} =>
         /\ Len(form) = FormWindow
         /\ \A i \in DOMAIN form : r.kickoff <= form[i].kickoff

\* What the features of a club hold at a cutoff.
FormKnown(file, cut, c, features) ==
    /\ {p.id : p \in features.played}
         = {r.id : r \in {x \in ToSet(file) : x.kickoff < cut /\ PlaysIn(c, x)}}
    /\ MostRecent(features.form,
                  {r \in ToSet(file) : r.available < cut /\ PlaysIn(c, r)})

\* What a feature row holds of its two clubs.
RowForm(file, row) ==
    \A c \in DOMAIN row.teams : FormKnown(file, row.cutoff, c, row.teams[c])

FormInv ==
    /\ HistoriesHold
    /\ \A row \in ToSet(mwRows["features"]) : RowForm(mwFile, row)

LEMMA HistoryOrders ==
    ASSUME NEW o \in Observation, NEW p \in Observation, NEW q \in Observation
    PROVE  /\ ~HistoryOrder(o, o)
           /\ HistoryOrder(o, p) /\ HistoryOrder(p, q) => HistoryOrder(o, q)
           /\ o.id # p.id => HistoryOrder(o, p) \/ HistoryOrder(p, o)
           /\ HistoryOrder(o, p) => o.kickoff <= p.kickoff
<1>1. /\ o.kickoff \in Int /\ p.kickoff \in Int /\ q.kickoff \in Int
      /\ o.available \in Int /\ p.available \in Int /\ q.available \in Int
      /\ o.id \in Int /\ p.id \in Int /\ q.id \in Int
  BY DEF Observation
<1> QED BY <1>1 DEF HistoryOrder, HeapOrder

\* A history in the order of its kickoffs.
LEMMA InKickoffOrder ==
    ASSUME NEW S \in SUBSET Observation, IsFiniteSet(S), OneEach(S)
    PROVE  /\ ByKickoff(S) \in Seq(S) /\ Len(ByKickoff(S)) \in Nat
           /\ \A o \in S : \E i \in 1..Len(ByKickoff(S)) : ByKickoff(S)[i] = o
           /\ \A i \in 1..Len(ByKickoff(S)) : ByKickoff(S)[i] \in S
           /\ \A i, j \in 1..Len(ByKickoff(S)) :
                i < j => ByKickoff(S)[i].kickoff <= ByKickoff(S)[j].kickoff
<1> DEFINE below == [o \in S |-> {p \in S : HistoryOrder(p, o)}]
           q == InPlaces(S, below)
<1>1. below \in [S -> SUBSET S] /\ \A o, p \in S : o \in below[p] <=> HistoryOrder(o, p)
  OBVIOUS
<1>2. ByKickoff(S) = q
  BY DEF ByKickoff
<1> HIDE DEF below
<1>3. \A o \in S : o \notin below[o]
  BY <1>1, HistoryOrders
<1>4. \A o, p \in S : o \in below[p] => below[o] \subseteq below[p]
  <2> SUFFICES ASSUME NEW o \in S, NEW p \in S, o \in below[p], NEW t \in below[o]
               PROVE  t \in below[p]
    OBVIOUS
  <2>1. t \in S
    BY <1>1
  <2> QED BY <1>1, <2>1, HistoryOrders
<1>5. \A o, p \in S : o # p => o \in below[p] \/ p \in below[o]
  BY <1>1, HistoryOrders DEF OneEach
<1>6. /\ q \in Seq(S) /\ Len(q) \in Nat
      /\ \A o \in S : \E i \in 1..Len(q) : q[i] = o
      /\ \A i \in 1..Len(q) : q[i] \in S
      /\ \A i, j \in 1..Len(q) : i < j => q[i] \in below[q[j]]
  BY <1>1, <1>3, <1>4, <1>5, PlacesInOrder
<1> HIDE DEF q
<1>7. ASSUME NEW i \in 1..Len(q), NEW j \in 1..Len(q), i < j
      PROVE  q[i].kickoff <= q[j].kickoff
  <2>1. PICK o \in S, p \in S : o = q[i] /\ p = q[j]
    BY <1>6
  <2>2. HistoryOrder(o, p)
    BY <1>1, <1>6, <1>7, <2>1
  <2>3. o.kickoff <= p.kickoff
    BY <2>2, HistoryOrders
  <2> QED BY <2>1, <2>3
<1> QED BY <1>2, <1>6, <1>7

LastResults(h) ==
    SubSeq(h, IF Len(h) > FormWindow THEN Len(h) - FormWindow + 1 ELSE 1, Len(h))

\* The last results of a history are the most recent ones.
LEMMA LastAreRecent ==
    ASSUME NEW h \in Seq(Observation), NEW known,
           \A i, j \in 1..Len(h) : i < j => h[i].kickoff <= h[j].kickoff,
           \A r \in known : \E i \in 1..Len(h) : h[i].id = r.id /\ h[i].kickoff = r.kickoff,
           NEW form, form = LastResults(h)
    PROVE  MostRecent(form, known)
<1> DEFINE n == Len(h)
<1>1. n \in Nat /\ FormWindow \in Nat \ {0} /\ \A i \in 1..n : h[i] \in Observation
  BY WalkAssumption, LenProperties, ElementOfSeq
<1>2. form = SubSeq(h, IF n > FormWindow THEN n - FormWindow + 1 ELSE 1, n)
  BY DEF LastResults
<1> HIDE DEF n
\* the form begins after the first s results and has m of them
<1>3. PICK s \in Nat, m \in Nat :
        s + m = n /\ form = SubSeq(h, s + 1, n) /\ (s > 0 => m = FormWindow)
  <2>1. CASE n > FormWindow
    <3>1. PICK s : s = n - FormWindow
      OBVIOUS
    <3>2. s \in Nat /\ s + FormWindow = n /\ n - FormWindow + 1 = s + 1
      BY <1>1, <2>1, <3>1
    <3> QED BY <1>1, <1>2, <2>1, <3>2
  <2>2. CASE ~(n > FormWindow)
    <3>1. form = SubSeq(h, 0 + 1, n) /\ 0 + n = n
      BY <1>1, <1>2, <2>2
    <3> QED BY <1>1, <3>1
  <2> QED BY <2>1, <2>2
<1>4. form \in Seq(Observation) /\ Len(form) = m /\ \A i \in 1..m : form[i] = h[s + i]
  <2>1. PICK first : first = s + 1
    OBVIOUS
  <2>2. first \in Int /\ n \in Int /\ \A i \in first..n : h[i] \in Observation
    BY <1>1, <2>1
  <2>3. /\ form \in Seq(Observation) /\ Len(form) = IF first <= n THEN n - first + 1 ELSE 0
        /\ \A i \in 1..(n - first + 1) : form[i] = h[first + i - 1]
    BY <1>3, <2>1, <2>2, SubSeqProperties
  <2>4. n - first + 1 = m /\ (first <= n \/ m = 0)
    BY <1>1, <1>3, <2>1
  <2>5. \A i \in 1..m : first + i - 1 = s + i
    BY <2>1
  <2> QED BY <2>3, <2>4, <2>5
<1>5. DOMAIN form = 1..m
  BY <1>4, LenProperties
<1>6. \A i \in 1..m : s + i \in 1..n
  BY <1>3
<1>7. ASSUME NEW i \in 1..m, NEW j \in 1..m, i < j
      PROVE  form[i].kickoff <= form[j].kickoff
  <2>1. PICK a, b : a = s + i /\ b = s + j
    OBVIOUS
  <2>2. a \in 1..n /\ b \in 1..n /\ form[i] = h[a] /\ form[j] = h[b]
    BY <1>4, <1>6, <2>1
  <2>3. a < b
    BY <1>7, <2>1
  <2> QED BY <2>2, <2>3 DEF n
<1>8. ASSUME NEW r \in known, r.id \notin {form[i].id : i \in 1..m}
      PROVE  m = FormWindow /\ \A i \in 1..m : r.kickoff <= form[i].kickoff
  <2>1. PICK k \in 1..n : h[k].id = r.id /\ h[k].kickoff = r.kickoff
    BY DEF n
  <2>2. ASSUME NEW i \in 1..m, s + i = k PROVE FALSE
    <3>1. form[i] = h[k]
      BY <1>4, <2>2
    <3> QED BY <1>8, <2>1, <3>1
  <2>3. k <= s
    <3>1. k - s \in 1..m \/ k <= s
      BY <1>1, <1>3
    <3>2. s + (k - s) = k
      BY <1>1
    <3> QED BY <2>2, <3>1, <3>2
  <2>4. s > 0
    BY <1>1, <2>3
  <2>5. ASSUME NEW i \in 1..m PROVE r.kickoff <= form[i].kickoff
    <3>1. PICK a : a = s + i
      OBVIOUS
    <3>2. a \in 1..n /\ form[i] = h[a]
      BY <1>4, <1>6, <3>1
    <3>3. k < a
      BY <1>1, <2>3, <3>1
    <3>4. h[k].kickoff <= h[a].kickoff
      BY <3>2, <3>3 DEF n
    <3> QED BY <2>1, <3>2, <3>4
  <2> QED BY <1>3, <2>4, <2>5
<1> QED BY <1>4, <1>5, <1>7, <1>8 DEF MostRecent

LEMMA Observations ==
    ASSUME NEW A \in SUBSET Record, IsFiniteSet(A), OneEach(A), NEW c
    PROVE  /\ ResultsOf(A, c) \in SUBSET Observation /\ IsFiniteSet(ResultsOf(A, c))
           /\ OneEach(ResultsOf(A, c))
<1> DEFINE played == {r \in A : PlaysIn(c, r)}
           obs == ResultsOf(A, c)
<1>1. \A r \in A : /\ ResultObservation(r) \in Observation
                   /\ ResultObservation(r).id = r.id
  BY DEF ResultObservation, Record, Observation
<1>2. obs = {ResultObservation(r) : r \in played}
  BY DEF ResultsOf
<1>3. IsFiniteSet(played)
  <2>1. played \in SUBSET A
    OBVIOUS
  <2> HIDE DEF played
  <2> QED BY <2>1, FS_Subset
<1>4. IsFiniteSet(obs)
  <2> DEFINE f == [r \in played |-> ResultObservation(r)]
  <2>1. f \in Surjection(played, obs)
    BY <1>2 DEF Surjection
  <2> HIDE DEF f, played, obs
  <2> QED BY <1>3, <2>1, FS_Surjection
<1>5. ASSUME NEW o \in obs, NEW p \in obs, o.id = p.id PROVE o = p
  <2>1. PICK r \in A, t \in A : o = ResultObservation(r) /\ p = ResultObservation(t)
    BY <1>2
  <2>2. r.id = t.id
    BY <1>1, <1>5, <2>1
  <2> QED BY <2>1, <2>2 DEF OneEach
<1> HIDE DEF obs, played
<1>6. obs \in SUBSET Observation
  BY <1>1, <1>2 DEF played
<1> QED BY <1>4, <1>5, <1>6 DEF OneEach, obs

\* What a club knows is what it knew and what the heap has given for it.
LEMMA HistoryAppended ==
    ASSUME NEW c, NEW A, NEW B, NEW popped, ToSet(popped) = B,
           ToSet(mwHistory[c]) = ResultsOf(A, c)
    PROVE  AppendHistory(c, popped) = ByKickoff(ResultsOf(A \cup B, c))
<1> DEFINE new == {ResultObservation(popped[i]) :
                     i \in {j \in DOMAIN popped : c \in {popped[j].home, popped[j].away}}}
<1>1. B = {popped[i] : i \in DOMAIN popped}
  BY DEF ToSet
<1>2. new = ResultsOf(B, c)
  BY <1>1 DEF ResultsOf, PlaysIn
<1>3. ResultsOf(A, c) \cup ResultsOf(B, c) = ResultsOf(A \cup B, c)
  BY DEF ResultsOf
<1>4. AppendHistory(c, popped) = ByKickoff(ToSet(mwHistory[c]) \cup new)
  BY DEF AppendHistory
<1> QED BY <1>2, <1>3, <1>4

\* The features of a club at a record of the feature walk.
LEMMA FormFound ==
    ASSUME WalkInv, HistoriesHold, mwPass = "features", mwPos <= Len(WalkRecords),
           NEW r, r = WalkRecords[mwPos], NEW cut, cut = WalkCutoff(r),
           NEW popped, popped = PopAvailable(cut), NEW c \in Clubs, NEW history,
           history[c] = AppendHistory(c, popped)
    PROVE  /\ ToSet(history[c]) = ResultsOf(PublicBefore(mwFile, cut), c)
           /\ FormKnown(mwFile, cut, c, TeamFeatures(c, history, cut))
<1>1. mwPass \in Walks
  BY DEF Walks
<1>2. PICK S, later, A, past, file, h, R, p :
        /\ S = {x \in mwPending : x.available < cut} /\ later = (mwPending \ S) \cup {r}
        /\ A = Absorbed /\ past = PublicBefore(mwFile, cut) /\ file = mwFile
        /\ h = history[c] /\ R = WalkRecords /\ p = mwPos
  OBVIOUS
<1>3. r \in Record /\ A \cup S = past
  <2>1. Advances(r, cut, S, later)
    BY <1>1, <1>2, PendingAdvances
  <2> QED BY <1>2, <2>1 DEF Advances
<1>4. ToSet(popped) = S
  BY <1>1, <1>2, KnownAdvances
<1>5. ToSet(mwHistory[c]) = ResultsOf(A, c)
      /\ mwSchedule[c] = FixturesOf(Behind(R, p), c)
  BY <1>2 DEF HistoriesHold
<1>6. h = ByKickoff(ResultsOf(past, c))
  BY <1>2, <1>3, <1>4, <1>5, HistoryAppended
<1>7. /\ file \in Seq(Record) /\ ~FileRejected(file) /\ Chronicle(R) /\ R \in Seq(Record)
  BY <1>1, <1>2, WalkChronicle DEF WalkInv, WalkTypeOK, DatasetAccepted, Walks
<1>8. /\ ToSet(file) \in SUBSET Record /\ IsFiniteSet(ToSet(file)) /\ OneEach(ToSet(file))
  BY <1>2, <1>7, FileRecords
<1>9. past \in SUBSET Record /\ IsFiniteSet(past) /\ OneEach(past)
  <2>1. past \in SUBSET ToSet(file)
    BY <1>2 DEF PublicBefore
  <2>2. IsFiniteSet(past)
    <3> DEFINE T == ToSet(file)
    <3>1. IsFiniteSet(T) /\ past \in SUBSET T
      BY <1>8, <2>1
    <3> HIDE DEF T
    <3> QED BY <3>1, FS_Subset
  <2> QED BY <1>8, <2>1, <2>2 DEF OneEach
<1>10. PICK obs : obs = ResultsOf(past, c)
  OBVIOUS
<1>11. obs \in SUBSET Observation /\ IsFiniteSet(obs) /\ OneEach(obs)
  BY <1>9, <1>10, Observations
<1>12. /\ h \in Seq(obs) /\ Len(h) \in Nat
       /\ \A o \in obs : \E i \in 1..Len(h) : h[i] = o
       /\ \A i \in 1..Len(h) : h[i] \in obs
       /\ \A i, j \in 1..Len(h) : i < j => h[i].kickoff <= h[j].kickoff
  <2> DEFINE q == ByKickoff(obs)
  <2>1. /\ q \in Seq(obs) /\ Len(q) \in Nat
        /\ \A o \in obs : \E i \in 1..Len(q) : q[i] = o
        /\ \A i \in 1..Len(q) : q[i] \in obs
        /\ \A i, j \in 1..Len(q) : i < j => q[i].kickoff <= q[j].kickoff
    BY <1>11, InKickoffOrder
  <2>2. h = q
    BY <1>6, <1>10
  <2> HIDE DEF q
  <2> QED BY <2>1, <2>2
<1>13. DOMAIN h = 1..Len(h)
  BY <1>12, LenProperties
<1>14. ToSet(h) = obs
  BY <1>12, <1>13 DEF ToSet
<1>15. h \in Seq(Observation)
  <2> DEFINE n == Len(h)
  <2>1. h \in [1..n -> Observation]
    <3>1. h \in [1..n -> obs]
      BY <1>12, LenProperties
    <3> HIDE DEF n
    <3> QED BY <1>11, <3>1
  <2>2. n \in Nat
    BY <1>12
  <2> HIDE DEF n
  <2> QED BY <2>1, <2>2, SeqDef
<1>16. TeamFeatures(c, history, cut).form = LastResults(h)
       /\ TeamFeatures(c, history, cut).played = {s \in mwSchedule[c] : s.kickoff < cut}
  BY <1>2 DEF TeamFeatures, LastResults, LastOf
<1> DEFINE known == {x \in ToSet(file) : x.available < cut /\ PlaysIn(c, x)}
<1>17. ASSUME NEW x \in known
       PROVE  \E i \in 1..Len(h) : h[i].id = x.id /\ h[i].kickoff = x.kickoff
  <2>1. x \in past /\ PlaysIn(c, x)
    BY <1>2 DEF PublicBefore
  <2>2. ResultObservation(x) \in obs
    BY <1>10, <2>1 DEF ResultsOf
  <2>3. PICK i \in 1..Len(h) : h[i] = ResultObservation(x)
    BY <1>12, <2>2
  <2>4. h[i].id = x.id /\ h[i].kickoff = x.kickoff
    BY <2>3 DEF ResultObservation
  <2> QED BY <2>4
<1>18. MostRecent(LastResults(h), known)
  <2> HIDE DEF known
  <2> QED BY <1>12, <1>15, <1>17, LastAreRecent
<1>19. {s.id : s \in {t \in FixturesOf(Behind(R, p), c) : t.kickoff < cut}}
         = {x.id : x \in {y \in ToSet(file) : y.kickoff < cut /\ PlaysIn(c, y)}}
  <2>1. cut \in Int /\ cut <= r.kickoff /\ r.kickoff \in Int
    BY <1>2, <1>3, Cutoffs DEF Record
  <2>2. p \in 1..Len(R) /\ DOMAIN R = 1..Len(R) /\ r = R[p]
    <3>1. p \in 1..(Len(R) + 1) /\ p <= Len(R)
      BY <1>1, <1>2 DEF WalkInv, HeapHoldsTheRest
    <3>2. Len(R) \in Nat /\ DOMAIN R = 1..Len(R)
      BY <1>7, LenProperties
    <3> QED BY <1>2, <3>1, <3>2
  <2>3. Behind(R, p) \subseteq ToSet(file)
    <3>1. \A i \in 1..Len(R) : R[i] \in ToSet(file)
      BY <1>2, <1>7, ElementOfSeq DEF Chronicle
    <3>2. 1..(p - 1) \subseteq 1..Len(R)
      BY <2>2
    <3> QED BY <3>1, <3>2 DEF Behind
  <2>4. ASSUME NEW x \in ToSet(file), x.kickoff < cut
        PROVE  x \in Behind(R, p)
    <3>1. x.kickoff < R[p].kickoff
      <4>1. x.kickoff \in Int
        BY <1>8 DEF Record
      <4> QED BY <2>1, <2>2, <2>4, <4>1
    <3>2. PICK i \in 1..(p - 1) : R[i] = x
      BY <1>2, <1>7, <2>2, <3>1 DEF Chronicle
    <3> QED BY <3>2 DEF Behind
  <2> DEFINE fixture(x) == [id |-> x.id, kickoff |-> x.kickoff]
  <2>5. \A x : fixture(x).id = x.id /\ fixture(x).kickoff = x.kickoff
    OBVIOUS
  <2>6. FixturesOf(Behind(R, p), c) = {fixture(x) : x \in {y \in Behind(R, p) : PlaysIn(c, y)}}
    BY DEF FixturesOf
  <2> HIDE DEF fixture
  <2>7. ASSUME NEW s \in FixturesOf(Behind(R, p), c), s.kickoff < cut
        PROVE  s.id \in {x.id : x \in {y \in ToSet(file) : y.kickoff < cut /\ PlaysIn(c, y)}}
    <3>1. PICK x \in Behind(R, p) : PlaysIn(c, x) /\ s = fixture(x)
      BY <2>6
    <3>2. s.id = x.id /\ x.kickoff < cut /\ x \in ToSet(file)
      BY <2>3, <2>5, <2>7, <3>1
    <3> QED BY <3>1, <3>2
  <2>8. ASSUME NEW x \in ToSet(file), x.kickoff < cut, PlaysIn(c, x)
        PROVE  x.id \in {s.id : s \in {t \in FixturesOf(Behind(R, p), c) : t.kickoff < cut}}
    <3>1. fixture(x) \in FixturesOf(Behind(R, p), c)
      BY <2>4, <2>6, <2>8
    <3>2. fixture(x).kickoff < cut /\ fixture(x).id = x.id
      BY <2>5, <2>8
    <3> QED BY <3>1, <3>2, Zenon
  <2> QED BY <2>7, <2>8
<1>20. FormKnown(file, cut, c, TeamFeatures(c, history, cut))
  <2> DEFINE features == TeamFeatures(c, history, cut)
  <2>1. features.form = LastResults(h) /\ features.played = {s \in mwSchedule[c] : s.kickoff < cut}
    BY <1>16
  <2> HIDE DEF features
  <2>2. {s.id : s \in features.played}
          = {x.id : x \in {y \in ToSet(file) : y.kickoff < cut /\ PlaysIn(c, y)}}
    BY <1>5, <1>19, <2>1
  <2>3. MostRecent(features.form, known)
    BY <1>18, <2>1
  <2>4. FormKnown(file, cut, c, features)
    BY <2>2, <2>3 DEF FormKnown
  <2> QED BY <2>4 DEF features
<1>21. ToSet(history[c]) = ResultsOf(past, c)
  BY <1>2, <1>10, <1>14
<1> QED BY <1>2, <1>20, <1>21

LEMMA FeatureStepKeeps ==
    ASSUME WalkInv, FormInv, mwPass = "features", WalkStep
    PROVE  FormInv'
<1>a. PICK r, R, file : r = WalkRecords[mwPos] /\ R = WalkRecords /\ file = mwFile
  OBVIOUS
<1>b. PICK cut, popped : cut = WalkCutoff(r) /\ popped = PopAvailable(cut)
  OBVIOUS
<1>c. PICK past, S, later :
        /\ past = PublicBefore(mwFile, cut)
        /\ S = {x \in mwPending : x.available < cut} /\ later = (mwPending \ S) \cup {r}
  OBVIOUS
<1>1. /\ r = WalkRecords[mwPos] /\ cut = WalkCutoff(r) /\ popped = PopAvailable(cut)
      /\ R = WalkRecords /\ file = mwFile /\ past = PublicBefore(mwFile, cut)
      /\ S = {x \in mwPending : x.available < cut} /\ later = (mwPending \ S) \cup {r}
  BY <1>a, <1>b, <1>c
<1>2. PICK history, known :
        /\ mwHistory' = history /\ history = [c \in Clubs |-> AppendHistory(c, popped)]
        /\ mwRows' = [mwRows EXCEPT !["features"] = Append(@, WalkRow(r, known, history))]
  BY <1>1 DEF WalkStep
<1>3. /\ mwPos <= Len(R) /\ mwPos' = mwPos + 1 /\ mwFile' = file /\ mwPass' = "features"
      /\ mwPending' = (mwPending \ ToSet(popped)) \cup {r}
      /\ mwSchedule' = [c \in Clubs |->
                          IF c \in {r.home, r.away}
                          THEN mwSchedule[c] \cup {[id |-> r.id, kickoff |-> r.kickoff]}
                          ELSE mwSchedule[c]]
  BY <1>1 DEF WalkStep
<1>4. mwPass \in Walks
  BY DEF Walks
<1>5. Advances(r, cut, S, later)
  BY <1>1, <1>3, <1>4, PendingAdvances
<1>6. ToSet(popped) = S
  BY <1>1, <1>3, <1>4, KnownAdvances
<1>7. WalkRecords' = R
  BY <1>1, <1>3 DEF WalkRecords, TuneData
<1>8. ASSUME NEW c \in Clubs
      PROVE  /\ ToSet(history[c]) = ResultsOf(past, c)
             /\ FormKnown(file, cut, c, TeamFeatures(c, history, cut))
  <2>1. history[c] = AppendHistory(c, popped)
    BY <1>2
  <2>2. HistoriesHold /\ mwPos <= Len(WalkRecords)
    BY <1>1, <1>3 DEF FormInv
  <2>3. /\ ToSet(history[c]) = ResultsOf(PublicBefore(mwFile, cut), c)
        /\ FormKnown(mwFile, cut, c, TeamFeatures(c, history, cut))
    BY <1>a, <1>b, <2>1, <2>2, FormFound
  <2> QED BY <1>1, <2>3
<1>9. HistoriesHold'
  <2>1. Absorbed' = past
    BY <1>1, <1>3, <1>5, <1>6, <1>7 DEF Absorbed, Advances
  <2>2. ASSUME NEW c \in Clubs PROVE mwSchedule'[c] = FixturesOf(Behind(R, mwPos + 1), c)
    <3>1. Behind(R, mwPos + 1) = Behind(R, mwPos) \cup {r}
      <4>1. mwPos \in Nat /\ mwPos >= 1
        BY <1>4 DEF WalkInv, HeapHoldsTheRest
      <4>2. 1..(mwPos + 1 - 1) = 1..(mwPos - 1) \cup {mwPos}
        BY <4>1
      <4> QED BY <1>1, <4>2 DEF Behind
    <3>2. mwSchedule[c] = FixturesOf(Behind(R, mwPos), c)
      BY <1>1 DEF FormInv, HistoriesHold
    <3>3. CASE PlaysIn(c, r)
      <4>1. mwSchedule'[c] = mwSchedule[c] \cup {[id |-> r.id, kickoff |-> r.kickoff]}
        BY <1>3, <3>3 DEF PlaysIn
      <4>2. FixturesOf(Behind(R, mwPos) \cup {r}, c)
              = FixturesOf(Behind(R, mwPos), c) \cup {[id |-> r.id, kickoff |-> r.kickoff]}
        BY <3>3 DEF FixturesOf
      <4> QED BY <3>1, <3>2, <4>1, <4>2
    <3>4. CASE ~PlaysIn(c, r)
      <4>1. mwSchedule'[c] = mwSchedule[c]
        BY <1>3, <3>4 DEF PlaysIn
      <4>2. FixturesOf(Behind(R, mwPos) \cup {r}, c) = FixturesOf(Behind(R, mwPos), c)
        BY <3>4 DEF FixturesOf
      <4> QED BY <3>1, <3>2, <4>1, <4>2
    <3> QED BY <3>3, <3>4
  <2>3. \A c \in Clubs : ToSet(mwHistory'[c]) = ResultsOf(Absorbed', c)
    BY <1>2, <1>8, <2>1
  <2> QED BY <1>3, <1>7, <2>2, <2>3 DEF HistoriesHold
<1>10. ASSUME NEW row, row = WalkRow(r, known, history) PROVE RowForm(file, row)
  <2>1. row.cutoff = cut
        /\ row.teams = [c \in {r.home, r.away} |-> TeamFeatures(c, history, cut)]
    BY <1>1, <1>10 DEF WalkRow
  <2>2. r.home \in Clubs /\ r.away \in Clubs
    BY <1>5 DEF Advances, Record
  <2>3. \A c \in DOMAIN row.teams : c \in Clubs /\ row.teams[c] = TeamFeatures(c, history, cut)
    BY <2>1, <2>2
  <2> QED BY <1>8, <2>1, <2>3 DEF RowForm
<1>11. \A row \in ToSet(mwRows'["features"]) : RowForm(mwFile', row)
  <2>1. PICK old, row : old = mwRows["features"] /\ row = WalkRow(r, known, history)
    OBVIOUS
  <2>2. IsSequence(old)
    BY <2>1 DEF WalkInv, WalkTypeOK, Walks
  <2>3. ToSet(Append(old, row)) = ToSet(old) \cup {row}
    BY <2>2, Appended
  <2>4. mwRows'["features"] = Append(old, row)
    <3>1. mwRows = [w \in Walks |-> mwRows[w]] /\ "features" \in Walks
      BY DEF WalkInv, WalkTypeOK, Walks
    <3> QED BY <1>2, <2>1, <3>1
  <2>5. \A x \in ToSet(old) : RowForm(file, x)
    BY <1>1, <2>1 DEF FormInv
  <2> QED BY <1>3, <1>10, <2>1, <2>3, <2>4, <2>5
<1> QED BY <1>9, <1>11 DEF FormInv

\* The walks that train have no features: they leave the rows of the features be.
LEMMA OtherWalksKeep ==
    ASSUME WalkInv, FormInv, mwPass \in Walks \ {"features"}, WalkStep
    PROVE  FormInv'
<1>1. mwFile' = mwFile /\ mwPass' = mwPass
      /\ \E row : mwRows' = [mwRows EXCEPT ![mwPass] = Append(@, row)]
  BY DEF WalkStep
<1>2. mwRows'["features"] = mwRows["features"]
  <2>1. mwRows = [w \in Walks |-> mwRows[w]] /\ "features" \in Walks
    BY DEF WalkInv, WalkTypeOK, Walks
  <2> QED BY <1>1, <2>1
<1>3. HistoriesHold'
  BY <1>1 DEF HistoriesHold
<1> QED BY <1>1, <1>2, <1>3 DEF FormInv

\* A fresh walk knows no result and no fixture.
LEMMA FreshHistories ==
    ASSUME FormInv, FreshWalk, mwFile' = mwFile, mwRows' = mwRows
    PROVE  FormInv'
<1>1. PICK records : records = WalkRecords'
  OBVIOUS
<1>2. ToSet(<<>>) = {}
  <2>1. DOMAIN <<>> = {}
    OBVIOUS
  <2> QED BY <2>1 DEF ToSet
<1>3. Behind(records, 1) = {}
  BY DEF Behind
<1>4. \A c \in Clubs : mwHistory'[c] = <<>> /\ mwSchedule'[c] = {}
  BY DEF FreshWalk
<1>5. Absorbed' = {}
  BY <1>1, <1>3 DEF FreshWalk, Absorbed
<1>6. \A c : ResultsOf({}, c) = {} /\ FixturesOf({}, c) = {}
  BY DEF ResultsOf, FixturesOf
<1>7. HistoriesHold'
  BY <1>1, <1>2, <1>3, <1>4, <1>5, <1>6 DEF FreshWalk, HistoriesHold
<1> QED BY <1>7 DEF FormInv

\* The form of a club in a feature row is its most recent known results, whatever
\* the order of their publication, and its rest and congestion count all that it
\* played before the cutoff (apply_available, _team_features).
THEOREM FormsAreRecent == MatchWalkSpec => []FormIsMostRecent
<1>1. MatchWalkInit => FormInv
  <2> SUFFICES ASSUME MatchWalkInit PROVE FormInv
    OBVIOUS
  <2>1. mwPass = "load" /\ mwRows["features"] = <<>>
    BY DEF MatchWalkInit, MatchWalkStart, Walks
  <2>2. ToSet(<<>>) = {}
    <3>1. DOMAIN <<>> = {}
      OBVIOUS
    <3> QED BY <3>1 DEF ToSet
  <2> QED BY <2>1, <2>2 DEF FormInv, HistoriesHold
<1>2. ASSUME WalkInv, FormInv, [MatchWalkNext]_matchWalkVars PROVE FormInv'
  <2>1. CASE WalkForward \/ WalkForwardGoals
    BY <1>2, <2>1, OtherWalksKeep DEF WalkForward, WalkForwardGoals, Walks
  <2>2. CASE BuildPrematchFeatures
    BY <1>2, <2>2, FeatureStepKeeps DEF BuildPrematchFeatures
  <2>3. CASE \/ LoadHistoricalDataset \/ TuneElo \/ TuneGoalModel
             \/ TrainBaseline \/ TrainGoalModel
    <3>1. FreshWalk /\ mwFile' = mwFile /\ mwRows' = mwRows
      BY <2>3 DEF LoadHistoricalDataset, TuneElo, TuneGoalModel, TrainBaseline, TrainGoalModel,
                  Tune, Train
    <3> QED BY <1>2, <3>1, FreshHistories
  <2>4. CASE FinishFeatures
    BY <1>2, <2>4 DEF FinishFeatures, FormInv, HistoriesHold
  <2>5. CASE UNCHANGED matchWalkVars
    <3>1. /\ mwFile' = mwFile /\ mwPass' = mwPass /\ mwPos' = mwPos /\ mwPending' = mwPending
          /\ mwHistory' = mwHistory /\ mwSchedule' = mwSchedule /\ mwRows' = mwRows
      BY <2>5 DEF matchWalkVars
    <3>2. WalkRecords' = WalkRecords
      BY <3>1 DEF WalkRecords, TuneData
    <3>3. Absorbed' = Absorbed
      BY <3>1, <3>2 DEF Absorbed
    <3> QED BY <1>2, <3>1, <3>2, <3>3 DEF FormInv, HistoriesHold
  <2> QED BY <1>2, <2>1, <2>2, <2>3, <2>4, <2>5 DEF MatchWalkNext
<1>3. FormInv => FormIsMostRecent
  BY DEF FormInv, RowForm, FormKnown, MostRecent, PlaysIn, FormIsMostRecent
<1> QED BY <1>1, <1>2, <1>3, WalkInvariance, PTL DEF MatchWalkSpec

-----------------------------------------------------------------------------
(* The untouched test seasons                                               *)

Tunings == {"elo tune", "goals tune"}
Trainings == {"elo tune", "elo test", "goals tune", "goals test"}

TestIds == {mwFile[i].id : i \in TestRecords}

LEMMA SeasonsDiffer ==
    ASSUME NEW file \in Seq(Record), NEW i \in 1..Len(SeasonsOf(file)),
           NEW j \in 1..Len(SeasonsOf(file)), SeasonsOf(file)[i] = SeasonsOf(file)[j]
    PROVE  i = j
<1> DEFINE seasons == SeasonsOf(file)
<1>1. \A p, q \in 1..Len(seasons) : p < q =>
        \E a \in 1..Len(file) : /\ file[a].season = seasons[p]
                                /\ \A b \in 1..a : file[b].season # seasons[q]
  BY SeasonsFound DEF SeasonsMet
<1> HIDE DEF seasons
<1>2. ASSUME NEW p \in 1..Len(seasons), NEW q \in 1..Len(seasons), p < q
      PROVE  seasons[p] # seasons[q]
  <2>1. PICK a \in 1..Len(file) : /\ file[a].season = seasons[p]
                                /\ \A b \in 1..a : file[b].season # seasons[q]
    BY <1>1, <1>2
  <2>2. a \in 1..a
    OBVIOUS
  <2> QED BY <2>1, <2>2
<1>3. seasons[i] = seasons[j] /\ i \in 1..Len(seasons) /\ j \in 1..Len(seasons)
  BY DEF seasons
<1>4. Len(seasons) \in Nat
  <2>1. seasons \in Seq(Nat)
    BY SeasonsFound DEF SeasonsMet, seasons
  <2> QED BY <2>1, LenProperties
<1> QED BY <1>2, <1>3, <1>4

\* What is kept of the first seasons is the beginning of the file.
LEMMA ThroughIsPrefix ==
    ASSUME NEW file \in Seq(Record), ~FileRejected(file),
           NEW k \in 1..Len(SeasonsOf(file)),
           NEW kept, kept = ThroughSeason(file, SeasonsOf(file)[k])
    PROVE  /\ Len(kept) \in Nat /\ Len(kept) <= Len(file)
           /\ \A i \in 1..Len(kept) : i \in 1..Len(file) /\ kept[i] = file[i]
           /\ \A i \in 1..Len(kept) : \E j \in 1..k : file[i].season = SeasonsOf(file)[j]
<1> DEFINE n == Len(kept)
           all == Len(file)
           allowed == SeasonsThrough(file, k)
<1>1. PICK f : kept \in Seq(Record) /\ Filters(file, allowed, all, kept, f)
  <2>1. PICK last \in 1..Len(SeasonsOf(file)) : \E f :
          /\ SeasonsOf(file)[last] = SeasonsOf(file)[k]
          /\ kept \in Seq(Record) /\ Filters(file, SeasonsThrough(file, last), all, kept, f)
    BY ThroughFiltered
  <2>2. last = k
    BY <2>1, SeasonsDiffer
  <2> QED BY <2>1, <2>2
<1>2. n \in Nat /\ all \in Nat
  BY <1>1, LenProperties
<1>3. /\ \A i \in 1..n : f[i] \in 1..all /\ kept[i] = file[f[i]] /\ file[f[i]].season \in allowed
      /\ \A i, j \in 1..n : i < j => f[i] < f[j]
      /\ \A a \in 1..all : file[a].season \in allowed => \E i \in 1..n : f[i] = a
  BY <1>1 DEF Filters
<1>4. \A b \in 1..all : file[b].season \in allowed =>
        \A a \in 1..all : a < b => file[a].season \in allowed
  BY AllowedBefore DEF all
<1>5. \A i \in 1..n : file[f[i]].season \in {SeasonsOf(file)[j] : j \in 1..k}
  BY <1>3 DEF SeasonsThrough
<1> HIDE DEF n, all, allowed
<1>6. \A i \in 1..n : f[i] = i
  <2> SUFFICES ASSUME NEW q \in 1..n, f[q] # q PROVE FALSE
    OBVIOUS
  <2> DEFINE T == {i \in 1..n : f[i] # i}
  <2>1. T \in SUBSET Nat /\ T # {}
    BY <1>2
  <2>2. PICK i \in T : \A j \in T : i <= j
    BY <2>1, Least
  <2>3. i \in 1..n /\ f[i] # i /\ \A j \in 1..n : j < i => f[j] = j
    BY <1>2, <2>2
  <2> HIDE DEF T
  <2>4. PICK b : b = f[i]
    OBVIOUS
  <2>5. b \in 1..all /\ b # i /\ file[b].season \in allowed
    BY <1>3, <2>3, <2>4
  <2>6. b > i
    <3>1. CASE i = 1
      BY <1>2, <2>5, <3>1
    <3>2. CASE i # 1
      <4>1. i - 1 \in 1..n /\ i - 1 < i
        BY <1>2, <2>3, <3>2
      <4>2. f[i - 1] = i - 1 /\ f[i - 1] < f[i]
        BY <1>3, <2>3, <4>1
      <4>3. i - 1 < b
        BY <2>4, <4>2
      <4> QED BY <1>2, <2>3, <2>5, <4>3
    <3> QED BY <3>1, <3>2
  <2>7. i \in 1..all /\ i < b
    BY <1>2, <2>3, <2>5, <2>6
  <2>8. PICK j \in 1..n : f[j] = i
    BY <1>3, <1>4, <2>5, <2>7
  <2>9. j # i /\ ~(j < i)
    BY <2>3, <2>8
  <2>10. i < j
    BY <1>2, <2>3, <2>9
  <2>11. b < i
    BY <1>3, <2>3, <2>4, <2>8, <2>10
  <2> QED BY <1>2, <2>3, <2>5, <2>7, <2>11
<1>7. \A i \in 1..n : i \in 1..all /\ kept[i] = file[i]
                      /\ file[i].season \in {SeasonsOf(file)[j] : j \in 1..k}
  BY <1>3, <1>5, <1>6
<1>8. n <= all
  <2>1. CASE n = 0
    BY <1>2, <2>1
  <2>2. CASE n # 0
    <3>1. n \in 1..n
      BY <1>2, <2>2
    <3> QED BY <1>2, <1>7, <3>1
  <2> QED BY <2>1, <2>2
<1>9. \A i \in 1..n : \E j \in 1..k : file[i].season = SeasonsOf(file)[j]
  BY <1>7
<1> QED BY <1>2, <1>7, <1>8, <1>9 DEF n, all

\* The tuning walks pass the first records of the file, and no test record is
\* one of them.
LEMMA TestsComeLast ==
    ASSUME mwFile \in Seq(Record), ~FileRejected(mwFile),
           Len(SeasonsOf(mwFile)) = RequiredSeasons
    PROVE  /\ Len(TuneData) \in Nat /\ Len(TuneData) <= Len(mwFile)
           /\ \A i \in 1..Len(TuneData) : i \in 1..Len(mwFile) /\ TuneData[i] = mwFile[i]
           /\ TestRecords \subseteq 1..Len(mwFile) /\ TestRecords # {}
           /\ \A t \in TestRecords : t > Len(TuneData)
<1> DEFINE seasons == SeasonsOf(mwFile)
           n == Len(TuneData)
           k == RequiredSeasons - 2
<1>1. /\ k \in 1..Len(seasons) /\ RequiredSeasons \in Nat /\ RequiredSeasons > 2
      /\ RequiredSeasons - 1 \in 1..Len(seasons) /\ RequiredSeasons \in 1..Len(seasons)
  BY WalkAssumption
<1>2. TuneData = ThroughSeason(mwFile, seasons[k])
  BY DEF TuneData, StandardSplit
<1>3. /\ n \in Nat /\ n <= Len(mwFile)
      /\ \A i \in 1..n : i \in 1..Len(mwFile) /\ TuneData[i] = mwFile[i]
      /\ \A i \in 1..n : \E j \in 1..k : mwFile[i].season = seasons[j]
  <2>1. PICK file, kept, last : file = mwFile /\ kept = TuneData /\ last = k
    OBVIOUS
  <2>2. last \in 1..Len(SeasonsOf(file)) /\ kept = ThroughSeason(file, SeasonsOf(file)[last])
    BY <1>1, <1>2, <2>1
  <2>3. file \in Seq(Record) /\ ~FileRejected(file)
    BY <2>1
  <2> HIDE DEF seasons, n, k
  <2>4. /\ Len(kept) \in Nat /\ Len(kept) <= Len(file)
        /\ \A i \in 1..Len(kept) : i \in 1..Len(file) /\ kept[i] = file[i]
        /\ \A i \in 1..Len(kept) : \E j \in 1..last : file[i].season = SeasonsOf(file)[j]
    BY <2>2, <2>3, ThroughIsPrefix
  <2> USE DEF seasons, n, k
  <2> QED BY <2>1, <2>4
<1>4. TestRecords = {i \in 1..Len(mwFile) : mwFile[i].season \in
                       {seasons[RequiredSeasons - 1], seasons[RequiredSeasons]}}
  <2>1. DOMAIN mwFile = 1..Len(mwFile)
    BY LenProperties
  <2> QED BY <2>1 DEF TestRecords, StandardSplit
<1>5. Len(mwFile) \in Nat
  BY LenProperties
<1>6. TestRecords # {}
  <2>1. PICK a \in 1..Len(mwFile) : mwFile[a].season = seasons[RequiredSeasons]
    BY <1>1, SeasonsFound DEF SeasonsMet
  <2> QED BY <1>4, <2>1
<1>7. ASSUME NEW i \in 1..Len(seasons), NEW j \in 1..Len(seasons), seasons[i] = seasons[j]
      PROVE  i = j
  BY <1>7, SeasonsDiffer
<1> HIDE DEF seasons, n
<1>8. ASSUME NEW t \in TestRecords PROVE t > n
  <2>1. /\ t \in 1..Len(mwFile)
        /\ \/ mwFile[t].season = seasons[RequiredSeasons - 1]
           \/ mwFile[t].season = seasons[RequiredSeasons]
    BY <1>4
  <2> SUFFICES ASSUME t \in 1..n PROVE FALSE
    BY <1>3, <1>5, <2>1
  <2>2. PICK j \in 1..k : mwFile[t].season = seasons[j]
    BY <1>3
  <2>3. j \in 1..Len(seasons) /\ j # RequiredSeasons - 1 /\ j # RequiredSeasons
    BY <1>1, <2>2
  <2> QED BY <1>1, <1>7, <2>1, <2>2, <2>3
<1> QED BY <1>3, <1>4, <1>6, <1>8 DEF n

\* A result that was public before the kickoff of a record which comes before
\* all test records is of none of these.
LEMMA PublicBeforeTests ==
    ASSUME mwFile \in Seq(Record), ~FileRejected(mwFile),
           NEW a \in 1..Len(mwFile), TestRecords \subseteq 1..Len(mwFile),
           \A t \in TestRecords : a <= t,
           NEW r \in PublicBefore(mwFile, mwFile[a].kickoff)
    PROVE  r.id \notin TestIds
<1> DEFINE n == Len(mwFile)
<1>1. /\ DOMAIN mwFile = 1..n /\ n \in Nat
      /\ \A i \in 1..n : /\ mwFile[i].kickoff < mwFile[i].available
                         /\ mwFile[i].kickoff \in Int /\ mwFile[i].available \in Int
      /\ \A i, j \in 1..n : i # j => mwFile[i].id # mwFile[j].id
      /\ \A i, j \in 1..n : i < j => mwFile[i].kickoff <= mwFile[j].kickoff
  BY Accepted, RecordFacts
<1> HIDE DEF n
<1>2. PICK b \in 1..n : r = mwFile[b]
  BY <1>1 DEF PublicBefore, ToSet
<1>3. mwFile[b].available < mwFile[a].kickoff /\ a \in 1..n
  BY <1>2 DEF PublicBefore, n
<1>4. ASSUME NEW t \in TestRecords PROVE mwFile[t].id # r.id
  <2>1. t \in 1..n /\ a <= t
    BY DEF n
  <2>2. a = t \/ a < t
    BY <1>1, <1>3, <2>1
  <2>3. mwFile[a].kickoff <= mwFile[t].kickoff
    BY <1>1, <1>3, <2>1, <2>2
  <2>4. t # b
    <3> SUFFICES ASSUME t = b PROVE FALSE
      OBVIOUS
    <3> DEFINE x == mwFile[a].kickoff
               y == mwFile[b].kickoff
               z == mwFile[b].available
    <3>1. x \in Int /\ y \in Int /\ z \in Int /\ x <= y /\ y < z /\ z < x
      BY <1>1, <1>3, <2>3
    <3> HIDE DEF x, y, z
    <3> QED BY <3>1
  <2> QED BY <1>1, <1>2, <2>1, <2>4
<1> QED BY <1>4 DEF TestIds

\* The knowledge of a walk after a change of season, and what the walk over the
\* file knows of its record k if it knew this much before.
EloCarry(before, known, season) ==
    IF before = 0 \/ season = before THEN known
    ELSE [known EXCEPT !.elo = Append(@, <<"carry", season>>)]
GoalCarry(before, known, season) ==
    IF before = 0 \/ season = before THEN known
    ELSE [known EXCEPT !.goals = Append(@, <<"carry", season>>)]
CarryOver(models, before, known, season) ==
    LET elo == IF "elo" \in models THEN EloCarry(before, known, season) ELSE known
    IN  IF "goals" \in models THEN GoalCarry(before, elo, season) ELSE elo

SeasonBefore(file, k) == IF k = 1 THEN 0 ELSE file[k - 1].season
Released(file, k) ==
    {file[i] : i \in {j \in 1..(k - 1) : /\ file[j].available >= file[k - 1].kickoff
                                         /\ file[j].available < file[k].kickoff}}
KnownOf(models, file, k, known) ==
    CarryOver(models, SeasonBefore(file, k),
              PoppedRows!Folded(models, 0, known, Popped(Released(file, k))), file[k].season)

KnownBefore(rows, k) == IF k = 1 THEN NothingKnown ELSE rows[k - 1].known

\* These are the rows of the first records of the file: the knowledge of each
\* follows from that of the one before it, and from nothing else.
Chained(models, file, rows) ==
    /\ Len(rows) <= Len(file)
    /\ \A k \in 1..Len(rows) :
         /\ rows[k].id = file[k].id /\ rows[k].cutoff = file[k].kickoff
         /\ rows[k].known = KnownOf(models, file, k, KnownBefore(rows, k))

\* The trainings that have not begun.
ToCome(pass) ==
    {w \in Trainings : \/ pass \in {"load", "rejected"}
                       \/ (pass = "elo tune" /\ w # "elo tune")
                       \/ (pass = "elo test" /\ w \in {"goals tune", "goals test"})
                       \/ (pass = "goals tune" /\ w = "goals test")}

TwinInv ==
    /\ \A w \in Trainings : Chained(ModelsOf(w), mwFile, mwRows[w])
    /\ mwPass \in Trainings =>
         /\ Len(mwRows[mwPass]) = mwPos - 1
         /\ mwKnown = KnownBefore(mwRows[mwPass], mwPos)
         /\ mwSeason = SeasonBefore(mwFile, mwPos)
    /\ \A w \in ToCome(mwPass) : mwRows[w] = <<>>
    /\ mwConfig \cap TestIds = {}

LEMMA TrainingNames ==
    /\ Trainings \subseteq Walks /\ Tunings \subseteq Trainings /\ "features" \notin Trainings
    /\ \A pass : ToCome(pass) \subseteq Trainings /\ pass \notin ToCome(pass)
<1>1. /\ Trainings \subseteq Walks /\ Tunings \subseteq Trainings /\ "features" \notin Trainings
  BY DEF Trainings, Walks, Tunings
<1>2. ASSUME NEW pass PROVE ToCome(pass) \subseteq Trainings /\ pass \notin ToCome(pass)
  BY DEF ToCome, Trainings
<1> QED BY <1>1, <1>2

\* A season begins as its carry says.
LEMMA BeginCarries ==
    \A known, season :
        BeginSeason(known, season) = CarryOver(ModelsOf(mwPass), mwSeason, known, season)
BY Zenon DEF BeginSeason, CarryOver, EloBeginSeason, GoalBeginSeason, EloCarry, GoalCarry

\* The next row of a chain.
Follows(models, file, rows, k, row) ==
    /\ IsSequence(rows) /\ Chained(models, file, rows)
    /\ k \in Nat /\ Len(rows) = k - 1 /\ Len(file) \in Nat /\ k <= Len(file)
    /\ row.id = file[k].id /\ row.cutoff = file[k].kickoff
    /\ row.known = KnownOf(models, file, k, KnownBefore(rows, k))

LEMMA ChainGrows ==
    ASSUME NEW models, NEW file, NEW rows, NEW k, NEW row, Follows(models, file, rows, k, row)
    PROVE  /\ Chained(models, file, Append(rows, row)) /\ Len(Append(rows, row)) = k
           /\ KnownBefore(Append(rows, row), k + 1) = row.known
<1>1. /\ IsSequence(rows) /\ Chained(models, file, rows)
      /\ k \in Nat /\ Len(rows) = k - 1 /\ Len(file) \in Nat /\ k <= Len(file)
      /\ row.id = file[k].id /\ row.cutoff = file[k].kickoff
      /\ row.known = KnownOf(models, file, k, KnownBefore(rows, k))
  BY DEF Follows
<1>2. PICK new : new = Append(rows, row)
  OBVIOUS
<1>3. k # 0 /\ k - 1 \in Nat
  <2>1. Len(rows) \in Nat
    BY <1>1, LenProperties DEF IsSequence
  <2> QED BY <1>1, <2>1
<1>4. /\ Len(new) = k /\ new[k] = row /\ \A i \in 1..(k - 1) : new[i] = rows[i]
  <2> DEFINE T == ToSet(rows) \cup {row}
  <2>1. rows \in Seq(T)
    <3>1. rows \in Seq(ToSet(rows))
      BY <1>1 DEF IsSequence
    <3>2. Len(rows) \in Nat /\ rows \in [1..Len(rows) -> ToSet(rows)]
      BY <3>1, LenProperties
    <3>3. rows \in [1..Len(rows) -> T]
      BY <3>2
    <3> HIDE DEF T
    <3> QED BY <3>2, <3>3, SeqDef
  <2>2. row \in T
    OBVIOUS
  <2> HIDE DEF T
  <2>3. Len(rows) + 1 = k
    BY <1>1, <1>3
  <2>4. /\ Len(Append(rows, row)) = Len(rows) + 1 /\ Append(rows, row)[Len(rows) + 1] = row
        /\ \A i \in 1..Len(rows) : Append(rows, row)[i] = rows[i]
    BY <2>1, <2>2, AppendProperties
  <2> QED BY <1>2, <2>3, <2>4
<1>5. ASSUME NEW i \in 1..k PROVE KnownBefore(new, i) = KnownBefore(rows, i)
  <2>1. CASE i = 1
    BY <2>1 DEF KnownBefore
  <2>2. CASE i # 1
    <3>1. i - 1 \in 1..(k - 1)
      BY <1>1, <2>2
    <3>2. new[i - 1] = rows[i - 1]
      BY <1>4, <3>1
    <3> QED BY <2>2, <3>2 DEF KnownBefore
  <2> QED BY <2>1, <2>2
<1>6. ASSUME NEW i \in 1..k
      PROVE  /\ new[i].id = file[i].id /\ new[i].cutoff = file[i].kickoff
             /\ new[i].known = KnownOf(models, file, i, KnownBefore(new, i))
  <2>1. CASE i = k
    BY <1>1, <1>4, <1>5, <2>1
  <2>2. CASE i # k
    <3>1. i \in 1..(k - 1)
      BY <1>1, <2>2
    <3>2. /\ rows[i].id = file[i].id /\ rows[i].cutoff = file[i].kickoff
          /\ rows[i].known = KnownOf(models, file, i, KnownBefore(rows, i))
      BY <1>1, <3>1 DEF Chained
    <3>3. new[i] = rows[i]
      BY <1>4, <3>1
    <3> QED BY <1>5, <3>2, <3>3
  <2> QED BY <2>1, <2>2
<1>7. KnownBefore(new, k + 1) = row.known
  <2>1. (k + 1) - 1 = k /\ k + 1 # 1
    BY <1>1, <1>3
  <2> QED BY <1>4, <2>1 DEF KnownBefore
<1> QED BY <1>1, <1>2, <1>4, <1>6, <1>7 DEF Chained

\* Two chains over one file agree as far as both go.
LEMMA ChainsAgree ==
    ASSUME NEW models, NEW file, NEW one, NEW other, Chained(models, file, one),
           Chained(models, file, other), IsSequence(one), IsSequence(other),
           NEW k \in Nat, k \in 1..Len(one), k \in 1..Len(other)
    PROVE  one[k].known = other[k].known
<1> SUFFICES ASSUME one[k].known # other[k].known PROVE FALSE
  OBVIOUS
<1>1. PICK m, n : m = Len(one) /\ n = Len(other)
  OBVIOUS
<1>2. m \in Nat /\ n \in Nat /\ k <= m /\ k <= n
  BY <1>1, LenProperties DEF IsSequence
<1> DEFINE T == {i \in 1..k : one[i].known # other[i].known}
<1>3. T \in SUBSET Nat /\ T # {}
  OBVIOUS
<1>4. PICK i \in T : \A j \in T : i <= j
  <2> HIDE DEF T
  <2> QED BY <1>3, Least
<1>5. i \in 1..k /\ one[i].known # other[i].known
  OBVIOUS
<1>6. KnownBefore(one, i) = KnownBefore(other, i)
  <2>1. CASE i = 1
    BY <2>1 DEF KnownBefore
  <2>2. CASE i # 1
    <3>1. i - 1 \in 1..k /\ ~(i <= i - 1)
      BY <1>5, <2>2
    <3>2. one[i - 1].known = other[i - 1].known
      BY <1>4, <3>1
    <3> QED BY <2>2, <3>2 DEF KnownBefore
  <2> QED BY <2>1, <2>2
<1>7. i \in 1..m /\ i \in 1..n
  BY <1>2, <1>5
<1>8. one[i].known = KnownOf(models, file, i, KnownBefore(one, i))
  BY <1>1, <1>7 DEF Chained
<1>9. other[i].known = KnownOf(models, file, i, KnownBefore(other, i))
  BY <1>1, <1>7 DEF Chained
<1> QED BY <1>5, <1>6, <1>8, <1>9

\* A training walks the first records of the file, at their kickoffs.
LEMMA TrainingRecords ==
    ASSUME WalkInv, mwPass \in Trainings
    PROVE  /\ mwFile \in Seq(Record) /\ ~FileRejected(mwFile)
           /\ Len(SeasonsOf(mwFile)) = RequiredSeasons
           /\ Len(WalkRecords) \in Nat /\ Len(WalkRecords) <= Len(mwFile) /\ Len(mwFile) \in Nat
           /\ \A i \in 1..Len(WalkRecords) : i \in 1..Len(mwFile) /\ WalkRecords[i] = mwFile[i]
           /\ mwPos \in 1..(Len(WalkRecords) + 1)
           /\ \A r : WalkCutoff(r) = r.kickoff
<1>1. /\ mwFile \in Seq(Record) /\ ~FileRejected(mwFile)
      /\ Len(SeasonsOf(mwFile)) = RequiredSeasons
  BY DEF WalkInv, WalkTypeOK, DatasetAccepted, Trainings, Walks
<1>2. mwPos \in 1..(Len(WalkRecords) + 1)
  BY DEF WalkInv, HeapHoldsTheRest, Trainings, Walks
<1>3. \A r : WalkCutoff(r) = r.kickoff
  BY DEF WalkCutoff, Trainings
<1>4. Len(mwFile) \in Nat
  BY <1>1, LenProperties
<1>5. /\ Len(WalkRecords) \in Nat /\ Len(WalkRecords) <= Len(mwFile)
      /\ \A i \in 1..Len(WalkRecords) : i \in 1..Len(mwFile) /\ WalkRecords[i] = mwFile[i]
  <2>1. CASE mwPass \in {"elo tune", "goals tune"}
    <3>1. WalkRecords = TuneData
      BY <2>1 DEF WalkRecords
    <3> QED BY <1>1, <3>1, TestsComeLast
  <2>2. CASE mwPass \notin {"elo tune", "goals tune"}
    <3>1. WalkRecords = mwFile
      BY <2>2 DEF WalkRecords
    <3> QED BY <1>4, <3>1
  <2> QED BY <2>1, <2>2
<1> QED BY <1>1, <1>2, <1>3, <1>4, <1>5

\* What the heap gives to the next record is a matter of the file alone.
LEMMA ReleasedResults ==
    ASSUME WalkInv, mwPass \in Trainings, mwPos <= Len(WalkRecords)
    PROVE  {x \in mwPending : x.available < mwFile[mwPos].kickoff} = Released(mwFile, mwPos)
<1>1. PICK file, p, n, pending :
        file = mwFile /\ p = mwPos /\ n = Len(WalkRecords) /\ pending = mwPending
  OBVIOUS
<1>2. /\ \A i \in 1..n : i \in 1..Len(file) /\ WalkRecords[i] = file[i]
      /\ p \in 1..(n + 1) /\ n \in Nat /\ \A r : WalkCutoff(r) = r.kickoff
  BY <1>1, TrainingRecords
<1>3. p \in 1..n /\ n \in Nat
  BY <1>1, <1>2
<1>4. /\ pending \subseteq Behind(WalkRecords, p)
      /\ p > 1 => \A r \in Behind(WalkRecords, p) :
           r \in pending <=> r.available >= WalkCutoff(WalkRecords[p - 1])
  BY <1>1, TrainingNames DEF WalkInv, HeapHoldsTheRest
<1>5. Behind(WalkRecords, p) = {file[i] : i \in 1..(p - 1)}
  <2>1. ASSUME NEW i \in 1..(p - 1) PROVE WalkRecords[i] = file[i]
    <3>1. i \in 1..n
      BY <1>2, <1>3
    <3> QED BY <1>2, <3>1
  <2> QED BY <2>1 DEF Behind
<1>6. CASE p = 1
  <2>1. 1..(p - 1) = {}
    BY <1>6
  <2>2. pending = {} /\ Released(file, p) = {}
    BY <1>4, <1>5, <2>1 DEF Released
  <2> QED BY <1>1, <2>2
<1>7. CASE p # 1
  <2>1. p > 1 /\ p - 1 \in 1..n
    BY <1>3, <1>7
  <2>2. WalkCutoff(WalkRecords[p - 1]) = file[p - 1].kickoff
    BY <1>2, <2>1
  <2>3. \A i \in 1..(p - 1) : file[i] \in pending <=> file[i].available >= file[p - 1].kickoff
    BY <1>4, <1>5, <2>1, <2>2
  <2>4. pending = {file[i] : i \in {j \in 1..(p - 1) : file[j].available >= file[p - 1].kickoff}}
    BY <1>4, <1>5, <2>3
  <2>5. {x \in pending : x.available < file[p].kickoff} = Released(file, p)
    BY <2>4 DEF Released
  <2> QED BY <1>1, <2>5
<1> QED BY <1>6, <1>7

LEMMA TrainingStepKeeps ==
    ASSUME WalkInv, TwinInv, mwPass \in Trainings, WalkStep
    PROVE  TwinInv'
<1>1. PICK file, walk, p, r, popped, known, rows :
        /\ file = mwFile /\ walk = mwPass /\ p = mwPos /\ r = WalkRecords[mwPos]
        /\ popped = PopAvailable(WalkCutoff(r)) /\ rows = mwRows[walk]
        /\ known = BeginSeason(Absorb(mwKnown, popped), r.season)
  OBVIOUS
<1>2. /\ mwPos <= Len(WalkRecords)
      /\ mwKnown' = known /\ mwSeason' = r.season /\ mwPos' = p + 1
      /\ mwFile' = file /\ mwPass' = walk /\ mwConfig' = mwConfig
  BY <1>1 DEF WalkStep
<1>3. PICK row : /\ mwRows' = [mwRows EXCEPT ![walk] = Append(@, row)]
                 /\ row.id = r.id /\ row.cutoff = WalkCutoff(r) /\ row.known = known
  <2>1. PICK history : mwRows' = [mwRows EXCEPT ![walk] = Append(@, WalkRow(r, known, history))]
    BY <1>1 DEF WalkStep
  <2> DEFINE row == WalkRow(r, known, history)
  <2>2. row.id = r.id /\ row.cutoff = WalkCutoff(r) /\ row.known = known
    BY DEF WalkRow
  <2> HIDE DEF row
  <2>3. mwRows' = [mwRows EXCEPT ![walk] = Append(@, row)]
    BY <2>1 DEF row
  <2> QED BY <2>2, <2>3
<1>4. /\ file \in Seq(Record) /\ Len(file) \in Nat /\ p \in Nat \ {0} /\ p <= Len(file)
      /\ r = file[p] /\ WalkCutoff(r) = r.kickoff
  <2>1. /\ Len(WalkRecords) \in Nat /\ Len(WalkRecords) <= Len(file) /\ Len(file) \in Nat
        /\ \A i \in 1..Len(WalkRecords) : i \in 1..Len(file) /\ WalkRecords[i] = file[i]
        /\ p \in 1..(Len(WalkRecords) + 1) /\ p <= Len(WalkRecords)
        /\ \A x : WalkCutoff(x) = x.kickoff /\ file \in Seq(Record)
    BY <1>1, <1>2, TrainingRecords
  <2>2. p \in 1..Len(WalkRecords)
    BY <2>1
  <2> QED BY <1>1, <2>1, <2>2
<1>5. popped = Popped(Released(file, p))
  <2>1. {x \in mwPending : x.available < r.kickoff} = Released(file, p)
    BY <1>1, <1>2, <1>4, ReleasedResults
  <2> QED BY <1>1, <1>4, <2>1 DEF PopAvailable
<1>6. /\ Chained(ModelsOf(walk), file, rows) /\ Len(rows) = p - 1
      /\ mwKnown = KnownBefore(rows, p) /\ mwSeason = SeasonBefore(file, p)
  BY <1>1 DEF TwinInv
<1>7. known = KnownOf(ModelsOf(walk), file, p, KnownBefore(rows, p))
  <2>1. Absorb(mwKnown, popped)
          = PoppedRows!Folded(ModelsOf(walk), 0, KnownBefore(rows, p), Popped(Released(file, p)))
    BY <1>1, <1>5, <1>6, AbsorbFolds
  <2>2. known = CarryOver(ModelsOf(walk), SeasonBefore(file, p), Absorb(mwKnown, popped),
                          file[p].season)
    BY <1>1, <1>4, <1>6, BeginCarries
  <2> QED BY <2>1, <2>2 DEF KnownOf
<1>8. /\ walk \in Walks /\ walk \in Trainings
      /\ mwRows = [w \in Walks |-> mwRows[w]] /\ \A w \in Walks : IsSequence(mwRows[w])
  BY <1>1, TrainingNames DEF WalkInv, WalkTypeOK
<1>9. mwRows'[walk] = Append(rows, row) /\ \A w \in Walks \ {walk} : mwRows'[w] = mwRows[w]
  BY <1>1, <1>3, <1>8
<1>10. PICK new : new = Append(rows, row)
  OBVIOUS
<1>11. /\ Chained(ModelsOf(walk), file, new) /\ Len(new) = p /\ KnownBefore(new, p + 1) = known
  <2>1. IsSequence(rows)
    BY <1>1, <1>8
  <2>2. PICK models : models = ModelsOf(walk)
    OBVIOUS
  <2>3. Chained(models, file, rows) /\ row.known = KnownOf(models, file, p, KnownBefore(rows, p))
    BY <1>3, <1>6, <1>7, <2>2
  <2>4. row.id = file[p].id /\ row.cutoff = file[p].kickoff
    BY <1>3, <1>4
  <2>5. Follows(models, file, rows, p, row)
    BY <1>4, <1>6, <2>1, <2>3, <2>4 DEF Follows
  <2>6. Chained(models, file, new) /\ Len(new) = p /\ KnownBefore(new, p + 1) = row.known
    BY <1>10, <2>5, ChainGrows
  <2> QED BY <1>3, <2>2, <2>6
<1>12. ASSUME NEW w \in Trainings PROVE Chained(ModelsOf(w), mwFile', mwRows'[w])
  <2>1. CASE w = walk
    BY <1>2, <1>9, <1>10, <1>11, <2>1
  <2>2. CASE w # walk
    <3>1. mwRows'[w] = mwRows[w]
      BY <1>9, <2>2, TrainingNames
    <3>2. Chained(ModelsOf(w), file, mwRows[w])
      BY <1>1 DEF TwinInv
    <3> QED BY <1>2, <3>1, <3>2
  <2> QED BY <2>1, <2>2
<1>13. /\ Len(mwRows'[mwPass']) = mwPos' - 1
       /\ mwKnown' = KnownBefore(mwRows'[mwPass'], mwPos')
       /\ mwSeason' = SeasonBefore(mwFile', mwPos')
  <2>1. (p + 1) - 1 = p /\ p + 1 # 1
    BY <1>4
  <2>2. SeasonBefore(file, p + 1) = r.season
    BY <1>4, <2>1 DEF SeasonBefore
  <2> QED BY <1>2, <1>9, <1>10, <1>11, <2>1, <2>2
<1>14. ASSUME NEW w \in ToCome(mwPass') PROVE mwRows'[w] = <<>>
  <2>1. w \in ToCome(mwPass) /\ w \in Walks \ {walk}
    BY <1>1, <1>2, TrainingNames
  <2> QED BY <1>9, <2>1 DEF TwinInv
<1>15. mwConfig' \cap TestIds' = {}
  <2>1. TestIds' = TestIds
    BY <1>1, <1>2 DEF TestIds, TestRecords
  <2> QED BY <1>2, <2>1 DEF TwinInv
<1> QED BY <1>12, <1>13, <1>14, <1>15 DEF TwinInv

\* Between two walks only the configuration grows.
LEMMA TwinsKept ==
    ASSUME WalkInv, TwinInv, FreshWalk, mwFile' = mwFile, mwRows' = mwRows,
           ToCome(mwPass') \subseteq ToCome(mwPass),
           mwPass' \in Trainings => mwPass' \in ToCome(mwPass),
           mwConfig' \cap TestIds = {}
    PROVE  TwinInv'
<1>1. \A w \in Trainings : Chained(ModelsOf(w), mwFile', mwRows'[w])
  BY DEF TwinInv
<1>2. \A w \in ToCome(mwPass') : mwRows'[w] = <<>>
  BY DEF TwinInv
<1>3. ASSUME mwPass' \in Trainings
      PROVE  /\ Len(mwRows'[mwPass']) = mwPos' - 1
             /\ mwKnown' = KnownBefore(mwRows'[mwPass'], mwPos')
             /\ mwSeason' = SeasonBefore(mwFile', mwPos')
  <2>1. mwRows'[mwPass'] = <<>> /\ mwPos' = 1 /\ mwKnown' = NothingKnown /\ mwSeason' = 0
    BY <1>3 DEF TwinInv, FreshWalk
  <2>2. Len(<<>>) = 0
    BY EmptySeq
  <2> QED BY <2>1, <2>2 DEF KnownBefore, SeasonBefore
<1>4. TestIds' = TestIds
  BY DEF TestIds, TestRecords
<1> QED BY <1>1, <1>2, <1>3, <1>4 DEF TwinInv

\* What the score of a tuning walk depends on is of no test season.
LEMMA ScoredUntouched ==
    ASSUME WalkInv, TwinInv, mwPass \in Tunings, NEW season
    PROVE  Scored(mwPass, season) \cap TestIds = {}
<1>1. PICK file, walk, rows : file = mwFile /\ walk = mwPass /\ rows = mwRows[walk]
  OBVIOUS
<1>2. walk \in Trainings /\ walk \in Walks /\ WalkRecords = TuneData
  <2>1. walk \in Trainings /\ walk \in Walks
    BY <1>1, TrainingNames
  <2>2. WalkRecords = TuneData
    BY DEF WalkRecords, Tunings
  <2> QED BY <2>1, <2>2
<1>3. /\ file \in Seq(Record) /\ ~FileRejected(file)
      /\ Len(SeasonsOf(file)) = RequiredSeasons /\ mwPos \in 1..(Len(TuneData) + 1)
  BY <1>1, <1>2, TrainingRecords
<1>4. /\ Len(TuneData) \in Nat /\ Len(TuneData) <= Len(file) /\ Len(file) \in Nat
      /\ TestRecords \subseteq 1..Len(file) /\ \A t \in TestRecords : t > Len(TuneData)
      /\ \A i, j \in 1..Len(file) : i # j => file[i].id # file[j].id
  BY <1>1, <1>3, TestsComeLast, Accepted
<1>5. /\ Len(rows) = mwPos - 1 /\ \A k \in 1..Len(rows) :
             rows[k].id = file[k].id /\ rows[k].cutoff = file[k].kickoff
  BY <1>1, <1>2 DEF TwinInv, Chained
<1>6. DOMAIN rows = 1..Len(rows)
  <2>1. IsSequence(rows)
    BY <1>1, <1>2 DEF WalkInv, WalkTypeOK
  <2> QED BY <2>1, LenProperties DEF IsSequence
<1>7. ASSUME NEW k \in 1..Len(rows)
      PROVE  k \in 1..Len(file) /\ \A t \in TestRecords : t \in 1..Len(file) /\ k < t
  BY <1>3, <1>4, <1>5
<1>8. ASSUME NEW row \in ToSet(rows)
      PROVE  \E k \in 1..Len(rows) : row = rows[k]
  BY <1>6 DEF ToSet
<1>9. ASSUME NEW row \in ToSet(rows) PROVE row.id \notin TestIds
  <2>1. PICK k \in 1..Len(rows) : row = rows[k]
    BY <1>8
  <2>2. row.id = file[k].id
    BY <1>5, <2>1
  <2>3. ASSUME NEW t \in TestRecords PROVE file[t].id # file[k].id
    <3>1. k \in 1..Len(file) /\ t \in 1..Len(file) /\ k < t
      BY <1>7
    <3>2. k # t
      BY <3>1
    <3> QED BY <1>4, <3>1, <3>2
  <2> QED BY <1>1, <2>2, <2>3 DEF TestIds
<1>10. ASSUME NEW row \in ToSet(rows), NEW m \in ModelsOf(walk),
              NEW x \in ToSet(row.known[m]), x[1] = "result"
       PROVE  x[2] \notin TestIds
  <2>1. PICK k \in 1..Len(rows) : row = rows[k]
    BY <1>8
  <2>2. PICK log : log = row.known[m]
    OBVIOUS
  <2>3. row.cutoff = file[k].kickoff
    BY <1>5, <2>1
  <2>4. Knows(file, log, PublicBefore(file, file[k].kickoff))
    BY <1>1, <1>2, <2>2, <2>3 DEF WalkInv, RowsKnow
  <2>5. PICK i \in DOMAIN log : x = log[i]
    BY <2>2 DEF ToSet
  <2>6. i \in ResultsIn(log)
    BY <1>10, <2>5 DEF ResultsIn
  <2>7. PICK r \in PublicBefore(file, file[k].kickoff) : log[i][2] = r.id
    BY <2>4, <2>6, LogResults
  <2>8. k \in 1..Len(file) /\ \A t \in TestRecords : k <= t
    BY <1>4, <1>7
  <2>9. r.id \notin TestIds
    BY <1>1, <1>3, <1>4, <2>7, <2>8, PublicBeforeTests
  <2> QED BY <2>5, <2>7, <2>9
<1>11. ASSUME NEW y \in Scored(walk, season) PROVE y \notin TestIds
  <2>1. \/ \E row \in ToSet(rows) : y = row.id
        \/ \E row \in ToSet(rows), m \in ModelsOf(walk) :
             \E x \in ToSet(row.known[m]) : x[1] = "result" /\ y = x[2]
    BY <1>1 DEF Scored
  <2> QED BY <1>9, <1>10, <2>1
<1> QED BY <1>1, <1>11

\* The prior records were public before the first test record.
LEMMA PriorUntouched ==
    ASSUME WalkInv, mwPass \in Trainings
    PROVE  PriorRecords \cap TestIds = {}
<1>1. /\ mwFile \in Seq(Record) /\ ~FileRejected(mwFile)
      /\ TestRecords \subseteq 1..Len(mwFile) /\ TestRecords # {}
  BY TrainingRecords, TestsComeLast
<1> DEFINE first == CHOOSE i \in TestRecords : \A j \in TestRecords : i <= j
<1>2. first \in TestRecords /\ \A j \in TestRecords : first <= j
  <2>1. TestRecords \in SUBSET Nat
    BY <1>1
  <2>2. \E i \in TestRecords : \A j \in TestRecords : i <= j
    BY <1>1, <2>1, Least
  <2> QED BY <2>2
<1>3. PriorRecords = {mwFile[i].id : i \in {j \in DOMAIN mwFile :
                                              mwFile[j].available < mwFile[first].kickoff}}
  BY DEF PriorRecords
<1> HIDE DEF first
<1>4. ASSUME NEW i \in DOMAIN mwFile, mwFile[i].available < mwFile[first].kickoff
      PROVE  mwFile[i].id \notin TestIds
  <2>1. mwFile[i] \in PublicBefore(mwFile, mwFile[first].kickoff)
    BY <1>4 DEF PublicBefore, ToSet
  <2>2. first \in 1..Len(mwFile)
    BY <1>1, <1>2
  <2> QED BY <1>1, <1>2, <2>1, <2>2, PublicBeforeTests
<1> QED BY <1>3, <1>4

\* The trainings come one after the other.
LEMMA TrainingOrder ==
    /\ ToCome("load") = Trainings /\ ToCome("rejected") = Trainings
    /\ ToCome("elo tune") \subseteq Trainings /\ "elo tune" \in Trainings
    /\ ToCome("elo test") \subseteq ToCome("elo tune") /\ "elo test" \in ToCome("elo tune")
    /\ ToCome("goals tune") \subseteq ToCome("elo test") /\ "goals tune" \in ToCome("elo test")
    /\ ToCome("goals test") \subseteq ToCome("goals tune") /\ "goals test" \in ToCome("goals tune")
    /\ ToCome("features") = {} /\ ToCome("done") = {}
    /\ "features" \notin Trainings /\ "rejected" \notin Trainings
    /\ "load" \notin Trainings /\ "done" \notin Trainings
<1>1. /\ ToCome("load") = Trainings /\ ToCome("rejected") = Trainings
      /\ ToCome("elo tune") \subseteq Trainings /\ "elo tune" \in Trainings
  BY DEF ToCome, Trainings
<1>2. ToCome("elo test") \subseteq ToCome("elo tune") /\ "elo test" \in ToCome("elo tune")
  BY DEF ToCome, Trainings
<1>3. ToCome("goals tune") \subseteq ToCome("elo test") /\ "goals tune" \in ToCome("elo test")
  BY DEF ToCome, Trainings
<1>4. ToCome("goals test") \subseteq ToCome("goals tune") /\ "goals test" \in ToCome("goals tune")
  BY DEF ToCome, Trainings
<1>5. ToCome("features") = {} /\ ToCome("done") = {}
  BY DEF ToCome, Trainings
<1>6. /\ "features" \notin Trainings /\ "rejected" \notin Trainings
      /\ "load" \notin Trainings /\ "done" \notin Trainings
  BY DEF Trainings
<1> QED BY <1>1, <1>2, <1>3, <1>4, <1>5, <1>6

LEMMA LoadKeepsTwins ==
    ASSUME WalkInv, TwinInv, LoadHistoricalDataset
    PROVE  TwinInv'
<1>1. /\ mwFile' = mwFile /\ mwRows' = mwRows /\ mwConfig' = mwConfig /\ FreshWalk
      /\ mwPass = "load" /\ mwPass' \in {"rejected", "elo tune", "features"}
  BY DEF LoadHistoricalDataset
<1>2. /\ ToCome(mwPass') \subseteq ToCome(mwPass)
      /\ mwPass' \in Trainings => mwPass' \in ToCome(mwPass)
  <2>1. CASE mwPass' = "rejected"
    BY <1>1, <2>1, TrainingOrder
  <2>2. CASE mwPass' = "elo tune"
    BY <1>1, <2>2, TrainingOrder
  <2>3. CASE mwPass' = "features"
    BY <1>1, <2>3, TrainingOrder
  <2> QED BY <1>1, <2>1, <2>2, <2>3
<1>3. mwConfig' \cap TestIds = {}
  BY <1>1 DEF TwinInv
<1> QED BY <1>1, <1>2, <1>3, TwinsKept

LEMMA TuneKeepsTwins ==
    ASSUME WalkInv, TwinInv, NEW walk \in Tunings, NEW next \in ToCome(walk),
           ToCome(next) \subseteq ToCome(walk), Tune(walk, next)
    PROVE  TwinInv'
<1>1. /\ mwFile' = mwFile /\ mwRows' = mwRows /\ FreshWalk /\ mwPass = walk /\ mwPass' = next
      /\ \E season : mwConfig' = mwConfig \cup Scored(walk, season)
  BY DEF Tune
<1>2. PICK season : mwConfig' = mwConfig \cup Scored(walk, season)
  BY <1>1
<1>3. Scored(walk, season) \cap TestIds = {}
  BY <1>1, ScoredUntouched
<1>4. mwConfig' \cap TestIds = {}
  BY <1>2, <1>3 DEF TwinInv
<1> QED BY <1>1, <1>4, TwinsKept

LEMMA TrainKeepsTwins ==
    ASSUME WalkInv, TwinInv, NEW walk \in Trainings, NEW next,
           ToCome(next) \subseteq ToCome(walk), next \in Trainings => next \in ToCome(walk),
           Train(walk, next)
    PROVE  TwinInv'
<1>1. /\ mwFile' = mwFile /\ mwRows' = mwRows /\ FreshWalk /\ mwPass = walk /\ mwPass' = next
      /\ mwConfig' = mwConfig \cup PriorRecords
  BY DEF Train
<1>2. mwConfig' \cap TestIds = {}
  BY <1>1, PriorUntouched DEF TwinInv
<1> QED BY <1>1, <1>2, TwinsKept

\* The feature walk leaves the rows of the trainings and the configurations alone.
LEMMA FeaturesKeepTwins ==
    ASSUME WalkInv, TwinInv, BuildPrematchFeatures \/ FinishFeatures
    PROVE  TwinInv'
<1>1. /\ mwFile' = mwFile /\ mwConfig' = mwConfig
      /\ mwPass = "features" /\ mwPass' \in {"features", "done"}
      /\ \/ mwRows' = mwRows
         \/ \E row : mwRows' = [mwRows EXCEPT !["features"] = Append(@, row)]
  BY DEF BuildPrematchFeatures, FinishFeatures, WalkStep
<1>2. ASSUME NEW w \in Trainings PROVE mwRows'[w] = mwRows[w]
  <2>1. mwRows = [v \in Walks |-> mwRows[v]] /\ w \in Walks /\ w # "features"
    BY TrainingNames DEF WalkInv, WalkTypeOK
  <2> QED BY <1>1, <2>1
<1>3. ASSUME NEW w \in Trainings PROVE Chained(ModelsOf(w), mwFile', mwRows'[w])
  BY <1>1, <1>2 DEF TwinInv
<1>4. mwPass' \notin Trainings /\ ToCome(mwPass') = {}
  BY <1>1, TrainingOrder
<1>5. TestIds' = TestIds
  BY <1>1 DEF TestIds, TestRecords
<1>6. mwConfig' \cap TestIds' = {}
  BY <1>1, <1>5 DEF TwinInv
<1> QED BY <1>3, <1>4, <1>6 DEF TwinInv

LEMMA TwinsStart == ASSUME MatchWalkInit PROVE TwinInv
<1>1. /\ mwPass = "load" /\ mwRows = [w \in Walks |-> <<>>] /\ mwConfig = {}
      /\ mwFile \in Seq(Record)
  BY WalkAssumption DEF MatchWalkInit, MatchWalkStart
<1>2. ASSUME NEW w \in Trainings PROVE mwRows[w] = <<>>
  BY <1>1, TrainingNames
<1>3. ASSUME NEW w \in Trainings PROVE Chained(ModelsOf(w), mwFile, mwRows[w])
  <2>1. mwRows[w] = <<>> /\ Len(<<>>) = 0 /\ Len(mwFile) \in Nat
    BY <1>1, <1>2, EmptySeq, LenProperties
  <2> QED BY <2>1 DEF Chained
<1>4. mwPass \notin Trainings /\ ToCome(mwPass) \subseteq Trainings
  BY <1>1, TrainingOrder
<1> QED BY <1>1, <1>2, <1>3, <1>4 DEF TwinInv

THEOREM TwinInvariance == MatchWalkSpec => []TwinInv
<1>1. MatchWalkInit => TwinInv
  BY TwinsStart
<1>2. ASSUME WalkInv, TwinInv, [MatchWalkNext]_matchWalkVars PROVE TwinInv'
  <2>1. CASE LoadHistoricalDataset
    BY <1>2, <2>1, LoadKeepsTwins
  <2>2. CASE WalkForward
    <3>1. mwPass \in Trainings /\ WalkStep
      BY <2>2 DEF WalkForward, Trainings
    <3> QED BY <1>2, <3>1, TrainingStepKeeps
  <2>3. CASE WalkForwardGoals
    <3>1. mwPass \in Trainings /\ WalkStep
      BY <2>3 DEF WalkForwardGoals, Trainings
    <3> QED BY <1>2, <3>1, TrainingStepKeeps
  <2>4. CASE BuildPrematchFeatures \/ FinishFeatures
    BY <1>2, <2>4, FeaturesKeepTwins
  <2>5. CASE TuneElo
    <3>1. "elo tune" \in Tunings /\ Tune("elo tune", "elo test")
      BY <2>5 DEF TuneElo, Tunings
    <3> QED BY <1>2, <3>1, TrainingOrder, TuneKeepsTwins
  <2>6. CASE TuneGoalModel
    <3>1. "goals tune" \in Tunings /\ Tune("goals tune", "goals test")
      BY <2>6 DEF TuneGoalModel, Tunings
    <3> QED BY <1>2, <3>1, TrainingOrder, TuneKeepsTwins
  <2>7. CASE TrainBaseline
    <3>1. "elo test" \in Trainings /\ Train("elo test", "goals tune")
      BY <2>7 DEF TrainBaseline, Trainings
    <3> QED BY <1>2, <3>1, TrainingOrder, TrainKeepsTwins
  <2>8. CASE TrainGoalModel
    <3>1. "goals test" \in Trainings /\ Train("goals test", "features")
      BY <2>8 DEF TrainGoalModel, Trainings
    <3>2. ToCome("features") \subseteq ToCome("goals test") /\ "features" \notin Trainings
      BY TrainingOrder
    <3> QED BY <1>2, <3>1, <3>2, TrainKeepsTwins
  <2>9. CASE UNCHANGED matchWalkVars
    <3>1. /\ mwFile' = mwFile /\ mwPass' = mwPass /\ mwPos' = mwPos /\ mwRows' = mwRows
          /\ mwKnown' = mwKnown /\ mwSeason' = mwSeason /\ mwConfig' = mwConfig
      BY <2>9 DEF matchWalkVars
    <3>2. TestIds' = TestIds
      BY <3>1 DEF TestIds, TestRecords
    <3> QED BY <1>2, <3>1, <3>2 DEF TwinInv
  <2> QED BY <1>2, <2>1, <2>2, <2>3, <2>4, <2>5, <2>6, <2>7, <2>8, <2>9 DEF MatchWalkNext
<1> QED BY <1>1, <1>2, WalkInvariance, PTL DEF MatchWalkSpec

\* Two walks with the same models know the same of a record that both pass.
LEMMA SameKnowledge ==
    ASSUME WalkInv, TwinInv, NEW one \in Trainings, NEW other \in Trainings,
           ModelsOf(one) = ModelsOf(other), mwPass \notin {"load", "rejected"},
           NEW a \in ToSet(mwRows[one]), NEW b \in ToSet(mwRows[other]), a.id = b.id
    PROVE  a.known = b.known
<1>1. PICK file, models, first, second :
        /\ file = mwFile /\ models = ModelsOf(one)
        /\ first = mwRows[one] /\ second = mwRows[other]
  OBVIOUS
<1>2. /\ Chained(models, file, first) /\ Chained(models, file, second)
      /\ IsSequence(first) /\ IsSequence(second)
  BY <1>1, TrainingNames DEF WalkInv, WalkTypeOK, TwinInv
<1>3. /\ DOMAIN first = 1..Len(first) /\ DOMAIN second = 1..Len(second)
      /\ Len(first) \in Nat /\ Len(second) \in Nat
  BY <1>2, LenProperties DEF IsSequence
<1>4. PICK i \in 1..Len(first), j \in 1..Len(second) : a = first[i] /\ b = second[j]
  BY <1>1, <1>3 DEF ToSet
<1>5. file \in Seq(Record) /\ ~FileRejected(file)
  BY <1>1 DEF WalkInv, WalkTypeOK, DatasetAccepted
<1>6. Len(file) \in Nat /\ \A p, q \in 1..Len(file) : p # q => file[p].id # file[q].id
  BY <1>5, Accepted
<1>7. /\ Len(first) <= Len(file) /\ Len(second) <= Len(file)
      /\ first[i].id = file[i].id /\ second[j].id = file[j].id
  BY <1>2 DEF Chained
<1>8. i \in 1..Len(file) /\ j \in 1..Len(file) /\ i \in Nat
  BY <1>3, <1>6, <1>7
<1>9. i = j
  BY <1>4, <1>6, <1>7, <1>8
<1>10. first[i].known = second[i].known
  BY <1>2, <1>8, <1>9, ChainsAgree
<1> QED BY <1>4, <1>9, <1>10

\* No configuration, and no fixed baseline, depends on a match of the test
\* seasons, and the walk over the whole file predicts a validation match from the
\* same knowledge as the tuning walk did (standard_split, tune_elo,
\* tune_goal_model): the score on the test seasons is an honest one.
THEOREM TestsUntouched == MatchWalkSpec => []TestSeasonsUntouched
<1>1. ASSUME WalkInv, TwinInv PROVE TestSeasonsUntouched
  <2>1. mwConfig \cap {mwFile[i].id : i \in TestRecords} = {}
    BY <1>1 DEF TwinInv, TestIds
  <2>2. /\ {"elo tune", "elo test", "goals tune", "goals test"} \subseteq Trainings
        /\ ModelsOf("elo tune") = ModelsOf("elo test")
        /\ ModelsOf("goals tune") = ModelsOf("goals test")
    BY DEF Trainings, ModelsOf
  <2>3. CASE mwPass \in {"load", "rejected"}
    <3>1. \A w \in Trainings : ToSet(mwRows[w]) = {}
      <4>1. \A w \in Trainings : mwRows[w] = <<>>
        BY <1>1, <2>3, TrainingOrder DEF TwinInv
      <4>2. ToSet(<<>>) = {}
        <5>1. DOMAIN <<>> = {}
          OBVIOUS
        <5> QED BY <5>1 DEF ToSet
      <4> QED BY <4>1, <4>2
    <3> QED BY <2>1, <2>2, <3>1 DEF TestSeasonsUntouched
  <2>4. CASE mwPass \notin {"load", "rejected"}
    <3>1. \A a \in ToSet(mwRows["elo tune"]), b \in ToSet(mwRows["elo test"]) :
            a.id = b.id => a.known = b.known
      BY <1>1, <2>2, <2>4, SameKnowledge
    <3>2. \A a \in ToSet(mwRows["goals tune"]), b \in ToSet(mwRows["goals test"]) :
            a.id = b.id => a.known = b.known
      BY <1>1, <2>2, <2>4, SameKnowledge
    <3> QED BY <2>1, <3>1, <3>2 DEF TestSeasonsUntouched
  <2> QED BY <2>3, <2>4
<1> QED BY <1>1, WalkInvariance, TwinInvariance, PTL

=============================================================================

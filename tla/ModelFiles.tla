------------------------------ MODULE ModelFiles ------------------------------
(***************************************************************************)
(* The files of the modelling package: feature exports (a csv and its      *)
(* quality report) and model artifacts (a model and its evaluation).  Each *)
(* script reads its inputs, then writes one file after the other; it may   *)
(* die between two writes or in one, and the exports it reads may have     *)
(* been replaced since their reports were written.  A checksum stands for  *)
(* the content it is the hash of.                                          *)
(***************************************************************************)
EXTENDS Integers, FiniteSets, Sequences

CONSTANTS
    Imports,          \* versions of the historical export
    Fixtures,         \* and the fixtures of each
    PlayerExports,    \* versions of the player context files
    CoveredExports,   \* those with enough records and covered fixtures
    MaxArtifacts,     \* bound: versions on disk
    MaxFaults         \* bound: crashes and replacements of the sources

ASSUME ModelFilesAssumption ==
    /\ Imports # {} /\ DOMAIN Fixtures = Imports /\ PlayerExports # {} /\ CoveredExports \subseteq PlayerExports
    /\ MaxArtifacts \in Nat /\ MaxFaults \in Nat

VARIABLES
    mfImport, mfPlayers,   \* the sources on disk
    mfCsv,                 \* per kind of export, the csv
    mfQuality,             \* and its quality report
    mfScript,              \* the script that runs
    mfArtifacts,           \* the artifacts on disk, one per version
    mfFaults

modelFilesVars == <<mfImport, mfPlayers, mfCsv, mfQuality, mfScript, mfArtifacts,
                   mfFaults>>

Exports == {"base", "player", "tactical"}
Models == {"elo", "goals", "tabular", "statistics", "player", "ensemble", "tactical"}

\* a csv that is not there, and one cut in a row, which no loader accepts
NoCsv == [content |-> <<>>, whole |-> FALSE]
BrokenCsv == [content |-> <<"unreadable">>, whole |-> FALSE]

\* a report that is not there, and one cut short
NoReport == [of |-> NoCsv, sources |-> <<>>, records |-> {}, trainable |-> FALSE]
BrokenReport == [NoReport EXCEPT !.of = BrokenCsv]

NoScript == [step |-> "none", kind |-> "none", data |-> NoCsv, sources |-> <<>>,
             records |-> {}]

-----------------------------------------------------------------------------
(* Feature exports *)

\* what a script renders from the files it reads
PrematchRows == <<mfImport>>
PlayerRows == <<mfCsv["base"], mfPlayers>>
TacticalRows == <<mfCsv["player"], mfImport, mfPlayers>>

Rendered(kind) ==
    [content |-> CASE kind = "base" -> PrematchRows
                   [] kind = "player" -> PlayerRows
                   [] OTHER -> TacticalRows,
     whole |-> TRUE]

\* a csv cut between two rows of its last season is still valid
ExportValid(kind) == mfCsv[kind] \notin {NoCsv, BrokenCsv}

\* how many records the export was made from (the player report keeps it) and
\* whether enough of its fixtures are covered
AssessPlayerCoverage(records) == records \subseteq CoveredExports
AssessTacticalCoverage(records) == records \subseteq CoveredExports

Coverage(kind, records) ==
    CASE kind = "player" -> AssessPlayerCoverage(records)
      [] kind = "tactical" -> AssessTacticalCoverage(records)
      [] OTHER -> TRUE

\* the quality report of an export: the csv it describes, the checksums of
\* what it was built from and the verdict of the gate
Summary(kind, script) ==
    [of |-> script.data, sources |-> script.data.content, records |-> script.records,
     trainable |-> Coverage(kind, script.records)]

BeginExport(kind, force) ==
    /\ mfScript = NoScript
    /\ force \/ (mfCsv[kind] = NoCsv /\ mfQuality[kind] = NoReport)
    /\ kind = "player" => ExportValid("base")
    /\ kind = "tactical" => ExportValid("player")
    /\ mfScript' = [step |-> "csv", kind |-> kind, data |-> Rendered(kind),
                    sources |-> <<>>, records |-> {mfPlayers}]
    /\ UNCHANGED <<mfImport, mfPlayers, mfCsv, mfQuality, mfArtifacts, mfFaults>>

\* the player and the tactical export read their csv back before the report
WriteCsv(kind) ==
    /\ mfScript.step = "csv" /\ mfScript.kind = kind
    /\ mfCsv' = [mfCsv EXCEPT ![kind] = mfScript.data]
    /\ mfScript' = [mfScript EXCEPT !.step = "report"]
    /\ UNCHANGED <<mfImport, mfPlayers, mfQuality, mfArtifacts, mfFaults>>

WriteQualityReport(kind) ==
    /\ mfScript.step = "report" /\ mfScript.kind = kind
    /\ mfQuality' = [mfQuality EXCEPT ![kind] = Summary(kind, mfScript)]
    /\ mfScript' = NoScript
    /\ UNCHANGED <<mfImport, mfPlayers, mfCsv, mfArtifacts, mfFaults>>

WriteFeatureExport(kind) ==
    (\E force \in BOOLEAN : BeginExport(kind, force))
      \/ WriteCsv(kind) \/ WriteQualityReport(kind)

WritePrematchExport == WriteFeatureExport("base")
WritePlayerExport == WriteFeatureExport("player")
WriteTacticalExport == WriteFeatureExport("tactical")

-----------------------------------------------------------------------------
(* Training scripts *)

ReportFound(kind) ==
    /\ mfQuality[kind] # NoReport
    /\ ExportValid(kind)
    /\ mfQuality[kind].trainable = Coverage(kind, mfQuality[kind].records)

\* the report must be of this csv and its verdict the one recomputed from it
ReportMatches(kind) ==
    /\ mfQuality[kind] # NoReport
    /\ ExportValid(kind)
    /\ mfQuality[kind].of = mfCsv[kind]
    /\ mfQuality[kind].trainable = Coverage(kind, mfQuality[kind].records)

LoadHistorical == [content |-> <<mfImport>>, whole |-> TRUE]

\* what a training reads, and whether its loader and its gate accept it
LoadTabularDataset == ExportValid("base")
LoadAnyStatistics == ExportValid("base")

\* the fixtures of the two files must be the same; a torn csv lacks some
LoadStatisticsDataset ==
    /\ ExportValid("base") /\ mfCsv["base"].whole
    /\ Fixtures[mfCsv["base"].content[1]] = Fixtures[mfImport]
LoadPlayerImpactDataset == ReportMatches("player") /\ mfQuality["player"].trainable
LoadTacticalTrainingDataset ==
    ReportMatches("tactical") /\ mfQuality["tactical"].trainable

TrainingAccepts(kind) ==
    CASE kind \in {"elo", "goals"} -> TRUE
      [] kind = "tabular" -> LoadTabularDataset
      [] kind = "statistics" -> LoadStatisticsDataset
      [] kind \in {"player", "ensemble"} -> LoadPlayerImpactDataset
      [] OTHER -> LoadTacticalTrainingDataset

TrainingData(kind) ==
    CASE kind \in {"elo", "goals"} -> LoadHistorical
      [] kind \in {"tabular", "statistics"} -> mfCsv["base"]
      [] kind \in {"player", "ensemble"} -> mfCsv["player"]
      [] OTHER -> mfCsv["tactical"]

\* the checksums an artifact names beside that of its data set
RecordedSources(kind) ==
    CASE kind \in {"player", "tactical"} -> mfQuality[kind].sources
      [] kind = "statistics" -> <<mfImport>>
      [] OTHER -> <<>>

BeginTraining(kind) ==
    /\ mfScript = NoScript
    /\ TrainingAccepts(kind)
    /\ mfScript' = [step |-> "model", kind |-> kind, data |-> TrainingData(kind),
                    sources |-> RecordedSources(kind), records |-> {}]
    /\ UNCHANGED <<mfImport, mfPlayers, mfCsv, mfQuality, mfArtifacts, mfFaults>>

\* the version is a hash of the inputs and of the result, which is a function
\* of them; which of the recorded sources it includes differs
Version(inputs) == [kind |-> mfScript.kind, data |-> mfScript.data, inputs |-> inputs]

AnyVersion(version) == TRUE

VersionFree(version) == \A a \in mfArtifacts : a.version # version

\* bound: room on disk for another version
Room(version) == Cardinality({a \in mfArtifacts : a.version # version}) < MaxArtifacts

PutArtifact(version, model, evaluation) ==
    mfArtifacts' = {a \in mfArtifacts : a.version # version}
                     \cup {[version |-> version, sources |-> mfScript.sources,
                            model |-> model, evaluation |-> evaluation]}

\* an existing model or evaluation of the version ends the script
WriteModel(version) ==
    /\ mfScript.step = "model"
    /\ \/ /\ ~VersionFree(version)
          /\ mfScript' = NoScript
          /\ UNCHANGED mfArtifacts
       \/ /\ VersionFree(version) /\ Room(version)
          /\ PutArtifact(version, "whole", "none")
          /\ mfScript' = [mfScript EXCEPT !.step = "evaluation"]
    /\ UNCHANGED <<mfImport, mfPlayers, mfCsv, mfQuality, mfFaults>>

WriteEvaluation(version) ==
    /\ mfScript.step = "evaluation"
    /\ PutArtifact(version, "whole", "whole")
    /\ mfScript' = NoScript
    /\ UNCHANGED <<mfImport, mfPlayers, mfCsv, mfQuality, mfFaults>>

\* the script dies in the middle of a write
TornWrite(version) ==
    /\ mfFaults < MaxFaults /\ mfFaults' = mfFaults + 1
    /\ \/ /\ mfScript.step = "model" /\ VersionFree(version) /\ Room(version)
          /\ PutArtifact(version, "torn", "none")
       \/ /\ mfScript.step = "evaluation"
          /\ PutArtifact(version, "whole", "torn")
    /\ mfScript' = NoScript
    /\ UNCHANGED <<mfImport, mfPlayers, mfCsv, mfQuality>>

WriteArtifacts(kind, version) ==
    /\ mfScript.kind = kind
    /\ WriteModel(version) \/ WriteEvaluation(version) \/ TornWrite(version)

EloVersion == Version(<<>>)
GoalVersion == Version(<<>>)
TabularVersion == Version(<<>>)
EnsembleVersion == Version(<<>>)
StatisticsVersion == Version(mfScript.sources)
PlayerVersion == Version(SubSeq(mfScript.sources, 2, 2))
TacticalVersion == Version(mfScript.sources)

WriteEloArtifacts == WriteArtifacts("elo", EloVersion)
WriteGoalArtifacts == WriteArtifacts("goals", GoalVersion)
WriteTabularArtifacts == WriteArtifacts("tabular", TabularVersion)
WriteEnsembleArtifacts == WriteArtifacts("ensemble", EnsembleVersion)
WriteStatisticsArtifacts == WriteArtifacts("statistics", StatisticsVersion)
WritePlayerArtifacts == WriteArtifacts("player", PlayerVersion)
WriteTacticalArtifacts == WriteArtifacts("tactical", TacticalVersion)

-----------------------------------------------------------------------------
(* Failures and changes of the sources *)

\* the script dies before its next write, or in the middle of the csv (which is
\* cut between two rows or in one) or of the report; what was there is lost
Crash ==
    /\ mfScript # NoScript
    /\ mfFaults < MaxFaults /\ mfFaults' = mfFaults + 1
    /\ mfScript' = NoScript
    /\ \/ UNCHANGED <<mfCsv, mfQuality>>
       \/ /\ mfScript.step = "csv"
          /\ \E left \in {BrokenCsv, [mfScript.data EXCEPT !.whole = FALSE]} :
               mfCsv' = [mfCsv EXCEPT ![mfScript.kind] = left]
          /\ UNCHANGED mfQuality
       \/ /\ mfScript.step = "report"
          /\ mfQuality' = [mfQuality EXCEPT ![mfScript.kind] = BrokenReport]
          /\ UNCHANGED mfCsv
    /\ UNCHANGED <<mfImport, mfPlayers, mfArtifacts>>

ReplaceSources ==
    /\ mfScript = NoScript
    /\ mfImport' \in Imports
    /\ mfPlayers' \in PlayerExports
    /\ <<mfImport', mfPlayers'>> # <<mfImport, mfPlayers>>
    /\ mfFaults < MaxFaults /\ mfFaults' = mfFaults + 1
    /\ UNCHANGED <<mfCsv, mfQuality, mfScript, mfArtifacts>>

ModelFilesStart ==
    /\ mfCsv = [k \in Exports |-> NoCsv]
    /\ mfQuality = [k \in Exports |-> NoReport]
    /\ mfScript = NoScript
    /\ mfArtifacts = {}
    /\ mfFaults = 0

ModelFilesInit ==
    /\ mfImport \in Imports /\ mfPlayers \in PlayerExports
    /\ ModelFilesStart

ModelFilesNext ==
    \/ WritePrematchExport \/ WritePlayerExport \/ WriteTacticalExport
    \/ \E k \in Models : BeginTraining(k)
    \/ WriteEloArtifacts \/ WriteGoalArtifacts \/ WriteTabularArtifacts
    \/ WriteEnsembleArtifacts \/ WriteStatisticsArtifacts
    \/ WritePlayerArtifacts \/ WriteTacticalArtifacts
    \/ Crash
    \/ ReplaceSources

ModelFilesSpec == ModelFilesInit /\ [][ModelFilesNext]_modelFilesVars

-----------------------------------------------------------------------------
(* Properties *)

\* A model of a gated kind was trained on a whole export that passed its
\* coverage gate, and names the files this very export was built from,
\* whatever was replaced or torn between the export and the training.
GatedModelsTraceable ==
    \A a \in mfArtifacts :
        LET data == a.version.data
        IN  /\ a.version.kind \in {"player", "ensemble", "tactical"} =>
                 data.whole /\ data.content[Len(data.content)] \in CoveredExports
            /\ a.version.kind \in {"player", "tactical"} => a.sources = data.content

\* A detailed-statistics model was trained on features and counts of the same
\* fixtures, and an evaluation is only ever found beside the complete model
\* it describes.
EvaluationsDescribeModels ==
    \A a \in mfArtifacts :
        /\ a.evaluation # "none" => a.model = "whole"
        /\ a.version.kind = "statistics" =>
             /\ a.version.data.whole
             /\ Fixtures[a.version.data.content[1]] = Fixtures[a.sources[1]]

\* A complete model is never changed or removed again, and an evaluation
\* never disappears: a version is written once.
ArtifactsWrittenOnce ==
    [][\A a \in mfArtifacts : a.model = "whole" =>
          \E b \in mfArtifacts' :
              /\ b.version = a.version /\ b.model = "whole"
              /\ a.evaluation # "none" => b = a]_modelFilesVars

=============================================================================

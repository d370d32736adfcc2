------------------------------- MODULE TrainingProofs ------------------------------
(***************************************************************************)
(* Proofs about training.  The worker's goal training, for every season,    *)
(* every set of matches and any number of ingestions: the type invariant    *)
(* holds for any number of trainers; the other theorems need that one       *)
(* process trains at a time, which the overlap runs show to be necessary.   *)
(* The rows a player-aware model is trained on, for every player context:   *)
(* they are made of what had been observed before their cutoff.             *)
(***************************************************************************)
EXTENDS GoalTraining, PlayerWalk, PlacesProofs

\* The edits of a row keep it a row.
LEMMA EditedRow ==
  ASSUME NEW r \in Row, NEW a \in Artifact
  PROVE  /\ [r EXCEPT !.active = FALSE] \in Row
         /\ [r EXCEPT !.status = "failed", !.active = FALSE] \in Row
         /\ [r EXCEPT !.status = "succeeded", !.active = TRUE, !.file = a] \in Row
<1>1. [r EXCEPT !.active = FALSE] \in Row
  BY DEF Row
<1>2. [r EXCEPT !.status = "failed", !.active = FALSE] \in Row
  BY DEF Row
<1>3. [r EXCEPT !.status = "succeeded", !.active = TRUE, !.file = a] \in Row
  BY DEF Row
<1> QED
  BY <1>1, <1>2, <1>3

LEMMA EditedFields ==
  ASSUME NEW r \in Row, NEW a \in Artifact
  PROVE  LET done == [r EXCEPT !.status = "succeeded", !.active = TRUE, !.file = a]
             left == [r EXCEPT !.active = FALSE]
         IN  /\ done.status = "succeeded" /\ done.active = TRUE
             /\ done.file = a /\ done.cutoff = r.cutoff
             /\ left.status = r.status /\ left.active = FALSE
             /\ left.file = r.file /\ left.cutoff = r.cutoff
<1>1. LET left == [r EXCEPT !.active = FALSE]
      IN  left.status = r.status /\ left.active = FALSE
          /\ left.file = r.file /\ left.cutoff = r.cutoff
  BY DEF Row
<1>2. LET done == [r EXCEPT !.status = "succeeded", !.active = TRUE, !.file = a]
      IN  done.status = "succeeded" /\ done.active = TRUE
          /\ done.file = a /\ done.cutoff = r.cutoff
  BY DEF Row
<1> QED
  BY <1>1, <1>2

\* The constants of the registry's vocabulary.
USE DEF Week, Sample, Artifact, Baseline, Row, Key

LEMMA TypeInit == Init => TypeOK
<1> SUFFICES ASSUME Init PROVE TypeOK
  OBVIOUS
<1> USE SeasonAssumption DEF Init
<1>1. Baseline \in Artifact
  OBVIOUS
<1>2. rows \in [DOMAIN rows -> Row] /\ DOMAIN rows \subseteq Week \X (Nat \ {0})
  OBVIOUS
<1>3. job \in [Trainer -> Artifact] /\ pc \in [Trainer -> {"idle", "cutoff", "fit", "write"}]
  BY <1>1
<1> QED
  BY <1>1, <1>2, <1>3 DEF TypeOK

LEMMA TypeIngest ==
  ASSUME TypeOK, NEW change \in [Match -> Outcome], Ingest(change)
  PROVE  TypeOK'
<1> DEFINE now == clock + 1
<1>1. clock' = now /\ now \in 1..MaxClock /\ clock \in Nat
  BY SeasonAssumption DEF TypeOK, Ingest
<1>2. results' \subseteq [match : Match, at : 1..clock', voided : 0..clock']
  <2>1. ASSUME NEW r \in results'
        PROVE  r \in [match : Match, at : 1..now, voided : 0..now]
    <3>1. CASE \E q \in results : r = q \/ r = [q EXCEPT !.voided = now]
      <4>1. PICK q \in results : r = q \/ r = [q EXCEPT !.voided = now]
        BY <3>1
      <4>2. q \in [match : Match, at : 1..clock, voided : 0..clock]
        BY DEF TypeOK
      <4> QED
        BY <4>1, <4>2, <1>1
    <3>2. CASE r \in [match : Match, at : {now}, voided : {0}]
      BY <3>2, <1>1
    <3> QED
      BY <3>1, <3>2, <2>1 DEF Ingest
  <2> QED
    BY <2>1, <1>1
<1>3. off' \subseteq Match
  BY DEF TypeOK, Ingest
<1>4. UNCHANGED <<rows, installed, pc, job>>
  BY DEF Ingest, registry, trainers
<1> QED
  BY <1>1, <1>2, <1>3, <1>4 DEF TypeOK

\* Writing a well-formed row under a well-formed key keeps the registry's type.
LEMMA SetRowType ==
  ASSUME TypeOK, NEW key \in Week \X (Nat \ {0}), NEW row \in Row, SetRow(key, row)
  PROVE  /\ DOMAIN rows' = DOMAIN rows \cup {key}
         /\ rows' \in [DOMAIN rows' -> Row]
         /\ DOMAIN rows' \subseteq Week \X (Nat \ {0})
BY DEF TypeOK, SetRow
-------------------------------------------------------------------------------
(* Types, for any number of trainers.                                        *)

\* A trainer at work has a real revision of a real matchweek, and the row it
\* registered is still there when it completes it.
JobOK ==
  \A t \in Trainer :
    /\ pc[t] # "idle" => Key(t) \in Week \X (Nat \ {0})
    /\ pc[t] = "write" => Key(t) \in DOMAIN rows

LEMMA TypeReadCutoff ==
  ASSUME TypeOK, JobOK, NEW t \in Trainer, ReadCutoff(t)
  PROVE  TypeOK' /\ JobOK'
<1>0. PICK k \in Week :
        \E r \in Revisions(k) \cup {0}, c \in ChangeTimes(k) :
          job' = [job EXCEPT ![t] =
                   [week |-> k, revision |-> NextRevision(r),
                    cutoff |-> c, trained |-> {}]]
  BY DEF ReadCutoff
<1>1. PICK r \in Revisions(k) \cup {0}, c \in ChangeTimes(k) :
        job' = [job EXCEPT ![t] =
                 [week |-> k, revision |-> NextRevision(r),
                  cutoff |-> c, trained |-> {}]]
  BY <1>0
<1>2. r \in Nat /\ NextRevision(r) \in Nat \ {0}
  BY DEF TypeOK, Revisions, NextRevision
<1>3. c \in Nat
  BY SeasonAssumption DEF TypeOK, ChangeTimes
<1>4. k \in Nat
  BY SeasonAssumption
<1>5. job' \in [Trainer -> Artifact]
  BY <1>1, <1>2, <1>3, <1>4 DEF TypeOK
<1>6. pc' = [pc EXCEPT ![t] = "cutoff"] /\ UNCHANGED <<clock, results, off, rows, installed>>
  BY DEF ReadCutoff, Goto, football, registry
<1>7. TypeOK'
  BY <1>5, <1>6 DEF TypeOK
<1>8. JobOK'
  BY <1>1, <1>2, <1>4, <1>6 DEF TypeOK, JobOK
<1> QED
  BY <1>7, <1>8

\* The training set consists of observed results.
LEMMA TrainingSetType ==
  ASSUME TypeOK, NEW k, NEW c
  PROVE  TrainingSet(k, c) \in SUBSET Sample
BY SeasonAssumption DEF TypeOK, TrainingSet

LEMMA TypeReadTrainingSet ==
  ASSUME TypeOK, JobOK, NEW t \in Trainer, ReadTrainingSet(t)
  PROVE  TypeOK' /\ JobOK'
<1> DEFINE S == TrainingSet(job[t].week, job[t].cutoff)
<1>1. S \in SUBSET Sample
  BY TrainingSetType
<1>2. /\ job' = [job EXCEPT ![t].trained = S]
      /\ pc' = [pc EXCEPT ![t] = "fit"] /\ pc[t] = "cutoff"
      /\ UNCHANGED <<clock, results, off, rows, installed>>
  BY DEF ReadTrainingSet, Goto, football, registry
<1> HIDE DEF S
<1>3. job' \in [Trainer -> Artifact]
  BY <1>1, <1>2 DEF TypeOK
<1>4. \A u \in Trainer : Key(u)' = Key(u)
  BY <1>2 DEF TypeOK
<1> QED
  BY <1>2, <1>3, <1>4 DEF TypeOK, JobOK

LEMMA TypeRegister ==
  ASSUME TypeOK, JobOK, NEW t \in Trainer, Register(t)
  PROVE  TypeOK' /\ JobOK'
<1>1. /\ pc' = [pc EXCEPT ![t] = "write"] /\ pc[t] = "fit"
      /\ UNCHANGED <<clock, results, off, installed, job>>
      /\ SetRow(Key(t), Running(t))
  BY DEF Register, Goto, football
<1>2. Key(t) \in Week \X (Nat \ {0})
  BY <1>1 DEF JobOK
<1>3. Running(t) \in Row
  BY DEF TypeOK, Running
<1>4. /\ DOMAIN rows' = DOMAIN rows \cup {Key(t)}
      /\ rows' \in [DOMAIN rows' -> Row]
      /\ DOMAIN rows' \subseteq Week \X (Nat \ {0})
  BY <1>1, <1>2, <1>3, SetRowType
<1>5. TypeOK'
  BY <1>1, <1>4 DEF TypeOK
<1>6. JobOK'
  BY <1>1, <1>2, <1>4 DEF TypeOK, JobOK
<1> QED
  BY <1>5, <1>6

LEMMA TypeFailWrite ==
  ASSUME TypeOK, JobOK, NEW t \in Trainer, FailWrite(t)
  PROVE  TypeOK' /\ JobOK'
<1> DEFINE row == [rows[Key(t)] EXCEPT !.status = "failed", !.active = FALSE]
<1>1. /\ pc' = [pc EXCEPT ![t] = "idle"] /\ pc[t] = "write"
      /\ job' = [job EXCEPT ![t] = Baseline]
      /\ UNCHANGED <<clock, results, off, installed>>
      /\ SetRow(Key(t), row)
  BY DEF FailWrite, Goto, football
<1>2. Key(t) \in Week \X (Nat \ {0}) /\ Key(t) \in DOMAIN rows
  BY <1>1 DEF JobOK
<1>3. row \in Row
  <2>1. rows[Key(t)] \in Row /\ Baseline \in Artifact
    BY <1>2 DEF TypeOK
  <2> HIDE DEF Row, Artifact, Baseline, Key
  <2> QED
    BY <2>1, EditedRow
<1>4. /\ DOMAIN rows' = DOMAIN rows
      /\ rows' \in [DOMAIN rows' -> Row]
      /\ DOMAIN rows' \subseteq Week \X (Nat \ {0})
  <2> HIDE DEF row, Row, Key
  <2>1. DOMAIN rows' = DOMAIN rows \cup {Key(t)} /\ rows' \in [DOMAIN rows' -> Row]
        /\ DOMAIN rows' \subseteq Week \X (Nat \ {0})
    BY <1>1, <1>2, <1>3, SetRowType
  <2> QED
    BY <1>2, <2>1
<1> HIDE DEF row
<1>5. Baseline \in Artifact
  OBVIOUS
<1>6. TypeOK'
  BY <1>1, <1>4, <1>5 DEF TypeOK
<1>7. JobOK'
  BY <1>1, <1>4 DEF TypeOK, JobOK
<1> QED
  BY <1>6, <1>7

LEMMA TypeActivate ==
  ASSUME TypeOK, JobOK, NEW t \in Trainer, Activate(t)
  PROVE  TypeOK' /\ JobOK'
<1>1. /\ pc' = [pc EXCEPT ![t] = "idle"] /\ pc[t] = "write"
      /\ job' = [job EXCEPT ![t] = Baseline]
      /\ installed' = job[t]
      /\ UNCHANGED <<clock, results, off>>
  BY DEF Activate, Goto, football
<1>2. DOMAIN rows' = DOMAIN rows
  BY DEF Activate
<1>3. ASSUME NEW q \in DOMAIN rows PROVE rows'[q] \in Row
  <2>1. rows[q] \in Row /\ job[t] \in Artifact
    BY DEF TypeOK
  <2>2. \/ rows'[q] = [rows[q] EXCEPT !.status = "succeeded", !.active = TRUE, !.file = job[t]]
        \/ rows'[q] = [rows[q] EXCEPT !.active = FALSE]
    BY DEF Activate
  <2> HIDE DEF Row, Artifact, Key
  <2> QED
    BY <2>1, <2>2, EditedRow
<1>4. rows' \in [DOMAIN rows' -> Row]
  <2>1. rows' = [q \in DOMAIN rows |-> rows'[q]]
    BY DEF Activate
  <2> QED
    BY <1>2, <1>3, <2>1
<1>5. Baseline \in Artifact /\ job[t] \in Artifact
  BY DEF TypeOK
<1>6. TypeOK'
  BY <1>1, <1>2, <1>4, <1>5 DEF TypeOK
<1>7. JobOK'
  BY <1>1, <1>2 DEF TypeOK, JobOK
<1> QED
  BY <1>6, <1>7

LEMMA TypeAbandon ==
  ASSUME TypeOK, JobOK, NEW t \in Trainer, Abandon(t)
  PROVE  TypeOK' /\ JobOK'
<1>1. /\ pc' = [pc EXCEPT ![t] = "idle"]
      /\ job' = [job EXCEPT ![t] = Baseline]
      /\ UNCHANGED <<clock, results, off, rows, installed>>
  BY DEF Abandon, Goto, football, registry
<1>2. Baseline \in Artifact
  OBVIOUS
<1> QED
  BY <1>1, <1>2 DEF TypeOK, JobOK

LEMMA TypeInitialize == TypeOK /\ JobOK /\ Initialize => TypeOK' /\ JobOK'
<1> SUFFICES ASSUME TypeOK, JobOK, Initialize PROVE TypeOK' /\ JobOK'
  OBVIOUS
<1>1. UNCHANGED <<clock, results, off, rows, pc, job>>
  BY DEF Initialize, football, trainers
<1>2. installed' \in Artifact
  BY DEF TypeOK, Initialize, Active
<1> QED
  BY <1>1, <1>2 DEF TypeOK, JobOK

\* Every state has its type, and trainers at work hold real keys.
THEOREM TypeInvariance == Spec => [](TypeOK /\ JobOK)
<1>1. Init => TypeOK /\ JobOK
  BY TypeInit DEF Init, JobOK
<1>2. TypeOK /\ JobOK /\ [Next]_vars => TypeOK' /\ JobOK'
  <2> SUFFICES ASSUME TypeOK, JobOK, [Next]_vars PROVE TypeOK' /\ JobOK'
    OBVIOUS
  <2>1. ASSUME NEW change \in [Match -> Outcome], Ingest(change) PROVE TypeOK' /\ JobOK'
    <3>1. UNCHANGED <<rows, pc, job>>
      BY <2>1 DEF Ingest, registry, trainers
    <3> QED
      BY <2>1, <3>1, TypeIngest DEF JobOK
  <2>2. ASSUME NEW t \in Trainer, Train(t) PROVE TypeOK' /\ JobOK'
    BY <2>2, TypeReadCutoff, TypeReadTrainingSet, TypeRegister, TypeFailWrite,
       TypeActivate, TypeAbandon DEF Train
  <2>3. CASE Initialize
    BY <2>3, TypeInitialize
  <2>4. CASE UNCHANGED vars
    BY <2>4 DEF vars, football, registry, trainers, TypeOK, JobOK
  <2> QED
    BY <2>1, <2>2, <2>3, <2>4 DEF Next
<1> QED
  BY <1>1, <1>2, PTL DEF Spec

\* Every reachable state of the ingestions, the registry and the trainers has its
\* type (type of the rows of actual_result_revisions and local_model_artifacts).
THEOREM TrainingTypeCorrect == Spec => []TypeOK
BY TypeInvariance, PTL
-------------------------------------------------------------------------------
(* One trainer: what the registry holds.                                     *)

OneTrainer == \A t, u \in Trainer : t = u

Published == {key \in DOMAIN rows : rows[key].status = "succeeded"}

\* A published row describes its own files; only published rows are active.
RowsSound ==
  \A key \in DOMAIN rows :
    /\ rows[key].active => rows[key].status = "succeeded"
    /\ rows[key].status = "succeeded" =>
         /\ <<rows[key].file.week, rows[key].file.revision>> = key
         /\ rows[key].file.cutoff = rows[key].cutoff
         /\ \A s \in rows[key].file.trained : s.at <= rows[key].cutoff

\* The trainer learns from results up to its cutoff only, its revision is not
\* published yet, and the row it registered has its cutoff.
JobsSound ==
  \A t \in Trainer : pc[t] # "idle" =>
    /\ \A s \in job[t].trained : s.at <= job[t].cutoff
    /\ Key(t) \notin Published
    /\ pc[t] = "write" => rows[Key(t)].cutoff = job[t].cutoff

Sound == TypeOK /\ JobOK /\ RowsSound /\ JobsSound /\ InstallationNamesActive

\* A step that leaves the published rows alone.
Quiet ==
  /\ Published' = Published
  /\ \A key \in Published : rows'[key] = rows[key]

LEMMA QuietRegister ==
  ASSUME Sound, NEW t \in Trainer, Register(t)
  PROVE  Quiet /\ RowsSound'
<1>1. Key(t) \in Week \X (Nat \ {0}) /\ Key(t) \notin Published
  BY DEF Sound, JobOK, JobsSound, Register
<1>2. /\ DOMAIN rows' = DOMAIN rows \cup {Key(t)}
      /\ \A q \in DOMAIN rows : q # Key(t) => rows'[q] = rows[q]
      /\ rows'[Key(t)].status = "running" /\ rows'[Key(t)].active = FALSE
  BY DEF Register, SetRow, Running
<1> HIDE DEF Key
<1> QED
  BY <1>1, <1>2 DEF Quiet, Published, RowsSound, Sound

LEMMA QuietFailWrite ==
  ASSUME Sound, NEW t \in Trainer, FailWrite(t)
  PROVE  Quiet /\ RowsSound'
<1>1. Key(t) \in DOMAIN rows /\ Key(t) \notin Published
  BY DEF Sound, JobOK, JobsSound, FailWrite
<1>2. rows[Key(t)] \in Row
  BY <1>1 DEF Sound, TypeOK
<1>3. /\ DOMAIN rows' = DOMAIN rows
      /\ \A q \in DOMAIN rows : q # Key(t) => rows'[q] = rows[q]
      /\ rows'[Key(t)].status = "failed" /\ rows'[Key(t)].active = FALSE
  BY <1>1, <1>2 DEF FailWrite, SetRow
<1> HIDE DEF Key
<1> QED
  BY <1>1, <1>3 DEF Quiet, Published, RowsSound, Sound

\* The rows after the activation.
Activated(t) ==
  /\ Key(t) \in DOMAIN rows /\ Key(t) \notin Published
  /\ DOMAIN rows' = DOMAIN rows
  /\ rows'[Key(t)].status = "succeeded" /\ rows'[Key(t)].active = TRUE
  /\ rows'[Key(t)].file = job[t]
  /\ rows'[Key(t)].cutoff = job[t].cutoff
  /\ \A q \in DOMAIN rows : q # Key(t) =>
       /\ rows'[q].active = FALSE /\ rows'[q].status = rows[q].status
       /\ rows'[q].file = rows[q].file /\ rows'[q].cutoff = rows[q].cutoff
LEMMA ActivatedRows ==
  ASSUME Sound, NEW t \in Trainer, Activate(t)
  PROVE  Activated(t)
<1>1. Key(t) \in DOMAIN rows /\ Key(t) \notin Published
  BY DEF Sound, JobOK, JobsSound, Activate
<1>2. \A q \in DOMAIN rows : rows[q] \in Row
  BY DEF Sound, TypeOK
<1>3. rows[Key(t)].cutoff = job[t].cutoff
  BY DEF Sound, JobsSound, Activate
<1>4. rows' = [q \in DOMAIN rows |->
       IF q = Key(t)
       THEN [rows[q] EXCEPT !.status = "succeeded", !.active = TRUE, !.file = job[t]]
       ELSE [rows[q] EXCEPT !.active = FALSE]]
  BY DEF Activate
<1> HIDE DEF Key, Artifact
<1>5. rows'[Key(t)] = [rows[Key(t)] EXCEPT !.status = "succeeded", !.active = TRUE, !.file = job[t]]
  BY <1>1, <1>4
<1>6. \A q \in DOMAIN rows : q # Key(t) => rows'[q] = [rows[q] EXCEPT !.active = FALSE]
  BY <1>4
<1>7. DOMAIN rows' = DOMAIN rows
  BY <1>4
<1>8. job[t] \in Artifact
  BY DEF Sound, TypeOK
<1> HIDE DEF Row
<1>9. /\ rows'[Key(t)].status = "succeeded" /\ rows'[Key(t)].active = TRUE
      /\ rows'[Key(t)].file = job[t]
      /\ rows'[Key(t)].cutoff = job[t].cutoff
  BY <1>1, <1>2, <1>3, <1>5, <1>8, EditedFields
<1>10. ASSUME NEW q \in DOMAIN rows, q # Key(t)
       PROVE  /\ rows'[q].active = FALSE /\ rows'[q].status = rows[q].status
              /\ rows'[q].file = rows[q].file /\ rows'[q].cutoff = rows[q].cutoff
  <2>1. rows'[q] = [rows[q] EXCEPT !.active = FALSE] /\ rows[q] \in Row
    BY <1>2, <1>6, <1>10
  <2> QED
    BY <1>8, <2>1, EditedFields
<1> QED
  BY <1>1, <1>7, <1>9, <1>10 DEF Activated

LEMMA SoundActivate ==
  ASSUME OneTrainer, Sound, NEW t \in Trainer, Activate(t)
  PROVE  RowsSound' /\ JobsSound' /\ InstallationNamesActive'
<1>1. /\ Key(t) = <<job[t].week, job[t].revision>>
      /\ \A s \in job[t].trained : s.at <= job[t].cutoff
      /\ installed' = job[t] /\ pc'[t] = "idle"
      /\ \A u \in Trainer : u = t
  BY DEF Sound, TypeOK, JobsSound, Activate, Goto, OneTrainer
<1>0. Activated(t)
  BY ActivatedRows
<1> HIDE DEF Key
<1>2. RowsSound'
  <2>1. ASSUME NEW key \in DOMAIN rows', key = Key(t)
        PROVE  /\ rows'[key].status = "succeeded"
               /\ <<rows'[key].file.week, rows'[key].file.revision>> = key
               /\ rows'[key].file.cutoff = rows'[key].cutoff
               /\ \A s \in rows'[key].file.trained : s.at <= rows'[key].cutoff
    BY <1>1, <2>1, <1>0 DEF Activated
  <2>2. ASSUME NEW key \in DOMAIN rows', key # Key(t)
        PROVE  /\ rows'[key].active = FALSE
               /\ rows'[key].status = "succeeded" =>
                    /\ <<rows'[key].file.week, rows'[key].file.revision>> = key
                    /\ rows'[key].file.cutoff = rows'[key].cutoff
                    /\ \A s \in rows'[key].file.trained : s.at <= rows'[key].cutoff
    BY <2>2, <1>0 DEF Sound, RowsSound, Activated
  <2> QED
    BY <2>1, <2>2 DEF RowsSound
<1>3. JobsSound'
  BY <1>1 DEF JobsSound
<1>4. Active' = {Key(t)}
  BY <1>0 DEF Active, Activated
<1>5. InstallationNamesActive'
  BY <1>1, <1>4, <1>0 DEF InstallationNamesActive, Activated
<1> QED
  BY <1>2, <1>3, <1>5

\* The revision the trainer takes is not published.
LEMMA SoundReadCutoff ==
  ASSUME OneTrainer, Sound, NEW t \in Trainer, ReadCutoff(t)
  PROVE  JobsSound'
<1>0. PICK k \in Week :
        \E r \in Revisions(k) \cup {0}, c \in ChangeTimes(k) :
          /\ IsLatest(r, k)
          /\ job' = [job EXCEPT ![t] =
                   [week |-> k, revision |-> NextRevision(r),
                    cutoff |-> c, trained |-> {}]]
  BY DEF ReadCutoff
<1>1. PICK r \in Revisions(k) \cup {0}, c \in ChangeTimes(k) :
          /\ IsLatest(r, k)
          /\ job' = [job EXCEPT ![t] =
                   [week |-> k, revision |-> NextRevision(r),
                    cutoff |-> c, trained |-> {}]]
  BY <1>0
<1>2. r \in Nat /\ \A d \in Revisions(k) : d <= r
  BY <1>1 DEF Sound, TypeOK, Revisions, IsLatest, IsLatestTime
<1>3. <<k, r + 1>> \notin Published
  <2>1. SUFFICES ASSUME <<k, r + 1>> \in Published PROVE FALSE
    OBVIOUS
  <2>2. r + 1 \in Revisions(k)
    BY <2>1 DEF Published, Revisions
  <2> QED
    BY <1>2, <2>2
<1>4. job'[t] = [week |-> k, revision |-> r + 1, cutoff |-> c, trained |-> {}]
  BY <1>1 DEF Sound, TypeOK, NextRevision
<1>5. pc'[t] = "cutoff" /\ rows' = rows /\ \A u \in Trainer : u = t
  BY DEF ReadCutoff, Goto, registry, Sound, TypeOK, OneTrainer
<1>6. Key(t)' = <<k, r + 1>>
  BY <1>4
<1> QED
  BY <1>3, <1>4, <1>5, <1>6 DEF JobsSound, Published

LEMMA SoundReadTrainingSet ==
  ASSUME OneTrainer, Sound, NEW t \in Trainer, ReadTrainingSet(t)
  PROVE  JobsSound'
<1> DEFINE S == TrainingSet(job[t].week, job[t].cutoff)
<1>1. \A s \in S : s.at <= job[t].cutoff
  BY DEF TrainingSet, Known
<1>2. /\ job' = [job EXCEPT ![t].trained = S]
      /\ pc'[t] = "fit" /\ pc[t] = "cutoff" /\ rows' = rows /\ \A u \in Trainer : u = t
  BY DEF ReadTrainingSet, Goto, registry, Sound, TypeOK, OneTrainer
<1> HIDE DEF S
<1>3. job'[t].trained = S /\ job'[t].cutoff = job[t].cutoff /\ Key(t)' = Key(t)
  BY <1>2 DEF Sound, TypeOK
<1> QED
  BY <1>1, <1>2, <1>3 DEF JobsSound, Sound, Published

LEMMA SoundRegister ==
  ASSUME OneTrainer, Sound, NEW t \in Trainer, Register(t)
  PROVE  JobsSound'
<1>1. /\ job' = job /\ pc'[t] = "write" /\ pc[t] = "fit" /\ \A u \in Trainer : u = t
      /\ Key(t)' = Key(t)
  BY DEF Register, Goto, Sound, TypeOK, OneTrainer
<1>2. rows'[Key(t)].cutoff = job[t].cutoff
  BY DEF Register, SetRow, Running
<1>3. Key(t) \notin Published'
  BY <1>1, QuietRegister DEF Quiet, Sound, JobsSound
<1> HIDE DEF Key
<1> QED
  BY <1>1, <1>2, <1>3 DEF JobsSound, Sound

\* When the published rows stay as they are, so does what the installation names.
LEMMA QuietInstallation ==
  ASSUME InstallationNamesActive, Quiet, installed' = installed
  PROVE  InstallationNamesActive'
<1>1. Active = {key \in Published : rows[key].active} /\ Active' = {key \in Published' : rows'[key].active}
  BY DEF Active, Published
<1>2. Active' = Active /\ \A key \in Active : rows'[key] = rows[key]
  BY <1>1 DEF Quiet
<1> QED
  BY <1>2 DEF InstallationNamesActive

\* The effect of every step on the registry.
LEMMA RegistryStep ==
  ASSUME OneTrainer, Sound, [Next]_vars
  PROVE  /\ RowsSound' /\ JobsSound' /\ InstallationNamesActive'
         /\ Quiet \/ \E t \in Trainer : Activate(t)
<1>1. ASSUME UNCHANGED rows PROVE Quiet /\ RowsSound'
  BY <1>1 DEF Quiet, Published, RowsSound, Sound
<1>2. CASE \E change \in [Match -> Outcome] : Ingest(change)
  <2>1. UNCHANGED <<rows, installed, pc, job>>
    BY <1>2 DEF Ingest, registry, trainers
  <2> QED
    BY <1>1, <2>1, QuietInstallation DEF JobsSound, Published, Sound
<1>3. CASE Initialize
  <2>1. UNCHANGED <<rows, pc, job>>
    BY <1>3 DEF Initialize, trainers
  <2>2. Active' = Active
    BY <2>1 DEF Active
  <2>3. InstallationNamesActive'
    BY <1>3, <2>1, <2>2 DEF Initialize, InstallationNamesActive, Sound
  <2> QED
    BY <1>1, <2>1, <2>3 DEF JobsSound, Published, Sound
<1>4. CASE UNCHANGED vars
  <2>1. UNCHANGED <<rows, installed, pc, job>>
    BY <1>4 DEF vars, registry, trainers
  <2> QED
    BY <1>1, <2>1, QuietInstallation DEF JobsSound, Published, Sound
<1>5. ASSUME NEW t \in Trainer, Train(t)
      PROVE  /\ RowsSound' /\ JobsSound' /\ InstallationNamesActive'
             /\ Quiet \/ \E u \in Trainer : Activate(u)
  <2>1. CASE ReadCutoff(t)
    <3>1. UNCHANGED <<rows, installed>>
      BY <2>1 DEF ReadCutoff, registry
    <3> QED
      BY <1>1, <2>1, <3>1, SoundReadCutoff, QuietInstallation DEF Sound
  <2>2. CASE ReadTrainingSet(t)
    <3>1. UNCHANGED <<rows, installed>>
      BY <2>2 DEF ReadTrainingSet, registry
    <3> QED
      BY <1>1, <2>2, <3>1, SoundReadTrainingSet, QuietInstallation DEF Sound
  <2>3. CASE Register(t)
    <3>1. UNCHANGED installed
      BY <2>3 DEF Register
    <3> QED
      BY <2>3, <3>1, QuietRegister, SoundRegister, QuietInstallation DEF Sound
  <2>4. CASE FailWrite(t)
    <3>1. installed' = installed /\ pc'[t] = "idle" /\ \A u \in Trainer : u = t
      BY <2>4 DEF FailWrite, Goto, Sound, TypeOK, OneTrainer
    <3>2. JobsSound'
      BY <3>1 DEF JobsSound
    <3> QED
      BY <2>4, <3>1, <3>2, QuietFailWrite, QuietInstallation DEF Sound
  <2>5. CASE Activate(t)
    BY <2>5, SoundActivate
  <2>6. CASE Abandon(t)
    <3>1. UNCHANGED <<rows, installed>> /\ pc'[t] = "idle" /\ \A u \in Trainer : u = t
      BY <2>6 DEF Abandon, Goto, registry, Sound, TypeOK, OneTrainer
    <3>2. JobsSound'
      BY <3>1 DEF JobsSound
    <3> QED
      BY <1>1, <3>1, <3>2, QuietInstallation DEF Sound
  <2> QED
    BY <1>5, <2>1, <2>2, <2>3, <2>4, <2>5, <2>6 DEF Train
<1> QED
  BY <1>2, <1>3, <1>4, <1>5 DEF Next
LEMMA SoundInvariance ==
  ASSUME OneTrainer
  PROVE  Spec => []Sound
<1>1. Init => RowsSound /\ JobsSound /\ InstallationNamesActive
  <2> SUFFICES ASSUME Init PROVE RowsSound /\ JobsSound /\ InstallationNamesActive
    OBVIOUS
  <2>1. DOMAIN rows = {} /\ \A t \in Trainer : pc[t] = "idle"
    BY DEF Init
  <2>2. Active = {} /\ installed = Baseline
    BY <2>1 DEF Init, Active
  <2> QED
    BY <2>1, <2>2 DEF RowsSound, JobsSound, InstallationNamesActive
<1>2. Sound /\ [Next]_vars => RowsSound' /\ JobsSound' /\ InstallationNamesActive'
  BY RegistryStep
<1> QED
  BY <1>1, <1>2, TypeInvariance, PTL DEF Spec, Sound

\* The installation always names the one active model, whatever failed or was
\* interrupted (train_next_local_goal_model, local_init), as long as one process
\* trains at a time.
THEOREM ActiveModelNamed ==
  ASSUME OneTrainer
  PROVE  Spec => []InstallationNamesActive
BY SoundInvariance, PTL DEF Sound

\* A forecast never learns from results at or after its cutoff, for every season
\* and any interleaving of ingestions with the steps of a training.
THEOREM NoFutureLeak ==
  ASSUME OneTrainer
  PROVE  Spec => []NoFutureData
<1>1. Sound => NoFutureData
  <2> SUFFICES ASSUME Sound, NEW c \in 1..clock + 1, NEW key \in Selectable(c),
                      NEW s \in rows[key].file.trained \cup Applied(rows[key].file, c)
               PROVE  s.at < c
    BY DEF NoFutureData
  <2>1. clock \in Nat /\ c \in Nat
    BY SeasonAssumption DEF Sound, TypeOK
  <2>2. key \in DOMAIN rows /\ rows[key].status = "succeeded" /\ rows[key].cutoff < c
    BY DEF Selectable, Candidates
  <2>3. rows[key] \in Row
    BY <2>2 DEF Sound, TypeOK
  <2>4. CASE s \in rows[key].file.trained
    <3>1. s.at <= rows[key].cutoff /\ s.at \in Nat /\ rows[key].cutoff \in Nat
      BY <2>2, <2>3, <2>4 DEF Sound, RowsSound
    <3> QED
      BY <2>1, <2>2, <3>1
  <2>5. CASE s \in Applied(rows[key].file, c)
    BY <2>5 DEF Applied, AcceptedBefore
  <2> QED
    BY <2>4, <2>5
<1> QED
  BY <1>1, SoundInvariance, PTL

-------------------------------------------------------------------------------
(* One trainer: what becomes of voided results.                              *)

\* The sample is of a matchweek up to k, and its result was not void at c.
Rests(s, k, c) ==
  /\ WeekOf[s.match] <= k
  /\ \E r \in results : r.match = s.match /\ r.at = s.at /\ (r.voided = 0 \/ r.voided > c)

RowsLearned ==
  \A key \in Published :
    /\ rows[key].cutoff <= clock
    /\ \A s \in rows[key].file.trained : Rests(s, key[1], rows[key].cutoff)

JobsLearned ==
  \A t \in Trainer : pc[t] # "idle" =>
    /\ job[t].cutoff <= clock
    /\ \A s \in job[t].trained : Rests(s, job[t].week, job[t].cutoff)

\* A later change of the football voids later than any cutoff there is.
LEMMA RestsKept ==
  ASSUME TypeOK, NEW change \in [Match -> Outcome], Ingest(change)
  PROVE  \A k, s : \A c \in Nat : c <= clock /\ Rests(s, k, c) => Rests(s, k, c)'
<1> SUFFICES ASSUME NEW k, NEW s, NEW c \in Nat, c <= clock, Rests(s, k, c)
             PROVE  Rests(s, k, c)'
  OBVIOUS
<1>1. PICK r \in results : r.match = s.match /\ r.at = s.at /\ (r.voided = 0 \/ r.voided > c)
  BY DEF Rests
<1>2. r \in [match : Match, at : 1..clock, voided : 0..clock] /\ clock \in Nat
  BY SeasonAssumption DEF TypeOK
<1> DEFINE void == [r EXCEPT !.voided = clock + 1]
<1>3. r \in results' \/ void \in results'
  BY DEF Ingest
<1>4. void.match = r.match /\ void.at = r.at /\ void.voided = clock + 1
  BY <1>2
<1> HIDE DEF void
<1>5. \E q \in results' : q.match = s.match /\ q.at = s.at /\ (q.voided = 0 \/ q.voided > c)
  <2>1. CASE r \in results'
    BY <1>1, <2>1
  <2>2. CASE void \in results'
    <3>1. void.voided > c
      BY <1>2, <1>4
    <3> QED
      BY <1>1, <1>4, <2>2, <3>1
  <2> QED
    BY <1>3, <2>1, <2>2
<1> QED
  BY <1>5 DEF Rests

LEMMA LearnedIngest ==
  ASSUME Sound, RowsLearned, JobsLearned, NEW change \in [Match -> Outcome], Ingest(change)
  PROVE  RowsLearned' /\ JobsLearned'
<1>1. TypeOK /\ UNCHANGED <<rows, pc, job>> /\ clock' = clock + 1 /\ clock \in Nat
  BY SeasonAssumption DEF Sound, TypeOK, Ingest, registry, trainers
<1>2. \A k, s : \A c \in Nat : c <= clock /\ Rests(s, k, c) => Rests(s, k, c)'
  BY <1>1, RestsKept
<1>3. \A key \in Published : rows[key].cutoff \in Nat
  BY <1>1 DEF TypeOK, Published, Row
<1>4. \A t \in Trainer : job[t].cutoff \in Nat
  BY <1>1 DEF TypeOK, Artifact
<1>5. RowsLearned'
  <2> SUFFICES ASSUME NEW key \in Published
               PROVE  /\ rows[key].cutoff <= clock + 1
                      /\ \A s \in rows[key].file.trained : Rests(s, key[1], rows[key].cutoff)'
    BY <1>1 DEF RowsLearned, Published
  <2> QED
    BY <1>1, <1>2, <1>3 DEF RowsLearned
<1>6. JobsLearned'
  <2> SUFFICES ASSUME NEW t \in Trainer, pc[t] # "idle"
               PROVE  /\ job[t].cutoff <= clock + 1
                      /\ \A s \in job[t].trained : Rests(s, job[t].week, job[t].cutoff)'
    BY <1>1 DEF JobsLearned
  <2> QED
    BY <1>1, <1>2, <1>4 DEF JobsLearned
<1> QED
  BY <1>5, <1>6

LEMMA LearnedReadCutoff ==
  ASSUME OneTrainer, Sound, NEW t \in Trainer, ReadCutoff(t)
  PROVE  JobsLearned'
<1>0. PICK k \in Week : \E r \in Revisions(k) \cup {0}, c \in ChangeTimes(k) :
        job' = [job EXCEPT ![t] =
                 [week |-> k, revision |-> NextRevision(r), cutoff |-> c, trained |-> {}]]
  BY DEF ReadCutoff
<1>1. PICK r \in Revisions(k) \cup {0}, c \in ChangeTimes(k) :
        job' = [job EXCEPT ![t] =
                 [week |-> k, revision |-> NextRevision(r), cutoff |-> c, trained |-> {}]]
  BY <1>0
<1>2. clock' = clock /\ job'[t].cutoff = c /\ job'[t].trained = {} /\ \A u \in Trainer : u = t
  BY <1>1 DEF ReadCutoff, football, Sound, TypeOK, OneTrainer
<1>3. c <= clock
  BY SeasonAssumption DEF ChangeTimes, Sound, TypeOK
<1> QED
  BY <1>2, <1>3 DEF JobsLearned

LEMMA LearnedReadTrainingSet ==
  ASSUME OneTrainer, Sound, JobsLearned, NEW t \in Trainer, ReadTrainingSet(t)
  PROVE  JobsLearned'
<1> DEFINE S == TrainingSet(job[t].week, job[t].cutoff)
<1>1. \A s \in S : Rests(s, job[t].week, job[t].cutoff)
  BY DEF TrainingSet, Known, Standing, Rests
<1>2. /\ job' = [job EXCEPT ![t].trained = S]
      /\ pc[t] = "cutoff" /\ UNCHANGED <<results, clock>> /\ \A u \in Trainer : u = t
  BY DEF ReadTrainingSet, football, Sound, TypeOK, OneTrainer
<1> HIDE DEF S
<1>3. job'[t].trained = S /\ job'[t].cutoff = job[t].cutoff /\ job'[t].week = job[t].week
  BY <1>2 DEF Sound, TypeOK
<1>4. job[t].cutoff <= clock
  BY <1>2 DEF JobsLearned
<1> QED
  BY <1>1, <1>2, <1>3, <1>4 DEF JobsLearned, Rests

LEMMA LearnedActivate ==
  ASSUME OneTrainer, Sound, RowsLearned, JobsLearned, NEW t \in Trainer, Activate(t)
  PROVE  RowsLearned' /\ JobsLearned'
<1>1. /\ Key(t)[1] = job[t].week /\ pc'[t] = "idle" /\ pc[t] = "write"
      /\ UNCHANGED <<results, clock>> /\ \A u \in Trainer : u = t
  BY DEF Key, Sound, TypeOK, Activate, Goto, football, OneTrainer
<1>2. Activated(t)
  BY ActivatedRows
<1>3. /\ job[t].cutoff <= clock
      /\ \A s \in job[t].trained : Rests(s, job[t].week, job[t].cutoff)
  BY <1>1 DEF JobsLearned
<1>4. \A s, k, c : Rests(s, k, c)' <=> Rests(s, k, c)
  BY <1>1 DEF Rests
<1> HIDE DEF Key
<1>5. ASSUME NEW key \in Published'
      PROVE  /\ rows'[key].cutoff <= clock
             /\ \A s \in rows'[key].file.trained : Rests(s, key[1], rows'[key].cutoff)
  <2>1. CASE key = Key(t)
    BY <1>1, <1>2, <1>3, <2>1 DEF Activated
  <2>2. CASE key # Key(t)
    <3>1. /\ key \in Published /\ rows'[key].file = rows[key].file
          /\ rows'[key].cutoff = rows[key].cutoff
      BY <1>2, <1>5, <2>2 DEF Activated, Published
    <3> QED
      BY <3>1 DEF RowsLearned
  <2> QED
    BY <2>1, <2>2
<1>6. RowsLearned'
  BY <1>1, <1>4, <1>5 DEF RowsLearned
<1>7. JobsLearned'
  BY <1>1 DEF JobsLearned
<1> QED
  BY <1>6, <1>7

\* A step that leaves the football and the published rows alone.
LEMMA LearnedQuiet ==
  ASSUME RowsLearned, Quiet, UNCHANGED <<results, clock>>
  PROVE  RowsLearned'
BY DEF RowsLearned, Quiet, Rests

LEMMA LearnedStep ==
  ASSUME OneTrainer, Sound, RowsLearned, JobsLearned, [Next]_vars
  PROVE  RowsLearned' /\ JobsLearned'
<1>1. CASE \E change \in [Match -> Outcome] : Ingest(change)
  BY <1>1, LearnedIngest
<1>2. CASE Initialize \/ UNCHANGED vars
  <2>1. UNCHANGED <<results, clock, rows, pc, job>>
    BY <1>2 DEF Initialize, vars, football, registry, trainers
  <2> QED
    BY <2>1 DEF RowsLearned, JobsLearned, Published, Rests
<1>3. ASSUME NEW t \in Trainer, Train(t) PROVE RowsLearned' /\ JobsLearned'
  <2>1. CASE ReadCutoff(t) \/ ReadTrainingSet(t)
    <3>1. UNCHANGED <<results, clock, rows>>
      BY <2>1 DEF ReadCutoff, ReadTrainingSet, football, registry
    <3>2. RowsLearned'
      BY <3>1 DEF RowsLearned, Published, Rests
    <3> QED
      BY <2>1, <3>2, LearnedReadCutoff, LearnedReadTrainingSet
  <2>2. CASE Register(t)
    <3>1. /\ UNCHANGED <<results, clock, job>> /\ pc[t] = "fit"
          /\ \A u \in Trainer : u = t
      BY <2>2 DEF Register, football, OneTrainer
    <3>2. JobsLearned'
      BY <3>1 DEF JobsLearned, Rests
    <3> QED
      BY <2>2, <3>1, <3>2, QuietRegister, LearnedQuiet
  <2>3. CASE FailWrite(t)
    <3>1. UNCHANGED <<results, clock>> /\ pc'[t] = "idle" /\ \A u \in Trainer : u = t
      BY <2>3 DEF FailWrite, football, Goto, Sound, TypeOK, OneTrainer
    <3>2. JobsLearned'
      BY <3>1 DEF JobsLearned
    <3> QED
      BY <2>3, <3>1, <3>2, QuietFailWrite, LearnedQuiet
  <2>4. CASE Activate(t)
    BY <2>4, LearnedActivate
  <2>5. CASE Abandon(t)
    <3>1. /\ UNCHANGED <<results, clock, rows>> /\ pc'[t] = "idle"
          /\ \A u \in Trainer : u = t
      BY <2>5 DEF Abandon, football, registry, Goto, Sound, TypeOK, OneTrainer
    <3> QED
      BY <3>1 DEF JobsLearned, RowsLearned, Published, Rests
  <2> QED
    BY <1>3, <2>1, <2>2, <2>3, <2>4, <2>5 DEF Train
<1> QED
  BY <1>1, <1>2, <1>3 DEF Next

LEMMA LearnedForgets == Sound /\ RowsLearned => VoidedForgotten
<1> SUFFICES ASSUME Sound, RowsLearned, CaughtUp, NEW key \in Selectable(clock + 1),
                    NEW s \in rows[key].file.trained
             PROVE  \E r \in Standing(s.match) : r.at = s.at
  BY DEF VoidedForgotten
<1>1. clock \in Nat /\ key \in Published /\ key \in Week \X (Nat \ {0})
  BY SeasonAssumption DEF Sound, TypeOK, Selectable, Candidates, Published
<1> DEFINE k == key[1]
           c == rows[key].cutoff
<1>2. k \in Week /\ c \in Nat
  BY <1>1 DEF Sound, TypeOK, Published, Row
<1>3. PICK r \in results : /\ r.match = s.match /\ r.at = s.at /\ WeekOf[s.match] <= k
                           /\ r.voided = 0 \/ r.voided > c
  BY <1>1 DEF RowsLearned, Rests
<1>4. CASE r.voided = 0
  BY <1>3, <1>4 DEF Standing
<1>5. CASE r.voided # 0
  <2>1. PICK n \in Revisions(k) : \A d \in ChangeTimes(k) : d <= rows[<<k, n>>].cutoff
    BY <1>2 DEF CaughtUp, Stops, UpToDate
  <2>2. <<k, n>> \in Published
    <3>1. PICK q \in DOMAIN rows : q[1] = k /\ rows[q].status = "succeeded" /\ n = q[2]
      BY <2>1 DEF Revisions
    <3>2. q \in Week \X (Nat \ {0})
      BY <3>1 DEF Sound, TypeOK
    <3>3. q = <<k, n>>
      BY <3>1, <3>2
    <3> QED
      BY <3>1, <3>3 DEF Published
  <2> DEFINE e == rows[<<k, n>>].cutoff
  <2>3. r.voided \in ChangeTimes(k)
    BY <1>3, <1>5 DEF ChangeTimes
  <2>4. r.voided <= e
    BY <2>1, <2>3
  <2>5. e \in Nat /\ e <= clock /\ r.voided \in Nat
    BY <1>1, <2>2 DEF RowsLearned, Sound, TypeOK, Published, Row
  <2>6. <<k, n>> \in Candidates(clock + 1)
    BY <1>1, <2>2, <2>5 DEF Candidates, Published
  <2>7. e > c
    BY <1>2, <1>3, <1>5, <2>4, <2>5
  <2>8. Better(<<k, n>>, key)
    BY <2>7 DEF Better
  <2> QED
    BY <2>6, <2>8 DEF Selectable
<1> QED
  BY <1>4, <1>5

\* Once the training has caught up, no forecast rests on a voided result
\* (next_training_cutoff counts the time of a void as a change), for every
\* season and any interleaving, as long as one process trains at a time.
THEOREM VoidedNotUsed ==
  ASSUME OneTrainer
  PROVE  Spec => []VoidedForgotten
<1>1. Init => RowsLearned /\ JobsLearned
  BY DEF Init, RowsLearned, JobsLearned, Published
<1>2. Sound /\ RowsLearned /\ JobsLearned /\ [Next]_vars => RowsLearned' /\ JobsLearned'
  BY LearnedStep
<1>3. Sound /\ RowsLearned => VoidedForgotten
  BY LearnedForgets
<1> QED
  BY <1>1, <1>2, <1>3, SoundInvariance, PTL DEF Spec

-------------------------------------------------------------------------------
(* The registry of one trainer implements ArtifactCatalog.                   *)

catalog == {rows[key].file : key \in {q \in DOMAIN rows : rows[q].status = "succeeded"}}
current == IF \E key \in Active : TRUE THEN rows[CHOOSE key \in Active : TRUE].file ELSE Baseline

LEMMA QuietCatalog ==
  ASSUME Quiet
  PROVE  UNCHANGED <<catalog, current>>
<1>1. catalog = {rows[key].file : key \in Published} /\ catalog' = {rows'[key].file : key \in Published'}
  BY DEF catalog, Published
<1>2. catalog' = catalog
  BY <1>1 DEF Quiet
<1>3. Active = {key \in Published : rows[key].active} /\ Active' = {key \in Published' : rows'[key].active}
  BY DEF Active, Published
<1>4. Active' = Active /\ \A key \in Active : rows'[key] = rows[key]
  BY <1>3 DEF Quiet
<1>5. current' = current
  <2>1. CASE \E key \in Active : TRUE
    <3>1. (CHOOSE key \in Active : TRUE) \in Active
      BY <2>1
    <3> QED
      BY <1>4, <2>1, <3>1 DEF current
  <2>2. CASE ~\E key \in Active : TRUE
    BY <1>4, <2>2 DEF current
  <2> QED
    BY <2>1, <2>2
<1> QED
  BY <1>2, <1>5

LEMMA ActivatePublishes ==
  ASSUME Sound, NEW t \in Trainer, Activate(t)
  PROVE  Catalog!CatalogNext
<1> DEFINE a == job[t]
<1>0. Activated(t)
  BY ActivatedRows
<1>1. Key(t) = <<a.week, a.revision>> /\ \A key \in Published : rows[key].file \in catalog
  BY DEF catalog, Published
<1> HIDE DEF Key
<1>2. ASSUME NEW b \in catalog PROVE <<b.week, b.revision>> # <<a.week, a.revision>>
  <2>1. PICK key \in Published : b = rows[key].file
    BY DEF catalog, Published
  <2>2. <<b.week, b.revision>> = key
    BY <2>1 DEF Published, Sound, RowsSound
  <2>3. Key(t) \notin Published
    BY <1>0 DEF Activated
  <2> QED
    BY <1>1, <2>2, <2>3
<1>3. catalog' = catalog \cup {a}
  <2>1. \A key \in DOMAIN rows : key # Key(t) => rows'[key].file = rows[key].file
                                    /\ rows'[key].status = rows[key].status
    BY <1>0 DEF Activated
  <2>2. Published' = Published \cup {Key(t)}
    BY <2>1, <1>0 DEF Published, Activated
  <2>3. catalog = {rows[key].file : key \in Published} /\ catalog' = {rows'[key].file : key \in Published'}
    BY DEF catalog, Published
  <2>4. \A key \in Published : rows'[key].file = rows[key].file
    BY <2>1, <1>0 DEF Published, Activated
  <2>5. rows'[Key(t)].file = a
    BY <1>0 DEF Activated
  <2> HIDE DEF a
  <2> QED
    BY <2>2, <2>3, <2>4, <2>5
<1>4. current' = a
  <2>1. Active' = {Key(t)}
    BY <1>0 DEF Active, Activated
  <2>2. (CHOOSE key \in Active' : TRUE) = Key(t)
    BY <2>1
  <2> QED
    BY <2>1, <2>2, <1>0 DEF current, Activated
<1>5. a \in catalog' \ catalog
  BY <1>2, <1>3
<1> QED
  BY <1>2, <1>3, <1>4, <1>5 DEF Catalog!CatalogNext, Catalog!Publish, catalog, current

\* One trainer's registry implements ArtifactCatalog: published artifacts are
\* never changed or withdrawn, no revision is published twice, and one published
\* artifact is always the current one ("immutable replacement revisions").
THEOREM ImplementsCatalog ==
  ASSUME OneTrainer
  PROVE  Spec => CatalogSpec
<1>1. Init => Catalog!CatalogInit
  <2> SUFFICES ASSUME Init PROVE Catalog!CatalogInit
    OBVIOUS
  <2>1. DOMAIN rows = {}
    BY DEF Init
  <2>2. catalog = {} /\ current = Baseline
    BY <2>1 DEF catalog, current, Active
  <2> QED
    BY <2>2 DEF Catalog!CatalogInit, catalog, current
<1>2. Sound /\ [Next]_vars => [Catalog!CatalogNext]_(Catalog!catalogVars)
  <2> SUFFICES ASSUME Sound, [Next]_vars PROVE [Catalog!CatalogNext]_(Catalog!catalogVars)
    OBVIOUS
  <2>1. CASE Quiet
    BY <2>1, QuietCatalog DEF Catalog!catalogVars, catalog, current
  <2>2. CASE \E t \in Trainer : Activate(t)
    BY <2>2, ActivatePublishes
  <2> QED
    BY <2>1, <2>2, RegistryStep
<1> QED
  BY <1>1, <1>2, SoundInvariance, PTL DEF Spec, CatalogSpec, Catalog!CatalogSpec

-----------------------------------------------------------------------------
(* The expected lineup *)

LEMMA BeatsOrders ==
    ASSUME NEW score \in [WalkPlayers -> Nat], NEW p \in WalkPlayers,
           NEW q \in WalkPlayers, NEW r \in WalkPlayers
    PROVE  /\ ~Beats(score, p, p)
           /\ Beats(score, p, q) /\ Beats(score, q, r) => Beats(score, p, r)
           /\ p # q => Beats(score, p, q) \/ Beats(score, q, p)
           /\ score[p] > score[q] => ~Beats(score, q, p)
<1>1. p \in Int /\ q \in Int /\ r \in Int
  BY PlayerWalkAssumption
<1>2. score[p] \in Int /\ score[q] \in Int /\ score[r] \in Int
  OBVIOUS
<1> QED BY <1>1, <1>2 DEF Beats

\* The n best beat the others, and there are no more than n of them.
LEMMA BestBeats ==
    ASSUME NEW S \in SUBSET WalkPlayers, NEW n \in Int, NEW score \in [WalkPlayers -> Nat]
    PROVE  /\ Best(S, n, score) \in SUBSET S
           /\ \A p \in Best(S, n, score), q \in S \ Best(S, n, score) : Beats(score, p, q)
           /\ n \in Nat => Cardinality(Best(S, n, score)) <= n
<1> DEFINE above == [p \in S |-> {q \in S : Beats(score, q, p)}]
           B == Best(S, n, score)
<1>1. IsFiniteSet(S)
  BY PlayerWalkAssumption, FS_Subset
<1>2. B = {p \in S : Cardinality(above[p]) < n}
  BY DEF Best
<1>3. /\ above \in [S -> SUBSET S]
      /\ \A p, q \in S : q \in above[p] <=> Beats(score, q, p)
  OBVIOUS
<1> HIDE DEF above, B
<1>4. \A p \in S : p \notin above[p]
  BY <1>3, BeatsOrders
<1>5. \A p, q \in S : p \in above[q] => above[p] \subseteq above[q]
  <2> SUFFICES ASSUME NEW p \in S, NEW q \in S, p \in above[q], NEW r \in above[p]
               PROVE  r \in above[q]
    OBVIOUS
  <2>1. r \in S
    BY <1>3
  <2> QED BY <1>3, <2>1, BeatsOrders
<1>6. \A p \in S : Cardinality(above[p]) \in Nat
  <2> SUFFICES ASSUME NEW p \in S PROVE Cardinality(above[p]) \in Nat
    OBVIOUS
  <2>1. above[p] \in SUBSET S
    BY <1>3
  <2> QED BY <1>1, <2>1, FS_Subset, FS_CardinalityType
<1>7. ASSUME NEW p \in S, NEW q \in S, p \in above[q]
      PROVE  Cardinality(above[p]) < Cardinality(above[q])
  BY <1>1, <1>3, <1>4, <1>5, <1>7, Ranks
<1>8. ASSUME NEW p \in B, NEW q \in S \ B PROVE Beats(score, p, q)
  <2> SUFFICES ASSUME ~Beats(score, p, q) PROVE FALSE
    OBVIOUS
  <2>1. p \in S /\ p # q
    BY <1>2
  <2>2. Beats(score, q, p)
    BY <2>1, BeatsOrders
  <2>3. Cardinality(above[q]) < Cardinality(above[p])
    BY <1>3, <1>7, <2>1, <2>2
  <2>4. Cardinality(above[p]) < n /\ ~(Cardinality(above[q]) < n)
    BY <1>2, <1>8
  <2> QED BY <1>6, <2>1, <2>3, <2>4
<1>9. ASSUME n \in Nat PROVE Cardinality(B) <= n
  <2> DEFINE rank == [p \in B |-> Cardinality(above[p])]
  <2>1. \A p \in B : p \in S /\ Cardinality(above[p]) \in 0..(n - 1)
    BY <1>2, <1>6, <1>9
  <2>2. rank \in [B -> 0..(n - 1)]
    BY <2>1
  <2>3. \A p, q \in B : rank[p] = rank[q] => p = q
    <3> SUFFICES ASSUME NEW p \in B, NEW q \in B, p # q, rank[p] = rank[q] PROVE FALSE
      OBVIOUS
    <3>1. p \in S /\ q \in S /\ Cardinality(above[p]) = Cardinality(above[q])
      BY <2>1
    <3>2. p \in above[q] \/ q \in above[p]
      BY <1>3, <3>1, BeatsOrders
    <3> QED BY <1>6, <1>7, <3>1, <3>2
  <2> HIDE DEF rank
  <2>4. rank \in Injection(B, 0..(n - 1))
    BY <2>2, <2>3 DEF Injection, IsInjective
  <2>5. IsFiniteSet(0..(n - 1)) /\ Cardinality(0..(n - 1)) = n
    <3>1. 0 \in Int /\ n - 1 \in Int
      BY <1>9
    <3> QED BY <1>9, <3>1, FS_Interval
  <2>6. Cardinality(B) <= Cardinality(0..(n - 1))
    BY <2>4, <2>5, FS_Injection
  <2> QED BY <2>5, <2>6
<1> QED BY <1>2, <1>8, <1>9 DEF B

\* A player without a score never takes the place of one with a score but in
\* the formation of his own position.
LEMMA LineupByScore ==
    ASSUME NEW S \in SUBSET WalkPlayers, NEW score \in [WalkPlayers -> Nat],
           NEW p \in SelectProfiles(S, score), NEW q \in S \ SelectProfiles(S, score),
           score[p] = 0, score[q] > 0
    PROVE  /\ PlayerPosition[p] # PlayerPosition[q]
           /\ Cardinality({x \in SelectProfiles(S, score) :
                             PlayerPosition[x] = PlayerPosition[p]})
                <= Formation[PlayerPosition[p]]
<1> DEFINE At(position) == {x \in S : PlayerPosition[x] = position}
           Chosen(position) == Best(At(position), Formation[position], score)
           placed == UNION {Chosen(position) : position \in DOMAIN Formation}
           rest == S \ placed
           more == Best(rest, LineupSize - Cardinality(placed), score)
           lineup == SelectProfiles(S, score)
<1>1. lineup = placed \cup more
  BY DEF SelectProfiles
<1>2. \A x \in S : PlayerPosition[x] \in DOMAIN Formation /\ x \in WalkPlayers
  BY PlayerWalkAssumption
<1>3. ASSUME NEW position \in DOMAIN Formation
      PROVE  /\ Chosen(position) \subseteq At(position)
             /\ \A x \in Chosen(position), y \in At(position) \ Chosen(position) :
                  Beats(score, x, y)
             /\ Cardinality(Chosen(position)) <= Formation[position]
  <2>1. Formation[position] \in Nat
    BY PlayerWalkAssumption
  <2>2. At(position) \in SUBSET WalkPlayers
    OBVIOUS
  <2> HIDE DEF At
  <2> QED BY <2>1, <2>2, BestBeats
<1>4. IsFiniteSet(placed) /\ placed \subseteq S
  <2>1. placed \subseteq S
    <3> SUFFICES ASSUME NEW position \in DOMAIN Formation, NEW x \in Chosen(position)
                 PROVE  x \in S
      OBVIOUS
    <3> QED BY <1>3
  <2> HIDE DEF placed
  <2> QED BY <2>1, PlayerWalkAssumption, FS_Subset
<1>5. /\ more \subseteq rest
      /\ \A x \in more, y \in rest \ more : Beats(score, x, y)
  <2>1. LineupSize - Cardinality(placed) \in Int
    BY <1>4, PlayerWalkAssumption, FS_CardinalityType
  <2>2. rest \in SUBSET WalkPlayers
    OBVIOUS
  <2> HIDE DEF placed, rest
  <2> QED BY <2>1, <2>2, BestBeats
<1>6. ASSUME NEW x \in S, NEW y \in S, Beats(score, x, y)
      PROVE  score[x] >= score[y] /\ score[x] \in Nat /\ score[y] \in Nat
  <2>1. score[x] \in Nat /\ score[y] \in Nat
    BY <1>2
  <2> QED BY <1>6, <2>1 DEF Beats
<1> HIDE DEF lineup
<1>7. p \in placed /\ q \in rest \ more
  <2>1. p \in lineup /\ q \in S /\ q \notin lineup
    BY DEF lineup
  <2>2. q \in rest \ more
    BY <1>1, <2>1
  <2>3. p \notin more
    <3> SUFFICES ASSUME p \in more PROVE FALSE
      OBVIOUS
    <3>1. Beats(score, p, q) /\ p \in S
      BY <1>5, <2>2
    <3> QED BY <1>6, <2>1, <3>1
  <2> QED BY <1>1, <2>1, <2>2, <2>3
<1>8. PICK position \in DOMAIN Formation : p \in Chosen(position)
  BY <1>7
<1>9. PlayerPosition[p] = position /\ p \in S
  BY <1>3, <1>8
<1>10. ASSUME NEW x \in S, x \notin Chosen(position), PlayerPosition[x] = position
       PROVE  score[x] = 0
  <2>1. Beats(score, p, x)
    BY <1>3, <1>8, <1>10
  <2> QED BY <1>6, <1>9, <1>10, <2>1
<1>11. PlayerPosition[q] # position
  <2> SUFFICES ASSUME PlayerPosition[q] = position PROVE FALSE
    OBVIOUS
  <2>1. q \in S /\ q \notin Chosen(position)
    <3>1. q \in S /\ q \notin placed
      BY <1>7
    <3> HIDE DEF Chosen
    <3> QED BY <1>8, <3>1
  <2>2. score[q] = 0
    BY <1>10, <2>1
  <2> QED BY <2>2
<1>12. ASSUME NEW x \in lineup, PlayerPosition[x] = position
       PROVE  x \in Chosen(position)
  <2> SUFFICES ASSUME x \notin Chosen(position) PROVE FALSE
    OBVIOUS
  <2>1. x \notin placed
    <3> SUFFICES ASSUME NEW other \in DOMAIN Formation, x \in Chosen(other) PROVE FALSE
      OBVIOUS
    <3>1. PlayerPosition[x] = other
      BY <1>3
    <3> QED BY <1>12, <3>1
  <2>2. x \in more /\ x \in S
    BY <1>1, <1>5, <2>1
  <2>3. Beats(score, x, q) /\ q \in S
    BY <1>5, <1>7, <2>2
  <2>4. score[x] = 0
    BY <1>10, <1>12, <2>2
  <2> QED BY <1>6, <2>2, <2>3, <2>4
<1> DEFINE same == {x \in lineup : PlayerPosition[x] = position}
<1>13. Cardinality(same) <= Formation[position]
  <2>1. same \in SUBSET Chosen(position)
    BY <1>12
  <2>2. IsFiniteSet(Chosen(position))
    <3>1. Chosen(position) \in SUBSET WalkPlayers
      BY <1>3
    <3> HIDE DEF Chosen
    <3> QED BY <3>1, PlayerWalkAssumption, FS_Subset
  <2>3. Cardinality(Chosen(position)) <= Formation[position] /\ Formation[position] \in Nat
    BY <1>3, PlayerWalkAssumption
  <2> HIDE DEF same, Chosen
  <2>4. Cardinality(same) <= Cardinality(Chosen(position))
        /\ Cardinality(same) \in Nat /\ Cardinality(Chosen(position)) \in Nat
    BY <2>1, <2>2, FS_Subset, FS_CardinalityType
  <2> QED BY <2>3, <2>4
<1>14. Cardinality({x \in lineup : PlayerPosition[x] = PlayerPosition[p]})
         <= Formation[PlayerPosition[p]]
  BY <1>9, <1>13
<1> QED BY <1>9, <1>11, <1>14 DEF lineup

-----------------------------------------------------------------------------
(* Observations in the order of their times *)

SoonerSets(S, time) == [x \in S |-> {y \in S : Sooner(time, y, x)}]

LEMMA SortedByTime ==
    ASSUME NEW S, IsFiniteSet(S), NEW time \in [S -> Int],
           \A x \in S : x.id \in Int, \A x, y \in S : x.id = y.id => x = y
    PROVE  /\ Lists(ByTime(S, time), S, SoonerSets(S, time))
           /\ \A x \in S : x \notin SoonerSets(S, time)[x]
<1> DEFINE below == SoonerSets(S, time)
<1>1. /\ below \in [S -> SUBSET S]
      /\ \A x, y \in S : y \in below[x] <=> Sooner(time, y, x)
  BY DEF SoonerSets
<1>2. ByTime(S, time) = InPlaces(S, below)
  BY DEF ByTime, SoonerSets
<1> HIDE DEF below
<1>3. ASSUME NEW x \in S, NEW y \in S, NEW z \in S
      PROVE  /\ ~Sooner(time, x, x)
             /\ Sooner(time, x, y) /\ Sooner(time, y, z) => Sooner(time, x, z)
             /\ x # y => Sooner(time, x, y) \/ Sooner(time, y, x)
  <2>1. time[x] \in Int /\ time[y] \in Int /\ time[z] \in Int
    OBVIOUS
  <2>2. x.id \in Int /\ y.id \in Int /\ z.id \in Int /\ (x # y => x.id # y.id)
    OBVIOUS
  <2> QED BY <2>1, <2>2 DEF Sooner
<1>4. \A x \in S : x \notin below[x]
  BY <1>1, <1>3
<1>5. \A x, y \in S : x \in below[y] => below[x] \subseteq below[y]
  <2> SUFFICES ASSUME NEW x \in S, NEW y \in S, x \in below[y], NEW z \in below[x]
               PROVE  z \in below[y]
    OBVIOUS
  <2>1. z \in S
    BY <1>1
  <2> QED BY <1>1, <1>3, <2>1
<1>6. \A x, y \in S : x # y => x \in below[y] \/ y \in below[x]
  BY <1>1, <1>3
<1>7. Lists(InPlaces(S, below), S, below)
  BY <1>1, <1>4, <1>5, <1>6, InPlacesLists
<1> QED BY <1>2, <1>4, <1>7 DEF below

\* An index stops at the first time that is not before the cutoff.
LEMMA AdvanceStops ==
    ASSUME NEW times, NEW n \in Nat, Len(times) = n, \A i \in 1..n : times[i] \in Int,
           NEW index \in 1..(n + 1), NEW cutoff \in Int
    PROVE  /\ Advance(times, index, cutoff) \in index..(n + 1)
           /\ \A i \in index..(Advance(times, index, cutoff) - 1) : times[i] < cutoff
           /\ Advance(times, index, cutoff) <= n
                => times[Advance(times, index, cutoff)] >= cutoff
<1> DEFINE open == {i \in index..n : times[i] >= cutoff}
           first == CHOOSE i \in open : \A j \in open : i <= j
           to == Advance(times, index, cutoff)
<1>1. to = IF open = {} THEN n + 1 ELSE first
  BY DEF Advance
<1>2. \A i \in index..n : i \in 1..n /\ times[i] \in Int
  OBVIOUS
<1>3. open # {} => first \in open /\ \A j \in open : first <= j
  <2>1. IsFiniteSet(index..n)
    BY FS_Interval
  <2>2. IsFiniteSet(open) /\ open \subseteq Int
    BY <2>1, FS_Subset
  <2> HIDE DEF open
  <2> QED BY <2>2, LeastAndGreatest
<1>4. CASE open = {}
  <2>1. to = n + 1 /\ \A i \in index..n : times[i] < cutoff
    BY <1>1, <1>2, <1>4
  <2> QED BY <2>1
<1>5. CASE open # {}
  <2> HIDE DEF first, to
  <2>1. to \in index..n /\ times[to] >= cutoff /\ \A j \in open : to <= j
    BY <1>1, <1>3, <1>5
  <2>2. ASSUME NEW i \in index..(to - 1) PROVE times[i] < cutoff
    <3>1. i \in index..n /\ i \notin open
      BY <2>1
    <3> QED BY <1>2, <3>1
  <2> QED BY <2>1, <2>2 DEF to
<1> QED BY <1>4, <1>5

\* The elements of an ordered list before an index that moved on to the cutoff are
\* those whose time is before the cutoff.
LEMMA AdvancePasses ==
    ASSUME NEW times, NEW n \in Nat, Len(times) = n, \A i \in 1..n : times[i] \in Int,
           \A i, j \in 1..n : i < j => times[i] <= times[j],
           NEW index \in 1..(n + 1), NEW cutoff \in Int,
           \A i \in 1..(index - 1) : times[i] < cutoff
    PROVE  \A i \in 1..n : i < Advance(times, index, cutoff) <=> times[i] < cutoff
<1> DEFINE to == Advance(times, index, cutoff)
<1>1. /\ to \in index..(n + 1)
      /\ \A i \in index..(to - 1) : times[i] < cutoff
      /\ to <= n => times[to] >= cutoff
  BY AdvanceStops
<1> HIDE DEF to
<1>2. ASSUME NEW i \in 1..n PROVE i < to <=> times[i] < cutoff
  <2>1. CASE i < index
    BY <1>1, <2>1
  <2>2. CASE index <= i /\ i < to
    BY <1>1, <2>2
  <2>3. CASE to <= i
    <3>1. to \in 1..n /\ times[to] \in Int /\ times[i] \in Int
      BY <1>1, <2>3
    <3>2. times[to] <= times[i]
      BY <2>3, <3>1
    <3> QED BY <1>1, <2>3, <3>1, <3>2
  <2> QED BY <1>1, <2>1, <2>2, <2>3
<1> QED BY <1>2 DEF to

\* What an index passes on its way is appended in the order of the list.
LEMMA GrownList ==
    ASSUME NEW q, NEW S, NEW below, Lists(q, S, below),
           NEW a \in 1..(Len(q) + 1), NEW b \in a..(Len(q) + 1), NEW I \in SUBSET (1..Len(q)),
           NEW h, Lists(h, {q[i] : i \in {j \in I : j < a}}, below)
    PROVE  Lists(h \o Picked(q, {i \in I : a <= i /\ i < b}),
                 {q[i] : i \in {j \in I : j < b}}, below)
<1> DEFINE J == {i \in I : a <= i /\ i < b}
           old == {q[i] : i \in {j \in I : j < a}}
           passed == {q[i] : i \in J}
           grown == {q[i] : i \in {j \in I : j < b}}
           part == Picked(q, J)
<1>1. Len(q) \in Nat /\ \A i, j \in 1..Len(q) : i < j => q[i] \in below[q[j]]
  BY DEF Lists
<1>2. \A i \in I : i \in 1..Len(q) /\ i \in Int
  BY <1>1
<1>3. Lists(part, passed, below)
  <2>1. J \in SUBSET (1..Len(q))
    OBVIOUS
  <2> HIDE DEF J
  <2> QED BY <2>1, PickedLists
<1>4. ASSUME NEW x \in old, NEW y \in passed PROVE x \in below[y]
  <2>1. PICK i \in I, j \in I : x = q[i] /\ i < a /\ y = q[j] /\ a <= j
    OBVIOUS
  <2>2. i < j
    BY <1>1, <1>2, <2>1
  <2> QED BY <1>1, <1>2, <2>1, <2>2
<1>5. Lists(h \o part, old \cup passed, below)
  <2>1. Lists(h, old, below)
    OBVIOUS
  <2> HIDE DEF old, passed, part
  <2> QED BY <1>3, <1>4, <2>1, JoinedLists
<1>6. grown = old \cup passed
  <2>1. \A i \in I : i < b <=> (i < a \/ (a <= i /\ i < b))
    BY <1>1, <1>2
  <2> QED BY <2>1
<1> QED BY <1>5, <1>6

-----------------------------------------------------------------------------
(* The lists of the two passes *)

\* q lists S by these times, which the walk reads as a list of their own.
Chronicle(q, S, time, times) ==
    /\ Len(q) \in Nat /\ Len(times) = Len(q)
    /\ Lists(q, S, SoonerSets(S, time))
    /\ \A x \in S : x \notin SoonerSets(S, time)[x]
    /\ \A i \in 1..Len(q) : q[i] \in S /\ times[i] = time[q[i]] /\ times[i] \in Int
    /\ \A i, j \in 1..Len(q) : i < j => times[i] <= times[j]

LEMMA FiniteImage ==
    ASSUME NEW S, IsFiniteSet(S), NEW f, DOMAIN f = S
    PROVE  IsFiniteSet({f[x] : x \in S})
<1> DEFINE T == {f[x] : x \in S}
           image == [x \in S |-> f[x]]
<1>1. image \in Surjection(S, T)
  BY DEF Surjection
<1> HIDE DEF T, image
<1>2. IsFiniteSet(T)
  BY <1>1, FS_Surjection
<1> QED BY <1>2 DEF T

LEMMA Chronicles ==
    ASSUME NEW S, IsFiniteSet(S), NEW time \in [S -> Int],
           \A x \in S : x.id \in Int, \A x, y \in S : x.id = y.id => x = y,
           NEW q, q = ByTime(S, time),
           NEW times, times = [i \in 1..Len(q) |-> time[q[i]]]
    PROVE  Chronicle(q, S, time, times)
<1> DEFINE below == SoonerSets(S, time)
           n == Len(q)
<1>1. Lists(q, S, below) /\ \A x \in S : x \notin below[x]
  BY SortedByTime
<1>2. /\ n \in Nat /\ \A i \in 1..n : q[i] \in S
      /\ \A i, j \in 1..n : i < j => q[i] \in below[q[j]]
  BY <1>1 DEF Lists
<1>3. \A x, y \in S : x \in below[y] => time[x] <= time[y]
  <2> SUFFICES ASSUME NEW x \in S, NEW y \in S, x \in below[y] PROVE time[x] <= time[y]
    OBVIOUS
  <2>1. Sooner(time, x, y)
    BY DEF SoonerSets
  <2>2. time[x] \in Int /\ time[y] \in Int
    OBVIOUS
  <2> QED BY <2>1, <2>2 DEF Sooner
<1> HIDE DEF below, n
<1>4. Len(times) = n /\ \A i \in 1..n : times[i] = time[q[i]]
  <2>1. times = [i \in 1..n |-> time[q[i]]]
    BY DEF n
  <2>2. times \in Seq(Int)
    BY <1>2, <2>1, SeqDef
  <2> QED BY <1>2, <2>1, <2>2, LenProperties
<1>5. \A i \in 1..n : times[i] \in Int
  BY <1>2, <1>4
<1>6. \A i, j \in 1..n : i < j => times[i] <= times[j]
  BY <1>2, <1>3, <1>4
<1> QED BY <1>1, <1>2, <1>4, <1>5, <1>6 DEF Chronicle, below, n

LEMMA PerformancesChronicled ==
    ASSUME pwContext \in Contexts
    PROVE  Chronicle(Performances, pwContext.performances,
                     Available(pwContext.performances), AvailableTimes(Performances))
<1> DEFINE S == pwContext.performances
           time == Available(S)
           q == Performances
<1>1. S \subseteq PlayerPerformance /\ IsFiniteSet(S) /\ \A x, y \in S : x.id = y.id => x = y
  BY ContextAssumption DEF Observations
<1>2. \A x \in S : x.available \in Int /\ x.id \in Int
  BY <1>1 DEF PlayerPerformance
<1>3. time \in [S -> Int] /\ \A x \in S : time[x] = x.available
  BY <1>2 DEF Available
<1>4. q = ByTime(S, time)
  BY DEF Performances
<1> HIDE DEF S, time, q
<1>5. Lists(q, S, SoonerSets(S, time))
  BY <1>1, <1>2, <1>3, <1>4, SortedByTime
<1>6. AvailableTimes(q) = [i \in 1..Len(q) |-> time[q[i]]]
  BY <1>3, <1>5 DEF AvailableTimes, Lists
<1>7. Chronicle(q, S, time, AvailableTimes(q))
  BY <1>1, <1>2, <1>3, <1>4, <1>6, Chronicles
<1> QED BY <1>7 DEF S, time, q

LEMMA TransfersChronicled ==
    ASSUME pwContext \in Contexts
    PROVE  Chronicle(Transfers, pwContext.transfers,
                     Observed(pwContext.transfers), ObservedTimes(Transfers))
<1> DEFINE S == pwContext.transfers
           time == Observed(S)
           q == Transfers
<1>1. S \subseteq TransferObservation /\ IsFiniteSet(S) /\ \A x, y \in S : x.id = y.id => x = y
  BY ContextAssumption DEF Observations
<1>2. \A x \in S : x.observed \in Int /\ x.id \in Int
  BY <1>1 DEF TransferObservation
<1>3. time \in [S -> Int] /\ \A x \in S : time[x] = x.observed
  BY <1>2 DEF Observed
<1>4. q = ByTime(S, time)
  BY DEF Transfers
<1> HIDE DEF S, time, q
<1>5. Lists(q, S, SoonerSets(S, time))
  BY <1>1, <1>2, <1>3, <1>4, SortedByTime
<1>6. ObservedTimes(q) = [i \in 1..Len(q) |-> time[q[i]]]
  BY <1>3, <1>5 DEF ObservedTimes, Lists
<1>7. Chronicle(q, S, time, ObservedTimes(q))
  BY <1>1, <1>2, <1>3, <1>4, <1>6, Chronicles
<1> QED BY <1>7 DEF S, time, q

LEMMA StylesChronicled ==
    ASSUME pwContext \in Contexts
    PROVE  Chronicle(Styles, pwContext.styles,
                     Available(pwContext.styles), AvailableTimes(Styles))
<1> DEFINE S == pwContext.styles
           time == Available(S)
           q == Styles
<1>1. S \subseteq StyleObservation /\ IsFiniteSet(S) /\ \A x, y \in S : x.id = y.id => x = y
  BY ContextAssumption DEF Observations
<1>2. \A x \in S : x.available \in Int /\ x.id \in Int
  BY <1>1 DEF StyleObservation
<1>3. time \in [S -> Int] /\ \A x \in S : time[x] = x.available
  BY <1>2 DEF Available
<1>4. q = ByTime(S, time)
  BY DEF Styles
<1> HIDE DEF S, time, q
<1>5. Lists(q, S, SoonerSets(S, time))
  BY <1>1, <1>2, <1>3, <1>4, SortedByTime
<1>6. AvailableTimes(q) = [i \in 1..Len(q) |-> time[q[i]]]
  BY <1>3, <1>5 DEF AvailableTimes, Lists
<1>7. Chronicle(q, S, time, AvailableTimes(q))
  BY <1>1, <1>2, <1>3, <1>4, <1>6, Chronicles
<1> QED BY <1>7 DEF S, time, q

\* A shape bears the identifier of a performance of its own lineup.
LEMMA ShapeOfLineup ==
    ASSUME pwContext \in Contexts, NEW g \in SUBSET pwContext.performances, g # {}
    PROVE  \E p \in g : /\ Shape(g).id = p.id /\ p.id \in Int
                        /\ Shape(g).available = p.available /\ p.available \in Int
                        /\ Shape(g) = [id |-> p.id, match |-> p.match, club |-> p.club,
                                       available |-> p.available]
<1> DEFINE last == CHOOSE p \in g : \A q \in g : q.available <= p.available
           times == {p.available : p \in g}
<1>1. pwContext.performances \subseteq PlayerPerformance /\ IsFiniteSet(pwContext.performances)
  BY ContextAssumption DEF Observations
<1>2. \A p \in g : p.available \in Int /\ p.id \in Int
  BY <1>1 DEF PlayerPerformance
<1>3. times \subseteq Int /\ IsFiniteSet(times) /\ times # {}
  <2>1. IsFiniteSet(g)
    BY <1>1, FS_Subset
  <2>2. IsFiniteSet(times)
    <3> DEFINE timeOf == [p \in g |-> p.available]
    <3>1. times = {timeOf[p] : p \in g} /\ DOMAIN timeOf = g
      OBVIOUS
    <3> HIDE DEF timeOf, times
    <3> QED BY <2>1, <3>1, FiniteImage
  <2> QED BY <1>2, <2>2
<1> HIDE DEF times
<1>4. PICK t \in times : \A u \in times : u <= t
  BY <1>3, LeastAndGreatest
<1>5. \E p \in g : \A q \in g : q.available <= p.available
  BY <1>4 DEF times
<1>6. last \in g
  BY <1>5
<1>7. Shape(g) = [id |-> last.id, match |-> last.match, club |-> last.club,
                  available |-> last.available]
  BY DEF Shape
<1> HIDE DEF last
<1> QED BY <1>2, <1>6, <1>7

LEMMA ShapesChronicled ==
    ASSUME pwContext \in Contexts
    PROVE  Chronicle(ObservedShapes, Shapes, Available(Shapes), AvailableTimes(ObservedShapes))
<1> DEFINE P == pwContext.performances
           lineups == {Starters(p.match, p.club) : p \in P}
           whole == {l \in lineups : WholeLineup(l)}
           S == Shapes
           time == Available(S)
           q == ObservedShapes
<1>1. S = {Shape(l) : l \in whole}
  BY DEF Shapes
<1>2. P \subseteq PlayerPerformance /\ IsFiniteSet(P) /\ \A x, y \in P : x.id = y.id => x = y
  BY ContextAssumption DEF Observations
<1>3. ASSUME NEW l \in whole
      PROVE  \E p \in l : /\ p \in P /\ l = Starters(p.match, p.club)
                          /\ Shape(l).id = p.id /\ p.id \in Int
                          /\ Shape(l).available \in Int
  <2>1. PICK x \in P : l = Starters(x.match, x.club)
    OBVIOUS
  <2>2. l \in SUBSET P /\ \A p \in l : p.match = x.match /\ p.club = x.club
    BY <2>1 DEF Starters
  <2>3. l # {}
    <3> SUFFICES ASSUME l = {} PROVE FALSE
      OBVIOUS
    <3>1. Cardinality(l) = 0
      BY FS_EmptySet
    <3> QED BY <3>1, PlayerWalkAssumption DEF WholeLineup
  <2>4. PICK p \in l : /\ Shape(l).id = p.id /\ p.id \in Int
                       /\ Shape(l).available = p.available /\ p.available \in Int
    <3> HIDE DEF whole
    <3> QED BY <2>2, <2>3, ShapeOfLineup
  <2> QED BY <2>1, <2>2, <2>4
<1>4. IsFiniteSet(S)
  <2>1. IsFiniteSet(lineups)
    <3> DEFINE lineupOf == [p \in P |-> Starters(p.match, p.club)]
    <3>1. lineups = {lineupOf[p] : p \in P} /\ DOMAIN lineupOf = P
      OBVIOUS
    <3> HIDE DEF lineupOf, lineups
    <3> QED BY <1>2, <3>1, FiniteImage
  <2>2. IsFiniteSet(whole)
    <3> HIDE DEF lineups
    <3> QED BY <2>1, FS_Subset
  <2> HIDE DEF whole, S
  <2>3. IsFiniteSet({Shape(l) : l \in whole})
    <3> DEFINE shapeOf == [l \in whole |-> Shape(l)]
    <3>1. {Shape(l) : l \in whole} = {shapeOf[l] : l \in whole} /\ DOMAIN shapeOf = whole
      OBVIOUS
    <3> HIDE DEF shapeOf
    <3> QED BY <2>2, <3>1, FiniteImage
  <2> QED BY <1>1, <2>3
<1> HIDE DEF P, whole, S
<1>5. \A x \in S : x.available \in Int /\ x.id \in Int
  BY <1>1, <1>3
<1>6. \A x, y \in S : x.id = y.id => x = y
  <2> SUFFICES ASSUME NEW l \in whole, NEW m \in whole, Shape(l).id = Shape(m).id
               PROVE  Shape(l) = Shape(m)
    BY <1>1
  <2>1. PICK p \in l : p \in P /\ l = Starters(p.match, p.club) /\ Shape(l).id = p.id
    BY <1>3
  <2>2. PICK r \in m : r \in P /\ m = Starters(r.match, r.club) /\ Shape(m).id = r.id
    BY <1>3
  <2>3. p = r
    BY <1>2, <2>1, <2>2
  <2> QED BY <2>1, <2>2, <2>3
<1>7. time \in [S -> Int] /\ \A x \in S : time[x] = x.available
  BY <1>5 DEF Available
<1>8. q = ByTime(S, time)
  BY DEF ObservedShapes, S
<1> HIDE DEF time, q
<1>9. Lists(q, S, SoonerSets(S, time))
  BY <1>4, <1>5, <1>6, <1>7, <1>8, SortedByTime
<1>10. AvailableTimes(q) = [i \in 1..Len(q) |-> time[q[i]]]
  BY <1>7, <1>9 DEF AvailableTimes, Lists
<1>11. Chronicle(q, S, time, AvailableTimes(q))
  BY <1>4, <1>5, <1>6, <1>7, <1>8, <1>10, Chronicles
<1> QED BY <1>11 DEF S, time, q

-----------------------------------------------------------------------------
(* The invariant of the two passes *)

\* everything before the index is older than the cutoff of every row to come
Behind(times, index) ==
    /\ index \in 1..(Len(times) + 1)
    /\ \A k \in pwPos..Len(pwContext.rows) : \A i \in 1..(index - 1) :
         times[i] < RowCutoff(pwContext.rows[k])

\* the performances of a player for a club among the first of the list
PassedFor(upTo, club, player) ==
    {Performances[i] : i \in {j \in {m \in 1..Len(Performances) :
        Performances[m].club = club /\ Performances[m].player = player} : j < upTo}}

HistoryKept(history, upTo) ==
    \A c \in WalkClubs, p \in WalkPlayers :
        Lists(history[c][p], PassedFor(upTo, c, p),
              SoonerSets(pwContext.performances, Available(pwContext.performances)))

LatestKept(latest, upTo) ==
    \A p \in WalkPlayers :
        latest[p] = NoTransfer \/ \E i \in 1..(upTo - 1) :
            latest[p] = Transfers[i] /\ Transfers[i].player = p

PlayerPassKept ==
    /\ Behind(AvailableTimes(Performances), pwPerformance)
    /\ Behind(ObservedTimes(Transfers), pwTransfer)
    /\ HistoryKept(pwHistory, pwPerformance)
    /\ LatestKept(pwLatest, pwTransfer)
    /\ pwStyle = 1 /\ pwShape = 1
    /\ Len(pwPlayerRows) = pwPos - 1 /\ pwTacticalRows = <<>>

TacticalPassKept ==
    /\ Behind(AvailableTimes(Styles), pwStyle)
    /\ Behind(AvailableTimes(ObservedShapes), pwShape)
    /\ Len(pwTacticalRows) = pwPos - 1

PassKept ==
    /\ pwContext \in Contexts
    /\ pwPass \in {"load", "player", "tactical", "done", "rejected"}
    /\ pwPos \in 1..(Len(pwContext.rows) + 1)
    /\ pwPlayerRows \in Seq(ToSet(pwPlayerRows))
    /\ pwTacticalRows \in Seq(ToSet(pwTacticalRows))

PlayerWalkInv ==
    /\ PassKept
    /\ (pwPass \in {"load", "player"} => PlayerPassKept)
    /\ (pwPass = "tactical" => TacticalPassKept)
    /\ RowsUseTheObservedPast
    /\ AbsenceRespected

LEMMA RowsInTime ==
    ASSUME pwContext \in Contexts
    PROVE  /\ Len(pwContext.rows) \in Nat
           /\ \A k \in 1..Len(pwContext.rows) :
                /\ pwContext.rows[k] \in ContextRow /\ RowCutoff(pwContext.rows[k]) \in Int
                /\ pwContext.rows[k].home \in WalkClubs /\ pwContext.rows[k].away \in WalkClubs
           /\ \A i, j \in 1..Len(pwContext.rows) :
                i < j => RowCutoff(pwContext.rows[i]) <= RowCutoff(pwContext.rows[j])
<1> DEFINE list == pwContext.rows
           n == Len(list)
<1>1. /\ list \in Seq(ContextRow)
      /\ \A i, j \in DOMAIN list : i < j => list[i].kickoff <= list[j].kickoff
  BY ContextAssumption
<1> HIDE DEF list
<1>2. n \in Nat /\ DOMAIN list = 1..n /\ \A k \in 1..n : list[k] \in ContextRow
  BY <1>1, LenProperties
<1>3. \A k \in 1..n : /\ list[k].home \in WalkClubs /\ list[k].away \in WalkClubs
                      /\ list[k].kickoff \in Int
  BY <1>2 DEF ContextRow
<1>4. LineupLead \in Int
  BY PlayerWalkAssumption
<1>5. \A k \in 1..n : RowCutoff(list[k]) = list[k].kickoff - LineupLead
  BY DEF RowCutoff
<1> HIDE DEF n
<1>6. \A i, j \in 1..n : i < j => RowCutoff(list[i]) <= RowCutoff(list[j])
  <2> SUFFICES ASSUME NEW i \in 1..n, NEW j \in 1..n, i < j
               PROVE  RowCutoff(list[i]) <= RowCutoff(list[j])
    OBVIOUS
  <2>1. /\ list[i].kickoff \in Int /\ list[j].kickoff \in Int
        /\ list[i].kickoff <= list[j].kickoff
    BY <1>1, <1>2, <1>3
  <2> QED BY <1>4, <1>5, <2>1
<1>7. \A k \in 1..n : RowCutoff(list[k]) \in Int
  BY <1>3, <1>4, <1>5
<1> QED BY <1>2, <1>3, <1>6, <1>7 DEF n, list

\* An index moved to the cutoff of a row is behind the list after it.
LEMMA MovedBehind ==
    ASSUME PassKept, pwPos \in 1..Len(pwContext.rows), NEW times, NEW n \in Nat,
           Len(times) = n, \A i \in 1..n : times[i] \in Int, NEW index, Behind(times, index),
           NEW to, to = Advance(times, index, RowCutoff(pwContext.rows[pwPos]))
    PROVE  /\ index \in 1..(n + 1) /\ to \in index..(n + 1)
           /\ \A i \in 1..(to - 1) : times[i] < RowCutoff(pwContext.rows[pwPos])
           /\ \A k \in (pwPos + 1)..Len(pwContext.rows) : \A i \in 1..(to - 1) :
                times[i] < RowCutoff(pwContext.rows[k])
<1> DEFINE last == Len(pwContext.rows)
           cut(k) == RowCutoff(pwContext.rows[k])
<1>1. /\ last \in Nat /\ pwPos \in 1..last /\ \A k \in 1..last : cut(k) \in Int
      /\ \A i, j \in 1..last : i < j => cut(i) <= cut(j)
  BY RowsInTime DEF PassKept
<1>2. /\ index \in 1..(n + 1)
      /\ \A k \in pwPos..last : \A i \in 1..(index - 1) : times[i] < cut(k)
  BY DEF Behind
<1>3. /\ to \in index..(n + 1)
      /\ \A i \in index..(to - 1) : times[i] < cut(pwPos)
  <2> PICK c : c = cut(pwPos)
    OBVIOUS
  <2>1. c \in Int
    BY <1>1
  <2> QED BY <1>2, <2>1, AdvanceStops
<1> HIDE DEF last, cut
<1>4. ASSUME NEW i \in 1..(to - 1) PROVE times[i] < cut(pwPos) /\ times[i] \in Int
  <2>1. i \in 1..(index - 1) \/ i \in index..(to - 1)
    BY <1>2, <1>3
  <2>2. i \in 1..n
    BY <1>2, <1>3
  <2> QED BY <1>1, <1>2, <1>3, <2>1, <2>2
<1>5. ASSUME NEW k \in (pwPos + 1)..last, NEW i \in 1..(to - 1) PROVE times[i] < cut(k)
  <2>1. k \in 1..last /\ pwPos < k
    BY <1>1
  <2>2. cut(pwPos) <= cut(k) /\ cut(pwPos) \in Int /\ cut(k) \in Int
    BY <1>1, <2>1
  <2> QED BY <1>4, <2>2
<1> QED BY <1>2, <1>3, <1>4, <1>5 DEF last, cut

LEMMA ListOfFunction ==
    ASSUME NEW T, NEW n \in Nat, NEW f \in [1..n -> T]
    PROVE  f \in Seq(T)
  BY SeqDef

Extends(r, q, e) ==
    /\ r \in Seq(ToSet(r)) /\ Len(q) \in Nat /\ Len(r) = Len(q) + 1
    /\ DOMAIN r = 1..(Len(q) + 1) /\ DOMAIN q = 1..Len(q)
    /\ \A k \in 1..Len(q) : r[k] = q[k]
    /\ r[Len(q) + 1] = e

LEMMA AppendedEntry ==
    ASSUME NEW q, q \in Seq(ToSet(q)), NEW e, NEW r, r = Append(q, e)
    PROVE  Extends(r, q, e)
<1> DEFINE S == ToSet(q) \cup {e}
           n == Len(q)
<1>1. n \in Nat /\ DOMAIN q = 1..n /\ q \in [1..n -> ToSet(q)]
  BY LenProperties
<1>2. q \in [1..n -> S]
  BY <1>1
<1> HIDE DEF S, n
<1>3. q \in Seq(S) /\ e \in S
  BY <1>1, <1>2, SeqDef DEF S
<1>4. /\ r \in Seq(S) /\ Len(r) = n + 1 /\ r[n + 1] = e
      /\ \A k \in 1..n : r[k] = q[k]
  BY <1>3, AppendProperties DEF n
<1>5. DOMAIN r = 1..(n + 1) /\ r \in [1..(n + 1) -> S]
  BY <1>4, LenProperties
<1>6. r \in Seq(ToSet(r))
  <2> PICK T : T = ToSet(r)
    OBVIOUS
  <2>1. \A k \in 1..(n + 1) : r[k] \in T
    BY <1>5 DEF ToSet
  <2>2. r \in [1..(n + 1) -> T]
    BY <1>5, <2>1
  <2>3. PICK m \in Nat : m = n + 1
    BY <1>1
  <2>4. r \in [1..m -> T]
    BY <2>2, <2>3
  <2>5. r \in Seq(T)
    BY <2>3, <2>4, ListOfFunction
  <2> QED BY <2>5
<1> QED BY <1>1, <1>4, <1>5, <1>6 DEF Extends, n

-----------------------------------------------------------------------------
(* A row of the player pass *)

PerformanceOrder == SoonerSets(pwContext.performances, Available(pwContext.performances))

HistorySeen(row, history) ==
    \A c \in WalkClubs, p \in WalkPlayers :
        Lists(history[c][p], SeenFor(row, c, p), PerformanceOrder)

LEMMA HistoryApplied ==
    ASSUME PassKept, pwPos \in 1..Len(pwContext.rows), PlayerPassKept,
           NEW upTo, upTo = Advance(AvailableTimes(Performances), pwPerformance,
                                    RowCutoff(pwContext.rows[pwPos])),
           NEW history, history = AppliedHistory(upTo)
    PROVE  HistoryKept(history, upTo) /\ HistorySeen(pwContext.rows[pwPos], history)
<1> DEFINE q == Performances
           times == AvailableTimes(q)
           n == Len(q)
           S == pwContext.performances
           cutoff == RowCutoff(pwContext.rows[pwPos])
<1>1. /\ n \in Nat /\ Len(times) = n /\ Lists(q, S, PerformanceOrder)
      /\ \A i \in 1..n : q[i] \in S /\ times[i] = q[i].available /\ times[i] \in Int
      /\ \A i, j \in 1..n : i < j => times[i] <= times[j]
  <2>1. \A x \in S : Available(S)[x] = x.available
    BY DEF Available
  <2> QED BY <2>1, PerformancesChronicled DEF PassKept, Chronicle, PerformanceOrder
<1>2. /\ pwPerformance \in 1..(n + 1) /\ upTo \in pwPerformance..(n + 1)
      /\ \A i \in 1..(pwPerformance - 1) : times[i] < cutoff
  <2>1. Behind(times, pwPerformance)
    BY DEF PlayerPassKept
  <2> HIDE DEF times, n
  <2>2. /\ pwPerformance \in 1..(n + 1) /\ upTo \in pwPerformance..(n + 1)
    BY <1>1, <2>1, MovedBehind DEF times
  <2>3. \A i \in 1..(pwPerformance - 1) : times[i] < cutoff
    <3>1. pwPos \in pwPos..Len(pwContext.rows)
      BY RowsInTime DEF PassKept
    <3> QED BY <2>1, <3>1 DEF Behind
  <2> QED BY <2>2, <2>3
<1>3. \A i \in 1..n : i < upTo <=> times[i] < cutoff
  <2>1. cutoff \in Int
    BY RowsInTime DEF PassKept
  <2>2. upTo = Advance(times, pwPerformance, cutoff)
    OBVIOUS
  <2> HIDE DEF times, n, cutoff
  <2> QED BY <1>1, <1>2, <2>1, <2>2, AdvancePasses
<1> HIDE DEF times, n, S, cutoff
<1>4. ASSUME NEW c \in WalkClubs, NEW p \in WalkPlayers
      PROVE  /\ Lists(history[c][p], PassedFor(upTo, c, p), PerformanceOrder)
             /\ PassedFor(upTo, c, p) = SeenFor(pwContext.rows[pwPos], c, p)
  <2> DEFINE I == {i \in 1..n : q[i].club = c /\ q[i].player = p}
             J == {i \in I : pwPerformance <= i /\ i < upTo}
             h == pwHistory[c][p]
  <2>1. history[c][p] = h \o Picked(q, J)
    <3>1. history[c][p] = h \o Picked(q, {i \in pwPerformance..(upTo - 1) :
                                           q[i].club = c /\ q[i].player = p})
      BY DEF AppliedHistory
    <3>2. {i \in pwPerformance..(upTo - 1) : q[i].club = c /\ q[i].player = p} = J
      <4>1. \A i : i \in pwPerformance..(upTo - 1)
                     <=> i \in 1..n /\ pwPerformance <= i /\ i < upTo
        BY <1>1, <1>2
      <4> QED BY <4>1
    <3> QED BY <3>1, <3>2
  <2>2. \A m : PassedFor(m, c, p) = {q[i] : i \in {j \in I : j < m}}
    BY DEF PassedFor, n
  <2>3. Lists(h, {q[i] : i \in {j \in I : j < pwPerformance}}, PerformanceOrder)
    <3>1. Lists(h, PassedFor(pwPerformance, c, p), PerformanceOrder)
      BY DEF PlayerPassKept, HistoryKept, PerformanceOrder
    <3> HIDE DEF I, h
    <3> QED BY <2>2, <3>1
  <2>4. I \in SUBSET (1..Len(q))
    BY DEF n
  <2>5. pwPerformance \in 1..(Len(q) + 1) /\ upTo \in pwPerformance..(Len(q) + 1)
    BY <1>2 DEF n
  <2>6. Lists(h \o Picked(q, J), {q[i] : i \in {j \in I : j < upTo}}, PerformanceOrder)
    <3> HIDE DEF I, h, q
    <3> QED BY <1>1, <2>3, <2>4, <2>5, GrownList
  <2>7. PassedFor(upTo, c, p) = SeenFor(pwContext.rows[pwPos], c, p)
    <3>1. ASSUME NEW i \in I, i < upTo
          PROVE  q[i] \in SeenFor(pwContext.rows[pwPos], c, p)
      <4>1. i \in 1..n /\ q[i].club = c /\ q[i].player = p
        OBVIOUS
      <4>2. q[i] \in S /\ q[i].available < cutoff
        BY <1>1, <1>3, <3>1, <4>1
      <4> QED BY <4>1, <4>2 DEF SeenFor, S, cutoff
    <3>2. ASSUME NEW x \in SeenFor(pwContext.rows[pwPos], c, p)
          PROVE  \E i \in I : i < upTo /\ x = q[i]
      <4>1. x \in S /\ x.club = c /\ x.player = p /\ x.available < cutoff
        BY DEF SeenFor, S, cutoff
      <4>2. PICK i \in 1..n : q[i] = x
        BY <1>1, <4>1 DEF Lists, n
      <4>3. i \in I
        BY <4>1, <4>2
      <4>4. i < upTo
        BY <1>1, <1>3, <4>1, <4>2
      <4> HIDE DEF I
      <4> QED BY <4>2, <4>3, <4>4
    <3>3. PassedFor(upTo, c, p) = {q[i] : i \in {j \in I : j < upTo}}
      BY <2>2
    <3> HIDE DEF I, q
    <3> QED BY <3>1, <3>2, <3>3
  <2> QED BY <2>1, <2>2, <2>6, <2>7
<1> QED BY <1>4 DEF HistoryKept, HistorySeen, PerformanceOrder

LEMMA TransfersApplied ==
    ASSUME PassKept, pwPos \in 1..Len(pwContext.rows), PlayerPassKept,
           NEW upTo, upTo = Advance(ObservedTimes(Transfers), pwTransfer,
                                    RowCutoff(pwContext.rows[pwPos]))
    PROVE  LatestKept(AppliedTransfers(upTo, RowCutoff(pwContext.rows[pwPos])), upTo)
<1> DEFINE cutoff == RowCutoff(pwContext.rows[pwPos])
           times == ObservedTimes(Transfers)
           n == Len(Transfers)
<1>1. /\ n \in Nat /\ Len(times) = n /\ \A i \in 1..n : times[i] \in Int
  BY TransfersChronicled DEF PassKept, Chronicle
<1>2. pwTransfer \in 1..(n + 1) /\ upTo \in pwTransfer..(n + 1)
  <2>1. Behind(times, pwTransfer)
    BY DEF PlayerPassKept
  <2> HIDE DEF times, n
  <2> QED BY <1>1, <2>1, MovedBehind DEF times
<1> HIDE DEF n, cutoff
<1> SUFFICES ASSUME NEW p \in WalkPlayers
             PROVE  \/ AppliedTransfers(upTo, cutoff)[p] = NoTransfer
                    \/ \E i \in 1..(upTo - 1) :
                         /\ AppliedTransfers(upTo, cutoff)[p] = Transfers[i]
                         /\ Transfers[i].player = p
  BY DEF LatestKept, cutoff
<1> DEFINE passed == {i \in pwTransfer..(upTo - 1) :
                        Transfers[i].player = p /\ Transfers[i].date <= cutoff}
           last == CHOOSE i \in passed : \A j \in passed : j <= i
<1>3. AppliedTransfers(upTo, cutoff)[p]
        = IF passed = {} THEN pwLatest[p] ELSE Transfers[last]
  BY DEF AppliedTransfers
<1>4. CASE passed = {}
  <2>1. \/ pwLatest[p] = NoTransfer
        \/ \E i \in 1..(pwTransfer - 1) : pwLatest[p] = Transfers[i] /\ Transfers[i].player = p
    BY DEF PlayerPassKept, LatestKept
  <2>2. \A i \in 1..(pwTransfer - 1) : i \in 1..(upTo - 1)
    BY <1>2
  <2> QED BY <1>3, <1>4, <2>1, <2>2
<1>5. CASE passed # {}
  <2>1. passed \subseteq Int /\ IsFiniteSet(passed)
    <3>1. IsFiniteSet(pwTransfer..(upTo - 1)) /\ \A i \in passed : i \in Int
      BY <1>2, FS_Interval
    <3>2. passed \in SUBSET (pwTransfer..(upTo - 1))
      OBVIOUS
    <3> HIDE DEF passed
    <3> QED BY <3>1, <3>2, FS_Subset
  <2>2. last \in passed
    <3> HIDE DEF passed
    <3> QED BY <1>5, <2>1, LeastAndGreatest
  <2>3. last \in 1..(upTo - 1) /\ Transfers[last].player = p
    <3> HIDE DEF last
    <3> QED BY <1>2, <2>2
  <2> HIDE DEF last
  <2> QED BY <1>3, <1>5, <2>3
<1> QED BY <1>4, <1>5

\* A player without transfers is in the squad exactly when his last performance seen
\* is recent.
LEMMA SquadFound ==
    ASSUME pwContext \in Contexts, NEW row \in ContextRow, NEW c \in {row.home, row.away},
           NEW p \in WalkPlayers, \A t \in pwContext.transfers : t.player # p,
           NEW history, HistorySeen(row, history),
           NEW latest, latest[p] = NoTransfer
    PROVE  p \in Profiles(c, row.kickoff, history, latest)
             <=> SeenLately(row, c, p)
<1> DEFINE S == pwContext.performances
           mine == SeenFor(row, c, p)
           h == history[c][p]
           from == row.kickoff - SquadWindow
           IsNewest(x) == \A y \in mine : \/ y.available < x.available
                                          \/ (y.available = x.available /\ y.id <= x.id)
<1>1. c \in WalkClubs
  BY DEF ContextRow
<1>2. Lists(h, mine, PerformanceOrder)
  BY <1>1 DEF HistorySeen
<1>3. S \subseteq PlayerPerformance /\ mine \subseteq S
  BY ContextAssumption DEF Observations, SeenFor
<1>4. \A x \in mine : x.available \in Int /\ x.id \in Int
  BY <1>3 DEF PlayerPerformance
<1>5. \A x, y \in mine : y \in PerformanceOrder[x]
           => (y.available < x.available \/ (y.available = x.available /\ y.id < x.id))
  BY <1>3 DEF PerformanceOrder, SoonerSets, Sooner, Available
<1>6. \A x, y \in S : x.id = y.id => x = y
  BY ContextAssumption DEF Observations
<1>11. SeenLately(row, c, p) <=> \E x \in mine : IsNewest(x) /\ x.kickoff >= from
  BY DEF SeenLately
<1> HIDE DEF mine, S, h, from
<1>7. p \in Profiles(c, row.kickoff, history, latest)
        <=> h # <<>> /\ Last(h).kickoff >= from
  <2>1. latest[p].from = NoClub /\ latest[p].to = NoClub
    <3>1. NoTransfer.from = NoClub /\ NoTransfer.to = NoClub
      BY DEF NoTransfer
    <3> QED BY <3>1
  <2>2. c # NoClub
    BY <1>1, PlayerWalkAssumption
  <2>3. p \in CandidateIds(c, row.kickoff, history, latest)
          <=> history[c][p] # <<>> /\ Last(history[c][p]).kickoff >= row.kickoff - SquadWindow
    BY <2>1, <2>2 DEF CandidateIds
  <2>4. p \in Profiles(c, row.kickoff, history, latest)
          <=> /\ p \in CandidateIds(c, row.kickoff, history, latest)
              /\ \E d \in WalkClubs : history[d][p] # <<>>
    BY DEF Profiles
  <2> QED BY <1>1, <2>3, <2>4 DEF h, from
<1>8. h = <<>> => mine = {}
  BY <1>2 DEF Lists
<1>9. CASE mine = {}
  <2>1. Len(h) \in Nat /\ h \in Seq(mine) /\ \A i \in 1..Len(h) : h[i] \in mine
    BY <1>2 DEF Lists
  <2>2. h = <<>>
    <3>1. 1 \notin 1..Len(h)
      BY <1>9, <2>1
    <3>2. Len(h) = 0
      BY <2>1, <3>1
    <3> QED BY <2>1, <3>2, EmptySeq
  <2> QED BY <1>7, <1>9, <1>11, <2>2
<1>10. CASE mine # {}
  <2> DEFINE last == h[Len(h)]
  <2>1. /\ last \in mine
        /\ \A y \in mine : y = last \/ y \in PerformanceOrder[last]
    BY <1>2, <1>10, FirstAndLast
  <2>2. Last(h) = last /\ h # <<>>
    BY <1>8, <1>10 DEF Last
  <2> HIDE DEF last
  <2>3. IsNewest(last)
    BY <1>4, <1>5, <2>1
  <2>4. ASSUME NEW x \in mine, IsNewest(x) PROVE x = last
    <3> SUFFICES ASSUME x # last PROVE FALSE
      OBVIOUS
    <3>1. x \in PerformanceOrder[last]
      BY <2>1
    <3>2. x.available < last.available \/ (x.available = last.available /\ x.id < last.id)
      BY <1>5, <2>1, <3>1
    <3>3. last.available < x.available \/ (last.available = x.available /\ last.id <= x.id)
      BY <2>1, <2>4
    <3> QED BY <1>4, <2>1, <3>2, <3>3
  <2>5. (last.kickoff >= from) <=> \E x \in mine : IsNewest(x) /\ x.kickoff >= from
    <3> HIDE DEF IsNewest
    <3> QED BY <2>1, <2>3, <2>4
  <2> QED BY <1>7, <1>11, <2>2, <2>5
<1> QED BY <1>9, <1>10

\* The starts among the performances of a profile are counted.
LEMMA ProfileListed ==
    ASSUME pwContext \in Contexts, NEW row, NEW history, HistorySeen(row, history),
           NEW c \in WalkClubs, NEW p \in WalkPlayers
    PROVE  Len(ProfileHistory(c, p, history)) \in Nat
           /\ StartingScore(c, p, history) \in Nat
<1> DEFINE S == pwContext.performances
           all == UNION {ToSet(history[d][p]) : d \in WalkClubs}
           list == IF history[c][p] # <<>> THEN history[c][p] ELSE ByTime(all, Available(all))
           matches == ProfileHistory(c, p, history)
           counted == {i \in 1..Len(matches) : matches[i].started}
<1>1. S \subseteq PlayerPerformance /\ IsFiniteSet(S) /\ \A x, y \in S : x.id = y.id => x = y
  BY ContextAssumption DEF Observations
<1>2. \A d \in WalkClubs : Lists(history[d][p], SeenFor(row, d, p), PerformanceOrder)
  BY DEF HistorySeen
<1>3. all \subseteq S
  <2> SUFFICES ASSUME NEW d \in WalkClubs, NEW x \in ToSet(history[d][p]) PROVE x \in S
    OBVIOUS
  <2>1. PICK i \in DOMAIN history[d][p] : x = history[d][p][i]
    BY DEF ToSet
  <2>2. history[d][p] \in Seq(SeenFor(row, d, p))
    BY <1>2 DEF Lists
  <2>3. x \in SeenFor(row, d, p)
    BY <2>1, <2>2, ElementOfSeq
  <2> QED BY <2>3 DEF SeenFor
<1> HIDE DEF S, all, matches
<1>4. \E T, below : Lists(list, T, below)
  <2>1. CASE history[c][p] # <<>>
    BY <1>2, <2>1
  <2>2. CASE history[c][p] = <<>>
    <3>1. IsFiniteSet(all)
      BY <1>1, <1>3, FS_Subset
    <3>2. \A x \in all : x.available \in Int /\ x.id \in Int
      BY <1>1, <1>3 DEF PlayerPerformance
    <3>3. Available(all) \in [all -> Int]
      BY <3>2 DEF Available
    <3>4. \A x, y \in all : x.id = y.id => x = y
      BY <1>1, <1>3
    <3>5. Lists(ByTime(all, Available(all)), all, SoonerSets(all, Available(all)))
      BY <3>1, <3>2, <3>3, <3>4, SortedByTime
    <3> QED BY <2>2, <3>5
  <2> QED BY <2>1, <2>2
<1>5. matches = LastOf(list, ProfileWindow)
  BY DEF ProfileHistory, matches, all
<1> HIDE DEF list
<1>6. Len(matches) \in Nat
  <2>1. PICK T, below : Lists(list, T, below)
    BY <1>4
  <2>2. ProfileWindow \in Nat \ {0}
    BY PlayerWalkAssumption
  <2>3. ListsLast(matches, ProfileWindow, T, below)
    BY <1>5, <2>1, <2>2, LastOfList
  <2> QED BY <2>3 DEF ListsLast, Lists
<1>7. IsFiniteSet(counted)
  <2>1. IsFiniteSet(1..Len(matches)) /\ counted \in SUBSET (1..Len(matches))
    BY <1>6, FS_Interval
  <2> HIDE DEF counted
  <2> QED BY <2>1, FS_Subset
<1>8. Cardinality(counted) \in Nat
  <2> HIDE DEF counted
  <2> QED BY <1>7, FS_CardinalityType
<1>9. StartingScore(c, p, history) = Cardinality(counted)
  BY DEF StartingScore, matches
<1> QED BY <1>6, <1>8, <1>9 DEF matches

\* Who started one of his last matches for the club has a score.
LEMMA StarterScores ==
    ASSUME pwContext \in Contexts, NEW row, NEW history, HistorySeen(row, history),
           NEW c \in WalkClubs, NEW p \in WalkPlayers,
           NEW x \in SeenFor(row, c, p), x.started,
           NEW later, later = {y \in SeenFor(row, c, p) : x \in PerformanceOrder[y]},
           Cardinality(later) < ProfileWindow
    PROVE  StartingScore(c, p, history) > 0
<1> DEFINE S == SeenFor(row, c, p)
           h == history[c][p]
           matches == ProfileHistory(c, p, history)
           counted == {i \in 1..Len(matches) : matches[i].started}
<1>1. Lists(h, S, PerformanceOrder)
  BY DEF HistorySeen
<1>2. \A y \in S : y \notin PerformanceOrder[y]
  <2>1. S \subseteq pwContext.performances
    BY DEF SeenFor
  <2> QED BY <2>1, PerformancesChronicled DEF Chronicle, PerformanceOrder
<1>3. h # <<>>
  BY <1>1 DEF Lists
<1>4. matches = LastOf(h, ProfileWindow)
  BY <1>3 DEF ProfileHistory
<1>5. \E i \in 1..Len(matches) : matches[i] = x
  <2>1. ProfileWindow \in Nat \ {0} /\ x \in S
    BY PlayerWalkAssumption
  <2>2. Cardinality({y \in S : x \in PerformanceOrder[y]}) < ProfileWindow
    OBVIOUS
  <2> HIDE DEF S, h, matches
  <2> QED BY <1>1, <1>2, <1>4, <2>1, <2>2, LastOfReaches
<1>6. Len(matches) \in Nat /\ StartingScore(c, p, history) \in Nat
  BY ProfileListed
<1>7. StartingScore(c, p, history) = Cardinality(counted)
  BY DEF StartingScore
<1>8. counted # {}
  BY <1>5
<1>9. IsFiniteSet(counted)
  <2> HIDE DEF matches
  <2>1. IsFiniteSet(1..Len(matches)) /\ counted \in SUBSET (1..Len(matches))
    BY <1>6, FS_Interval
  <2> HIDE DEF counted
  <2> QED BY <2>1, FS_Subset
<1> HIDE DEF counted
<1>10. Cardinality(counted) # 0
  BY <1>8, <1>9, FS_EmptySet
<1> QED BY <1>6, <1>7, <1>10

LEMMA ReportKnown ==
    ASSUME pwContext \in Contexts, NEW row, NEW c, NEW p, NEW cutoff
    PROVE  LatestReport(row, c, p, cutoff) \in DOMAIN AvailabilityProbability
<1> DEFINE mine == {a \in Reports(row, c, cutoff) : a.player = p}
           last == CHOOSE a \in mine : \A b \in mine : b.observed <= a.observed
           times == {a.observed : a \in mine}
<1>1. LatestReport(row, c, p, cutoff) = IF mine = {} THEN "unknown" ELSE last.status
  BY DEF LatestReport
<1>2. CASE mine = {}
  BY <1>1, <1>2 DEF AvailabilityProbability
<1>3. CASE mine # {}
  <2>1. mine \subseteq AvailabilityObservation /\ IsFiniteSet(mine)
    <3>1. mine \in SUBSET pwContext.availability
      BY DEF Reports
    <3>2. /\ pwContext.availability \subseteq AvailabilityObservation
          /\ IsFiniteSet(pwContext.availability)
      BY ContextAssumption
    <3> HIDE DEF mine
    <3> QED BY <3>1, <3>2, FS_Subset
  <2> HIDE DEF mine
  <2>2. \A a \in mine : a.observed \in Int /\ a.status \in DOMAIN AvailabilityProbability
    BY <2>1 DEF AvailabilityObservation
  <2>3. times \subseteq Int /\ IsFiniteSet(times) /\ times # {}
    <3> DEFINE timeOf == [a \in mine |-> a.observed]
    <3>1. times = {timeOf[a] : a \in mine} /\ DOMAIN timeOf = mine
      OBVIOUS
    <3>2. times \subseteq Int /\ times # {}
      BY <1>3, <2>2
    <3> HIDE DEF timeOf, times
    <3>3. IsFiniteSet(times)
      BY <2>1, <3>1, FiniteImage
    <3> QED BY <3>2, <3>3
  <2> HIDE DEF times
  <2>4. PICK t \in times : \A u \in times : u <= t
    BY <2>3, LeastAndGreatest
  <2>5. \E a \in mine : \A b \in mine : b.observed <= a.observed
    BY <2>4 DEF times
  <2>6. last \in mine
    BY <2>5
  <2> HIDE DEF last
  <2> QED BY <1>1, <1>3, <2>2, <2>6
<1> QED BY <1>2, <1>3

LEMMA ScoresCount ==
    ASSUME pwContext \in Contexts, NEW row, NEW history, HistorySeen(row, history),
           NEW c \in WalkClubs, NEW p \in WalkPlayers, NEW cutoff
    PROVE  /\ SelectionScore(row, c, p, history, cutoff) \in Nat
           /\ Absent(LatestReport(row, c, p, cutoff))
                => SelectionScore(row, c, p, history, cutoff) = 0
           /\ ~Absent(LatestReport(row, c, p, cutoff)) /\ StartingScore(c, p, history) > 0
                => SelectionScore(row, c, p, history, cutoff) > 0
<1> DEFINE status == LatestReport(row, c, p, cutoff)
           score == StartingScore(c, p, history)
<1>1. score \in Nat
  BY ProfileListed
<1>2. SelectionScore(row, c, p, history, cutoff) = AvailabilityProbability[status] * score
  BY DEF SelectionScore
<1>3. status \in DOMAIN AvailabilityProbability
  BY ReportKnown
<1>4. /\ status \in {"suspended", "out", "doubtful", "unknown"}
      /\ AvailabilityProbability["suspended"] = 0 /\ AvailabilityProbability["out"] = 0
      /\ AvailabilityProbability["doubtful"] = 2 /\ AvailabilityProbability["unknown"] = 3
  BY <1>3 DEF AvailabilityProbability
<1> HIDE DEF status, score
<1>5. CASE Absent(status)
  <2>1. AvailabilityProbability[status] = 0
    BY <1>4, <1>5 DEF Absent
  <2> QED BY <1>1, <1>2, <1>5, <2>1 DEF status, score
<1>6. CASE ~Absent(status)
  <2>1. AvailabilityProbability[status] \in {2, 3}
    BY <1>4, <1>6 DEF Absent
  <2>2. /\ AvailabilityProbability[status] * score \in Nat
        /\ score > 0 => AvailabilityProbability[status] * score > 0
    BY <1>1, <2>1
  <2> QED BY <1>2, <1>6, <2>2 DEF status, score
<1> QED BY <1>5, <1>6

\* The teams of a row keep the absent players to their positions.
LEMMA AbsenceFound ==
    ASSUME pwContext \in Contexts, NEW row \in ContextRow,
           NEW history, HistorySeen(row, history), NEW latest, NEW cutoff,
           NEW teams, teams = [c \in {row.home, row.away} |->
                                 PlayerTeam(row, c, history, latest, cutoff)]
    PROVE  AbsentOnlyInTheirPosition(row, teams)
<1> SUFFICES ASSUME NEW c \in {row.home, row.away},
                    NEW p \in teams[c].lineup,
                    NEW q \in teams[c].squad \ teams[c].lineup,
                    Absent(teams[c].status[p]), ~Absent(teams[c].status[q]),
                    StartedLately(row, c, q)
             PROVE  /\ PlayerPosition[p] # PlayerPosition[q]
                    /\ Cardinality({y \in teams[c].lineup :
                                      PlayerPosition[y] = PlayerPosition[p]})
                         <= Formation[PlayerPosition[p]]
  BY DEF AbsentOnlyInTheirPosition
<1> DEFINE S == Profiles(c, row.kickoff, history, latest)
           score == [r \in WalkPlayers |-> SelectionScore(row, c, r, history, cutoff)]
<1>1. c \in WalkClubs
  BY DEF ContextRow
<1>2. /\ teams[c].squad = S /\ teams[c].lineup = SelectProfiles(S, score)
      /\ \A r \in WalkPlayers : teams[c].status[r] = LatestReport(row, c, r, cutoff)
  BY DEF PlayerTeam, ExpectedLineup
<1>3. S \in SUBSET WalkPlayers
  BY DEF Profiles, CandidateIds
<1>4. score \in [WalkPlayers -> Nat]
  BY <1>1, ScoresCount
<1> HIDE DEF S
<1>5. p \in SelectProfiles(S, score) /\ q \in S \ SelectProfiles(S, score) /\ q \in WalkPlayers
  BY <1>2, <1>3
<1>6. p \in S
  <2> HIDE DEF score
  <2>1. SelectProfiles(S, score) \subseteq S
    <3> DEFINE At(position) == {r \in S : PlayerPosition[r] = position}
               placed == UNION {Best(At(position), Formation[position], score)
                                  : position \in DOMAIN Formation}
               n == LineupSize - Cardinality(placed)
    <3>1. SelectProfiles(S, score) = placed \cup Best(S \ placed, n, score)
      BY DEF SelectProfiles
    <3>2. \A T, m : Best(T, m, score) \subseteq T
      BY DEF Best
    <3>3. placed \subseteq S
      <4> SUFFICES ASSUME NEW position, NEW r \in Best(At(position), Formation[position], score)
                   PROVE  r \in S
        OBVIOUS
      <4>1. r \in At(position)
        BY <3>2
      <4> QED BY <4>1
    <3> HIDE DEF placed, n
    <3> QED BY <3>1, <3>2, <3>3
  <2> QED BY <1>5, <2>1
<1>7. score[p] = 0
  <2>1. p \in WalkPlayers /\ Absent(LatestReport(row, c, p, cutoff))
    BY <1>2, <1>3, <1>6
  <2>2. SelectionScore(row, c, p, history, cutoff) = 0
    BY <1>1, <2>1, ScoresCount
  <2> QED BY <2>1, <2>2
<1>8. score[q] > 0
  <2> DEFINE Mine == SeenFor(row, c, q)
  <2>1. PICK x \in Mine : /\ x.started
                          /\ Cardinality({y \in Mine : Sooner(Available(Mine), x, y)})
                               < ProfileWindow
    BY DEF StartedLately
  <2>2. \A y \in Mine : x \in PerformanceOrder[y] <=> Sooner(Available(Mine), x, y)
    BY DEF SeenFor, PerformanceOrder, SoonerSets, Sooner, Available
  <2>3. {y \in Mine : x \in PerformanceOrder[y]} = {y \in Mine : Sooner(Available(Mine), x, y)}
    BY <2>2
  <2>4. PICK later : /\ later = {y \in Mine : x \in PerformanceOrder[y]}
                     /\ Cardinality(later) < ProfileWindow
    BY <2>1, <2>3
  <2>5. StartingScore(c, q, history) > 0
    BY <1>1, <1>5, <2>1, <2>4, StarterScores
  <2>6. ~Absent(LatestReport(row, c, q, cutoff))
    BY <1>2, <1>5
  <2> QED BY <1>1, <1>5, <2>5, <2>6, ScoresCount
<1> HIDE DEF score
<1>9. /\ PlayerPosition[p] # PlayerPosition[q]
      /\ Cardinality({y \in SelectProfiles(S, score) :
                        PlayerPosition[y] = PlayerPosition[p]})
           <= Formation[PlayerPosition[p]]
  BY <1>3, <1>4, <1>5, <1>7, <1>8, LineupByScore
<1> QED BY <1>2, <1>9

\* The teams of a row have the squads that were seen.
LEMMA SquadsFound ==
    ASSUME pwContext \in Contexts, NEW row \in ContextRow,
           NEW history, HistorySeen(row, history), NEW cutoff,
           NEW latest, NEW upTo \in 1..(Len(Transfers) + 1), LatestKept(latest, upTo),
           NEW teams, teams = [c \in {row.home, row.away} |->
                                 PlayerTeam(row, c, history, latest, cutoff)]
    PROVE  SquadObserved(row, teams)
<1> SUFFICES ASSUME NEW c \in {row.home, row.away}, NEW p \in WalkPlayers,
                    \A t \in pwContext.transfers : t.player # p
             PROVE  p \in teams[c].squad <=> SeenLately(row, c, p)
  BY DEF SquadObserved
<1>2. teams[c].squad = Profiles(c, row.kickoff, history, latest)
  BY DEF PlayerTeam
<1>3. latest[p] = NoTransfer
  <2> SUFFICES ASSUME NEW i \in 1..(upTo - 1), Transfers[i].player = p PROVE FALSE
    BY DEF LatestKept
  <2>1. /\ Len(Transfers) \in Nat
        /\ \A j \in 1..Len(Transfers) : Transfers[j] \in pwContext.transfers
    BY TransfersChronicled DEF Chronicle
  <2>2. i \in 1..Len(Transfers)
    BY <2>1
  <2> QED BY <2>1, <2>2
<1> QED BY <1>2, <1>3, SquadFound

-----------------------------------------------------------------------------
(* A row of the tactical pass *)

\* as many as are wanted, or all, and what is left out is below all of them
RecentAmong(used, seen, below) ==
    /\ used \in SUBSET seen
    /\ \A x \in seen \ used : /\ Cardinality(used) = RecentTactics
                              /\ \A y \in used : x \in below[y]

\* The recent elements for a club are the last of those before the index.
LEMMA RecentFound ==
    ASSUME NEW q, NEW S, NEW time, NEW times, Chronicle(q, S, time, times),
           NEW upTo \in 1..(Len(q) + 1), NEW c
    PROVE  RecentAmong(ToSet(RecentOf(q, upTo, c)),
                       {q[i] : i \in {j \in 1..(upTo - 1) : q[j].club = c}},
                       SoonerSets(S, time))
<1> DEFINE below == SoonerSets(S, time)
           I == {j \in 1..(upTo - 1) : q[j].club = c}
           seen == {q[i] : i \in I}
           part == Picked(q, I)
           l == RecentOf(q, upTo, c)
<1>1. Lists(q, S, below) /\ Len(q) \in Nat /\ \A x \in S : x \notin below[x]
  BY DEF Chronicle
<1>2. I \in SUBSET (1..Len(q))
  BY <1>1
<1>3. seen \subseteq S
  BY <1>1, <1>2 DEF Lists
<1>4. l = LastOf(part, RecentTactics)
  BY DEF RecentOf
<1> HIDE DEF below, I
<1>5. Lists(part, seen, below)
  BY <1>1, <1>2, PickedLists
<1> HIDE DEF l, part, seen
<1>6. PICK T \in SUBSET seen :
        /\ Lists(l, T, below)
        /\ \A x \in seen \ T : Len(l) = RecentTactics /\ \A y \in T : x \in below[y]
  <2>1. RecentTactics \in Nat \ {0}
    BY PlayerWalkAssumption
  <2>2. ListsLast(LastOf(part, RecentTactics), RecentTactics, seen, below)
    BY <1>5, <2>1, LastOfList
  <2>3. ListsLast(l, RecentTactics, seen, below)
    BY <1>4, <2>2
  <2> QED BY <2>3 DEF ListsLast
<1>7. ToSet(l) = T
  <2>1. l \in Seq(T) /\ Len(l) \in Nat
    BY <1>6 DEF Lists
  <2>2. DOMAIN l = 1..Len(l)
    BY <2>1, LenProperties
  <2>3. /\ \A x \in T : \E i \in 1..Len(l) : l[i] = x
        /\ \A i \in 1..Len(l) : l[i] \in T
    BY <1>6 DEF Lists
  <2> QED BY <2>2, <2>3 DEF ToSet
<1>8. Cardinality(T) = Len(l)
  BY <1>1, <1>3, <1>6, ListCardinality
<1>9. RecentAmong(ToSet(l), seen, below)
  BY <1>6, <1>7, <1>8 DEF RecentAmong
<1> QED BY <1>9 DEF l, below, seen, I

LEMMA StylesFound ==
    ASSUME pwContext \in Contexts, NEW row, NEW upTo \in 1..(Len(Styles) + 1),
           \A i \in 1..Len(Styles) : i < upTo <=> AvailableTimes(Styles)[i] < RowCutoff(row),
           NEW teams, NEW upToShape,
           teams = [c \in {row.home, row.away} |-> TacticalTeam(c, upTo, upToShape)]
    PROVE  /\ StylesObserved(row, teams)
           /\ \A c \in {row.home, row.away} : \A x \in ToSet(teams[c].styles) :
                x.available < RowCutoff(row) /\ x.available \in Int
<1> DEFINE S == pwContext.styles
           q == Styles
           n == Len(q)
           times == AvailableTimes(q)
           below == SoonerSets(S, Available(S))
<1>1. Chronicle(q, S, Available(S), times)
  BY StylesChronicled
<1>2. /\ n \in Nat
      /\ \A x \in S : \E i \in 1..n : q[i] = x
      /\ \A i \in 1..n : q[i] \in S /\ times[i] = q[i].available
  BY <1>1 DEF Chronicle, Lists, Available
<1>3. /\ \A x, y \in S : x \in below[y] => x.available <= y.available
      /\ \A x \in S : x.available \in Int
  <2>1. \A x \in S : x.available \in Int
    BY ContextAssumption DEF Observations, StyleObservation
  <2> QED BY <2>1 DEF SoonerSets, Sooner, Available
<1>4. \A c \in {row.home, row.away} : teams[c].styles = RecentOf(q, upTo, c)
  BY DEF TacticalTeam
<1>5. upTo \in 1..(n + 1) /\ \A i \in 1..n : i < upTo <=> times[i] < RowCutoff(row)
  OBVIOUS
<1> DEFINE Seen(c) == {x \in S : x.club = c /\ x.available < RowCutoff(row)}
           Used(c) == ToSet(teams[c].styles)
<1> HIDE DEF q, times, below, n
<1>6. ASSUME NEW c \in {row.home, row.away}
      PROVE  RecentAmong(Used(c), Seen(c), below)
  <2> DEFINE J == {j \in 1..(upTo - 1) : q[j].club = c}
             seen == Seen(c)
  <2>1. \A i : i \in 1..(upTo - 1) <=> i \in 1..n /\ i < upTo
    BY <1>2, <1>5
  <2>2. ASSUME NEW i \in J PROVE q[i] \in seen
    BY <1>2, <1>5, <2>1
  <2>3. ASSUME NEW x \in seen PROVE \E i \in J : x = q[i]
    <3>1. PICK i \in 1..n : q[i] = x
      BY <1>2
    <3>2. times[i] < RowCutoff(row) /\ q[i].club = c
      BY <1>2, <3>1
    <3>3. i \in J
      BY <1>5, <2>1, <3>2
    <3> QED BY <3>1, <3>3
  <2> HIDE DEF seen
  <2>4. {q[i] : i \in J} = seen
    <3> HIDE DEF J
    <3> QED BY <2>2, <2>3
  <2>5. RecentAmong(ToSet(RecentOf(q, upTo, c)), {q[i] : i \in J}, SoonerSets(S, Available(S)))
    <3>1. upTo \in 1..(Len(q) + 1)
      BY <1>5 DEF n
    <3> HIDE DEF S
    <3> QED BY <1>1, <3>1, RecentFound
  <2> HIDE DEF J
  <2> QED BY <1>4, <2>4, <2>5 DEF seen, below
<1> HIDE DEF S, Used
<1>7. ASSUME NEW c \in {row.home, row.away}
      PROVE  /\ Used(c) \subseteq Seen(c)
             /\ \A x \in Seen(c) \ Used(c) : \A y \in Used(c) : x.available <= y.available
             /\ Seen(c) # Used(c) => Cardinality(Used(c)) = RecentTactics
             /\ \A x \in Used(c) : x.available < RowCutoff(row) /\ x \in S
  BY <1>3, <1>6 DEF RecentAmong
<1> HIDE DEF Seen
<1>8. StylesObserved(row, teams)
  BY <1>7 DEF StylesObserved, Seen, Used, S
<1> QED BY <1>3, <1>7, <1>8 DEF Used

LEMMA ShapesPast ==
    ASSUME pwContext \in Contexts, NEW cutoff, NEW upTo \in 1..(Len(ObservedShapes) + 1),
           \A i \in 1..(upTo - 1) : AvailableTimes(ObservedShapes)[i] < cutoff,
           NEW c, NEW x \in ToSet(RecentOf(ObservedShapes, upTo, c))
    PROVE  x.available < cutoff /\ x.available \in Int
<1> DEFINE q == ObservedShapes
           seen == {q[i] : i \in {j \in 1..(upTo - 1) : q[j].club = c}}
<1>1. Chronicle(q, Shapes, Available(Shapes), AvailableTimes(q))
  BY ShapesChronicled
<1>2. RecentAmong(ToSet(RecentOf(q, upTo, c)), seen, SoonerSets(Shapes, Available(Shapes)))
  <2>1. upTo \in 1..(Len(q) + 1)
    OBVIOUS
  <2> HIDE DEF q
  <2> QED BY <1>1, <2>1, RecentFound
<1>3. PICK i \in 1..(upTo - 1) : x = q[i]
  BY <1>2 DEF RecentAmong
<1>4. /\ Len(q) \in Nat
      /\ \A j \in 1..Len(q) : /\ AvailableTimes(q)[j] = q[j].available
                              /\ AvailableTimes(q)[j] \in Int
  BY <1>1 DEF Chronicle, Available
<1>5. i \in 1..Len(q)
  BY <1>4
<1> QED BY <1>3, <1>4, <1>5

-----------------------------------------------------------------------------
(* The steps *)

\* What a row may tell depends on the inputs alone.
LEMMA ContextKept ==
    ASSUME pwContext' = pwContext, NEW row, NEW teams
    PROVE  /\ SquadObserved(row, teams)' <=> SquadObserved(row, teams)
           /\ StylesObserved(row, teams)' <=> StylesObserved(row, teams)
           /\ AbsentOnlyInTheirPosition(row, teams)' <=> AbsentOnlyInTheirPosition(row, teams)
<1>1. RowCutoff(row)' = RowCutoff(row)
  BY DEF RowCutoff
<1>2. \A c, p : SeenFor(row, c, p)' = SeenFor(row, c, p)
  BY <1>1 DEF SeenFor
<1>3. \A c, p : SeenLately(row, c, p)' <=> SeenLately(row, c, p)
  BY <1>2 DEF SeenLately
<1>4. \A c, p : StartedLately(row, c, p)' <=> StartedLately(row, c, p)
  BY <1>2 DEF StartedLately
<1>5. SquadObserved(row, teams)' <=> SquadObserved(row, teams)
  BY <1>3 DEF SquadObserved
<1>6. StylesObserved(row, teams)' <=> StylesObserved(row, teams)
  BY <1>1 DEF StylesObserved
<1>7. AbsentOnlyInTheirPosition(row, teams)' <=> AbsentOnlyInTheirPosition(row, teams)
  BY <1>4 DEF AbsentOnlyInTheirPosition
<1> QED BY <1>5, <1>6, <1>7

LEMMA ListsKept ==
    ASSUME pwContext' = pwContext
    PROVE  /\ Performances' = Performances /\ Transfers' = Transfers
           /\ Styles' = Styles /\ ObservedShapes' = ObservedShapes
<1>1. Performances' = Performances /\ Transfers' = Transfers /\ Styles' = Styles
  BY DEF Performances, Transfers, Styles
<1>2. Shapes' = Shapes
  <2>1. \A m, c : Starters(m, c)' = Starters(m, c)
    BY DEF Starters
  <2> QED BY <2>1 DEF Shapes
<1>3. ObservedShapes' = ObservedShapes
  BY <1>2 DEF ObservedShapes
<1> QED BY <1>1, <1>3

\* Rows that are not written stay as they are told.
LEMMA RowsKept ==
    ASSUME PlayerWalkInv, pwContext' = pwContext, pwPass' # "raised",
           pwPlayerRows' = pwPlayerRows, pwTacticalRows' = pwTacticalRows
    PROVE  RowsUseTheObservedPast' /\ AbsenceRespected'
<1>1. /\ \A k \in DOMAIN pwPlayerRows :
           /\ SquadObserved(pwContext.rows[k], pwPlayerRows[k].teams)
           /\ AbsentOnlyInTheirPosition(pwContext.rows[k], pwPlayerRows[k].teams)
      /\ \A k \in DOMAIN pwTacticalRows :
           StylesObserved(pwContext.rows[k], pwTacticalRows[k].teams)
  BY DEF PlayerWalkInv, RowsUseTheObservedPast, AbsenceRespected
<1>2. ASSUME NEW k \in DOMAIN pwPlayerRows'
      PROVE  /\ SquadObserved(pwContext.rows[k], pwPlayerRows[k].teams)'
             /\ AbsentOnlyInTheirPosition(pwContext.rows[k], pwPlayerRows[k].teams)'
  <2> PICK row, teams : row = pwContext'.rows[k] /\ teams = pwPlayerRows'[k].teams
    OBVIOUS
  <2>1. SquadObserved(row, teams) /\ AbsentOnlyInTheirPosition(row, teams)
    BY <1>1
  <2>2. SquadObserved(row, teams)' /\ AbsentOnlyInTheirPosition(row, teams)'
    BY <2>1, ContextKept
  <2> QED BY <2>2
<1>3. ASSUME NEW k \in DOMAIN pwTacticalRows'
      PROVE  StylesObserved(pwContext.rows[k], pwTacticalRows[k].teams)'
  <2> PICK row, teams : row = pwContext'.rows[k] /\ teams = pwTacticalRows'[k].teams
    OBVIOUS
  <2>1. StylesObserved(row, teams)
    BY <1>1
  <2>2. StylesObserved(row, teams)'
    BY <2>1, ContextKept
  <2> QED BY <2>2
<1> QED BY <1>2, <1>3 DEF RowsUseTheObservedPast, AbsenceRespected

LEMMA PlayerWalkStarts == PlayerWalkInit => PlayerWalkInv
<1> SUFFICES ASSUME PlayerWalkInit PROVE PlayerWalkInv
  OBVIOUS
<1>1. /\ pwContext \in Contexts /\ pwPass = "load" /\ pwPos = 1
      /\ pwPerformance = 1 /\ pwTransfer = 1
      /\ pwHistory = [c \in WalkClubs |-> [p \in WalkPlayers |-> <<>>]]
      /\ pwLatest = [p \in WalkPlayers |-> NoTransfer]
      /\ pwStyle = 1 /\ pwShape = 1 /\ pwPlayerRows = <<>> /\ pwTacticalRows = <<>>
  BY DEF PlayerWalkInit, PlayerWalkStart
<1>2. Len(pwContext.rows) \in Nat
  BY <1>1, RowsInTime
<1>3. \A S : <<>> \in Seq(S) /\ Len(<<>>) = 0
  BY EmptySeq
<1>4. PassKept
  BY <1>1, <1>2, <1>3 DEF PassKept
<1>5. ASSUME NEW times, NEW n \in Nat, Len(times) = n PROVE Behind(times, 1)
  BY <1>5 DEF Behind
<1>6. PlayerPassKept
  <2>1. Behind(AvailableTimes(Performances), pwPerformance)
    BY <1>1, <1>5, PerformancesChronicled DEF Chronicle
  <2>2. Behind(ObservedTimes(Transfers), pwTransfer)
    BY <1>1, <1>5, TransfersChronicled DEF Chronicle
  <2>3. HistoryKept(pwHistory, pwPerformance)
    <3> SUFFICES ASSUME NEW c \in WalkClubs, NEW p \in WalkPlayers
                 PROVE  Lists(pwHistory[c][p], PassedFor(pwPerformance, c, p), PerformanceOrder)
      BY DEF HistoryKept, PerformanceOrder
    <3>1. pwHistory[c][p] = <<>>
      BY <1>1
    <3>2. PassedFor(1, c, p) = {}
      <4>1. Len(Performances) \in Nat
        BY <1>1, PerformancesChronicled DEF Chronicle
      <4> QED BY <4>1 DEF PassedFor
    <3>3. Lists(<<>>, {}, PerformanceOrder)
      BY <1>3 DEF Lists
    <3> QED BY <1>1, <3>1, <3>2, <3>3
  <2>4. LatestKept(pwLatest, pwTransfer)
    BY <1>1 DEF LatestKept
  <2> QED BY <1>1, <1>3, <2>1, <2>2, <2>3, <2>4 DEF PlayerPassKept
<1>7. RowsUseTheObservedPast /\ AbsenceRespected
  <2>1. DOMAIN <<>> = {}
    OBVIOUS
  <2> QED BY <1>1, <2>1 DEF RowsUseTheObservedPast, AbsenceRespected
<1> QED BY <1>1, <1>4, <1>6, <1>7 DEF PlayerWalkInv

LEMMA HistoriesKept ==
    ASSUME pwContext' = pwContext, NEW h, NEW m
    PROVE  /\ HistoryKept(h, m)' <=> HistoryKept(h, m)
           /\ LatestKept(h, m)' <=> LatestKept(h, m)
<1>1. \A c, p : PassedFor(m, c, p)' = PassedFor(m, c, p)
  BY ListsKept DEF PassedFor
<1>2. HistoryKept(h, m)' <=> HistoryKept(h, m)
  BY <1>1 DEF HistoryKept
<1>3. LatestKept(h, m)' <=> LatestKept(h, m)
  BY ListsKept DEF LatestKept
<1> QED BY <1>2, <1>3

LEMMA BehindKept ==
    ASSUME pwContext' = pwContext, pwPos' = pwPos, NEW times, NEW index
    PROVE  Behind(times, index)' <=> Behind(times, index)
  BY DEF Behind

\* Both passes over their rows, while neither reads one.
LEMMA PassGoesOn ==
    ASSUME PlayerWalkInv,
           UNCHANGED <<pwContext, pwPos, pwPerformance, pwTransfer, pwHistory,
                       pwLatest, pwStyle, pwShape, pwPlayerRows, pwTacticalRows>>,
           pwPass' \in {"load", "player", "tactical", "done", "rejected"},
           pwPass' \in {"load", "player"} => pwPass \in {"load", "player"},
           pwPass' = "tactical" => pwPass = "tactical"
    PROVE  PlayerWalkInv'
<1>1. PassKept'
  BY DEF PlayerWalkInv, PassKept
<1>2. RowsUseTheObservedPast' /\ AbsenceRespected'
  BY RowsKept
<1>3. ASSUME pwPass' \in {"load", "player"} PROVE PlayerPassKept'
  <2>1. PlayerPassKept
    BY <1>3 DEF PlayerWalkInv
  <2>2. Behind(AvailableTimes(Performances), pwPerformance)'
    <3> PICK times, index : times = AvailableTimes(Performances)' /\ index = pwPerformance'
      OBVIOUS
    <3>1. times = AvailableTimes(Performances) /\ index = pwPerformance
      BY ListsKept DEF AvailableTimes
    <3>2. Behind(times, index)'
      BY <2>1, <3>1, BehindKept DEF PlayerPassKept
    <3> QED BY <3>2
  <2>3. Behind(ObservedTimes(Transfers), pwTransfer)'
    <3> PICK times, index : times = ObservedTimes(Transfers)' /\ index = pwTransfer'
      OBVIOUS
    <3>1. times = ObservedTimes(Transfers) /\ index = pwTransfer
      BY ListsKept DEF ObservedTimes
    <3>2. Behind(times, index)'
      BY <2>1, <3>1, BehindKept DEF PlayerPassKept
    <3> QED BY <3>2
  <2>4. HistoryKept(pwHistory, pwPerformance)'
    <3> PICK h, m : h = pwHistory' /\ m = pwPerformance'
      OBVIOUS
    <3>1. HistoryKept(h, m)'
      BY <2>1, HistoriesKept DEF PlayerPassKept
    <3> QED BY <3>1
  <2>5. LatestKept(pwLatest, pwTransfer)'
    <3> PICK h, m : h = pwLatest' /\ m = pwTransfer'
      OBVIOUS
    <3>1. LatestKept(h, m)'
      BY <2>1, HistoriesKept DEF PlayerPassKept
    <3> QED BY <3>1
  <2> QED BY <2>1, <2>2, <2>3, <2>4, <2>5 DEF PlayerPassKept
<1>4. ASSUME pwPass' = "tactical" PROVE TacticalPassKept'
  <2>1. TacticalPassKept
    BY <1>4 DEF PlayerWalkInv
  <2>2. Behind(AvailableTimes(Styles), pwStyle)'
    <3> PICK times, index : times = AvailableTimes(Styles)' /\ index = pwStyle'
      OBVIOUS
    <3>1. times = AvailableTimes(Styles) /\ index = pwStyle
      BY ListsKept DEF AvailableTimes
    <3>2. Behind(times, index)'
      BY <2>1, <3>1, BehindKept DEF TacticalPassKept
    <3> QED BY <3>2
  <2>3. Behind(AvailableTimes(ObservedShapes), pwShape)'
    <3> PICK times, index : times = AvailableTimes(ObservedShapes)' /\ index = pwShape'
      OBVIOUS
    <3>1. times = AvailableTimes(ObservedShapes) /\ index = pwShape
      BY ListsKept DEF AvailableTimes
    <3>2. Behind(times, index)'
      BY <2>1, <3>1, BehindKept DEF TacticalPassKept
    <3> QED BY <3>2
  <2> QED BY <2>1, <2>2, <2>3 DEF TacticalPassKept
<1> QED BY <1>1, <1>2, <1>3, <1>4 DEF PlayerWalkInv

LEMMA StartTacticsStep == PlayerWalkInv /\ StartTactics => PlayerWalkInv'
<1> SUFFICES ASSUME PlayerWalkInv, StartTactics PROVE PlayerWalkInv'
  OBVIOUS
<1>1. /\ pwPass = "player" /\ pwPass' = "tactical" /\ pwPos' = 1
      /\ UNCHANGED <<pwContext, pwStyle, pwShape, pwPlayerRows, pwTacticalRows>>
  BY DEF StartTactics
<1>2. PassKept /\ PlayerPassKept
  BY <1>1 DEF PlayerWalkInv
<1>3. PassKept'
  <2>1. Len(pwContext.rows) \in Nat
    BY <1>2, RowsInTime DEF PassKept
  <2> QED BY <1>1, <1>2, <2>1 DEF PassKept
<1>4. RowsUseTheObservedPast' /\ AbsenceRespected'
  BY <1>1, RowsKept
<1>5. TacticalPassKept'
  <2>1. pwStyle' = 1 /\ pwShape' = 1 /\ pwTacticalRows' = <<>>
    BY <1>1, <1>2 DEF PlayerPassKept
  <2>2. ASSUME NEW times, NEW n \in Nat, Len(times) = n PROVE Behind(times, 1)'
    BY <2>2 DEF Behind
  <2>3. Behind(AvailableTimes(Styles), pwStyle)'
    <3> PICK times : times = AvailableTimes(Styles)'
      OBVIOUS
    <3>1. times = AvailableTimes(Styles)
      BY <1>1, ListsKept DEF AvailableTimes
    <3>2. Behind(times, 1)'
      BY <1>2, <2>2, <3>1, StylesChronicled DEF PassKept, Chronicle
    <3> QED BY <2>1, <3>2
  <2>4. Behind(AvailableTimes(ObservedShapes), pwShape)'
    <3> PICK times : times = AvailableTimes(ObservedShapes)'
      OBVIOUS
    <3>1. times = AvailableTimes(ObservedShapes)
      BY <1>1, ListsKept DEF AvailableTimes
    <3>2. Behind(times, 1)'
      BY <1>2, <2>2, <3>1, ShapesChronicled DEF PassKept, Chronicle
    <3> QED BY <2>1, <3>2
  <2>5. Len(pwTacticalRows') = pwPos' - 1
    <3>1. Len(<<>>) = 0
      BY EmptySeq
    <3> QED BY <1>1, <2>1, <3>1
  <2> QED BY <2>3, <2>4, <2>5 DEF TacticalPassKept
<1> QED BY <1>1, <1>3, <1>4, <1>5 DEF PlayerWalkInv

\* What a row used is older than its cutoff.
LEMMA NothingLate ==
    ASSUME pwContext \in Contexts, NEW row, NEW cutoff \in Int,
           NEW upToP \in 1..(Len(Performances) + 1),
           \A i \in 1..(upToP - 1) : AvailableTimes(Performances)[i] < cutoff,
           NEW upToT \in 1..(Len(Transfers) + 1),
           \A i \in 1..(upToT - 1) : ObservedTimes(Transfers)[i] < cutoff,
           NEW latest, LatestKept(latest, upToT)
    PROVE  ~\E t \in InputTimes(row, upToP, latest, cutoff) : t >= cutoff
<1> SUFFICES ASSUME NEW t \in InputTimes(row, upToP, latest, cutoff) PROVE ~(t >= cutoff)
  OBVIOUS
<1>1. CASE \E i \in 1..(upToP - 1) : t = Performances[i].available
  <2>1. PICK i \in 1..(upToP - 1) : t = Performances[i].available
    BY <1>1
  <2>2. i \in 1..Len(Performances) /\ AvailableTimes(Performances)[i] \in Int
    BY PerformancesChronicled DEF Chronicle
  <2>3. t = AvailableTimes(Performances)[i]
    BY <2>1, <2>2 DEF AvailableTimes
  <2> QED BY <2>2, <2>3
<1>2. CASE \E p \in WalkPlayers : latest[p] # NoTransfer /\ t = latest[p].observed
  <2>1. PICK p \in WalkPlayers : latest[p] # NoTransfer /\ t = latest[p].observed
    BY <1>2
  <2>2. PICK i \in 1..(upToT - 1) : latest[p] = Transfers[i]
    BY <2>1 DEF LatestKept
  <2>3. i \in 1..Len(Transfers) /\ ObservedTimes(Transfers)[i] \in Int
    BY TransfersChronicled DEF Chronicle
  <2>4. t = ObservedTimes(Transfers)[i]
    BY <2>1, <2>2, <2>3 DEF ObservedTimes
  <2> QED BY <2>3, <2>4
<1>3. CASE \E c, a : a \in Reports(row, c, cutoff) /\ t = a.observed
  <2>1. PICK c, a : a \in Reports(row, c, cutoff) /\ t = a.observed
    BY <1>3
  <2>2. a \in pwContext.availability /\ a.observed < cutoff
    BY <2>1 DEF Reports
  <2>3. a.observed \in Int
    BY <2>2, ContextAssumption DEF AvailabilityObservation
  <2> QED BY <2>1, <2>2, <2>3
<1>4. \/ \E i \in 1..(upToP - 1) : t = Performances[i].available
      \/ \E p \in WalkPlayers : latest[p] # NoTransfer /\ t = latest[p].observed
      \/ \E c, a : a \in Reports(row, c, cutoff) /\ t = a.observed
  BY DEF InputTimes
<1> QED BY <1>1, <1>2, <1>3, <1>4

LEMMA PlayerRowStep == PlayerWalkInv /\ PlayerRow => PlayerWalkInv'
<1> SUFFICES ASSUME PlayerWalkInv, PlayerRow PROVE PlayerWalkInv'
  OBVIOUS
<1>1. /\ pwPass = "player" /\ pwPos <= Len(pwContext.rows)
      /\ UNCHANGED <<pwContext, pwStyle, pwShape, pwTacticalRows>>
  BY DEF PlayerRow
<1>2. PassKept /\ PlayerPassKept /\ RowsUseTheObservedPast /\ AbsenceRespected
  BY <1>1 DEF PlayerWalkInv
<1> DEFINE last == Len(pwContext.rows)
           row == pwContext.rows[pwPos]
           cutoff == RowCutoff(row)
           timesP == AvailableTimes(Performances)
           timesT == ObservedTimes(Transfers)
           upToP == Advance(timesP, pwPerformance, cutoff)
           upToT == Advance(timesT, pwTransfer, cutoff)
           history == AppliedHistory(upToP)
           latest == AppliedTransfers(upToT, cutoff)
           teams == [c \in {row.home, row.away} |-> PlayerTeam(row, c, history, latest, cutoff)]
           late == \E t \in InputTimes(row, upToP, latest, cutoff) : t >= cutoff
           entry == [id |-> row.id, teams |-> teams]
<1>3. /\ pwPerformance' = upToP /\ pwTransfer' = upToT
      /\ pwHistory' = history /\ pwLatest' = latest
      /\ IF late THEN pwPass' = "raised" /\ UNCHANGED <<pwPlayerRows, pwPos>>
         ELSE /\ pwPlayerRows' = Append(pwPlayerRows, entry)
              /\ pwPos' = pwPos + 1 /\ UNCHANGED pwPass
  BY DEF PlayerRow
<1>4. /\ last \in Nat /\ pwPos \in 1..last /\ row \in ContextRow /\ cutoff \in Int
  BY <1>1, <1>2, RowsInTime DEF PassKept
<1>5. /\ Len(Performances) \in Nat /\ Len(timesP) = Len(Performances)
      /\ \A i \in 1..Len(Performances) : timesP[i] \in Int
      /\ Len(Transfers) \in Nat /\ Len(timesT) = Len(Transfers)
      /\ \A i \in 1..Len(Transfers) : timesT[i] \in Int
  BY <1>2, PerformancesChronicled, TransfersChronicled DEF PassKept, Chronicle
<1>6. Behind(timesP, pwPerformance) /\ Behind(timesT, pwTransfer)
  BY <1>2 DEF PlayerPassKept
<1>7. HistoryKept(history, upToP) /\ HistorySeen(row, history) /\ LatestKept(latest, upToT)
  BY <1>2, <1>4, HistoryApplied, TransfersApplied
<1> HIDE DEF timesP, timesT, upToP, upToT, history, latest
<1>8. /\ upToP \in 1..(Len(Performances) + 1)
      /\ \A i \in 1..(upToP - 1) : timesP[i] < cutoff
      /\ \A k \in (pwPos + 1)..last : \A i \in 1..(upToP - 1) :
           timesP[i] < RowCutoff(pwContext.rows[k])
  <2>1. /\ pwPerformance \in 1..(Len(Performances) + 1)
        /\ upToP \in pwPerformance..(Len(Performances) + 1)
        /\ \A i \in 1..(upToP - 1) : timesP[i] < cutoff
        /\ \A k \in (pwPos + 1)..last : \A i \in 1..(upToP - 1) :
             timesP[i] < RowCutoff(pwContext.rows[k])
    BY <1>2, <1>4, <1>5, <1>6, MovedBehind DEF upToP
  <2> QED BY <2>1
<1>9. /\ upToT \in 1..(Len(Transfers) + 1)
      /\ \A i \in 1..(upToT - 1) : timesT[i] < cutoff
      /\ \A k \in (pwPos + 1)..last : \A i \in 1..(upToT - 1) :
           timesT[i] < RowCutoff(pwContext.rows[k])
  <2>1. /\ pwTransfer \in 1..(Len(Transfers) + 1)
        /\ upToT \in pwTransfer..(Len(Transfers) + 1)
        /\ \A i \in 1..(upToT - 1) : timesT[i] < cutoff
        /\ \A k \in (pwPos + 1)..last : \A i \in 1..(upToT - 1) :
             timesT[i] < RowCutoff(pwContext.rows[k])
    BY <1>2, <1>4, <1>5, <1>6, MovedBehind DEF upToT
  <2> QED BY <2>1
<1>10. ~late
  BY <1>2, <1>4, <1>7, <1>8, <1>9, NothingLate DEF PassKept, timesP, timesT
<1>11. /\ pwPlayerRows' = Append(pwPlayerRows, entry) /\ pwPos' = pwPos + 1
       /\ pwPass' = "player"
  BY <1>1, <1>3, <1>10
<1>12. SquadObserved(row, teams) /\ AbsentOnlyInTheirPosition(row, teams)
  <2>1. pwContext \in Contexts
    BY <1>2 DEF PassKept
  <2>2. SquadObserved(row, teams)
    BY <1>4, <1>7, <1>9, <2>1, SquadsFound
  <2>3. AbsentOnlyInTheirPosition(row, teams)
    BY <1>4, <1>7, <2>1, AbsenceFound
  <2> QED BY <2>2, <2>3
<1>13. entry.teams = teams
  OBVIOUS
<1> HIDE DEF late, teams, entry, row, cutoff, last
<1>14. /\ pwPlayerRows' \in Seq(ToSet(pwPlayerRows'))
       /\ Len(pwPlayerRows) = pwPos - 1 /\ Len(pwPlayerRows') = Len(pwPlayerRows) + 1
       /\ DOMAIN pwPlayerRows' = 1..(Len(pwPlayerRows) + 1)
       /\ DOMAIN pwPlayerRows = 1..Len(pwPlayerRows)
       /\ \A k \in 1..Len(pwPlayerRows) : pwPlayerRows'[k] = pwPlayerRows[k]
       /\ pwPlayerRows'[Len(pwPlayerRows) + 1] = entry
  <2>3. PICK q : q = pwPlayerRows
    OBVIOUS
  <2>4. PICK e : e = entry
    OBVIOUS
  <2>5. PICK r : r = pwPlayerRows'
    OBVIOUS
  <2>6. q \in Seq(ToSet(q)) /\ Len(q) = pwPos - 1
    BY <1>2, <2>3 DEF PassKept, PlayerPassKept
  <2>7. r = Append(q, e)
    BY <1>11, <2>3, <2>4, <2>5
  <2>8. Extends(r, q, e)
    BY <2>6, <2>7, AppendedEntry
  <2>9. Len(pwPlayerRows) = pwPos - 1
    BY <1>2 DEF PlayerPassKept
  <2> QED BY <2>3, <2>4, <2>5, <2>8, <2>9 DEF Extends
<1>15. PassKept'
  BY <1>1, <1>2, <1>4, <1>11, <1>14 DEF PassKept, last
<1>16. ASSUME NEW k \in DOMAIN pwPlayerRows'
       PROVE  /\ SquadObserved(pwContext.rows[k], pwPlayerRows[k].teams)'
              /\ AbsentOnlyInTheirPosition(pwContext.rows[k], pwPlayerRows[k].teams)'
  <2> PICK r, t : r = pwContext'.rows[k] /\ t = pwPlayerRows'[k].teams
    OBVIOUS
  <2>1. SquadObserved(r, t) /\ AbsentOnlyInTheirPosition(r, t)
    <3>1. CASE k \in 1..Len(pwPlayerRows)
      <4>1. r = pwContext.rows[k] /\ t = pwPlayerRows[k].teams
        BY <1>1, <1>14, <3>1
      <4>2. /\ SquadObserved(pwContext.rows[k], pwPlayerRows[k].teams)
            /\ AbsentOnlyInTheirPosition(pwContext.rows[k], pwPlayerRows[k].teams)
        BY <1>2, <1>14, <3>1 DEF RowsUseTheObservedPast, AbsenceRespected
      <4> QED BY <4>1, <4>2
    <3>2. CASE k \notin 1..Len(pwPlayerRows)
      <4>1. k = Len(pwPlayerRows) + 1 /\ k = pwPos
        BY <1>4, <1>14, <3>2
      <4>2. r = row /\ t = teams
        BY <1>1, <1>13, <1>14, <4>1 DEF row
      <4> QED BY <1>12, <4>2
    <3> QED BY <3>1, <3>2
  <2>2. SquadObserved(r, t)' /\ AbsentOnlyInTheirPosition(r, t)'
    BY <1>1, <2>1, ContextKept
  <2> QED BY <2>2
<1>17. RowsUseTheObservedPast' /\ AbsenceRespected'
  <2>1. pwTacticalRows' = <<>>
    BY <1>1, <1>2 DEF PlayerPassKept
  <2>2. DOMAIN <<>> = {}
    OBVIOUS
  <2>3. DOMAIN pwTacticalRows' = {}
    BY <2>1, <2>2
  <2> QED BY <1>11, <1>16, <2>3 DEF RowsUseTheObservedPast, AbsenceRespected
<1>18. PlayerPassKept'
  <2>1. Behind(AvailableTimes(Performances), pwPerformance)'
    <3> PICK times, index : times = AvailableTimes(Performances)' /\ index = pwPerformance'
      OBVIOUS
    <3>1. times = timesP /\ index = upToP
      BY <1>1, <1>3, ListsKept DEF AvailableTimes, timesP
    <3>2. Behind(times, index)'
      BY <1>1, <1>5, <1>8, <1>11, <3>1 DEF Behind, last
    <3> QED BY <3>2
  <2>2. Behind(ObservedTimes(Transfers), pwTransfer)'
    <3> PICK times, index : times = ObservedTimes(Transfers)' /\ index = pwTransfer'
      OBVIOUS
    <3>1. times = timesT /\ index = upToT
      BY <1>1, <1>3, ListsKept DEF ObservedTimes, timesT
    <3>2. Behind(times, index)'
      BY <1>1, <1>5, <1>9, <1>11, <3>1 DEF Behind, last
    <3> QED BY <3>2
  <2>3. HistoryKept(pwHistory, pwPerformance)'
    <3> PICK h, m : h = pwHistory' /\ m = pwPerformance'
      OBVIOUS
    <3>1. HistoryKept(h, m)
      BY <1>3, <1>7
    <3>2. HistoryKept(h, m)'
      BY <1>1, <3>1, HistoriesKept
    <3> QED BY <3>2
  <2>4. LatestKept(pwLatest, pwTransfer)'
    <3> PICK h, m : h = pwLatest' /\ m = pwTransfer'
      OBVIOUS
    <3>1. LatestKept(h, m)
      BY <1>3, <1>7
    <3>2. LatestKept(h, m)'
      BY <1>1, <3>1, HistoriesKept
    <3> QED BY <3>2
  <2>5. Len(pwPlayerRows') = pwPos' - 1
    BY <1>4, <1>11, <1>14
  <2>6. pwStyle' = 1 /\ pwShape' = 1 /\ pwTacticalRows' = <<>>
    BY <1>1, <1>2 DEF PlayerPassKept
  <2> QED BY <2>1, <2>2, <2>3, <2>4, <2>5, <2>6 DEF PlayerPassKept
<1> QED BY <1>11, <1>15, <1>17, <1>18 DEF PlayerWalkInv

LEMMA TacticalRowStep == PlayerWalkInv /\ TacticalRow => PlayerWalkInv'
<1> SUFFICES ASSUME PlayerWalkInv, TacticalRow PROVE PlayerWalkInv'
  OBVIOUS
<1>1. /\ pwPass = "tactical" /\ pwPos <= Len(pwContext.rows)
      /\ UNCHANGED <<pwContext, pwPlayerRows>>
  BY DEF TacticalRow
<1>2. PassKept /\ TacticalPassKept /\ RowsUseTheObservedPast /\ AbsenceRespected
  BY <1>1 DEF PlayerWalkInv
<1> DEFINE last == Len(pwContext.rows)
           row == pwContext.rows[pwPos]
           cutoff == RowCutoff(row)
           times == AvailableTimes(Styles)
           shapeTimes == AvailableTimes(ObservedShapes)
           upTo == Advance(times, pwStyle, cutoff)
           upToShape == Advance(shapeTimes, pwShape, cutoff)
           teams == [c \in {row.home, row.away} |-> TacticalTeam(c, upTo, upToShape)]
           used == UNION {ToSet(teams[c].styles) \cup ToSet(teams[c].shapes)
                            : c \in DOMAIN teams}
           late == \E x \in used : x.available >= cutoff
           entry == [id |-> row.id, teams |-> teams]
<1>3. /\ pwStyle' = upTo /\ pwShape' = upToShape
      /\ IF late THEN pwPass' = "raised" /\ UNCHANGED <<pwTacticalRows, pwPos>>
         ELSE /\ pwTacticalRows' = Append(pwTacticalRows, entry)
              /\ pwPos' = pwPos + 1 /\ UNCHANGED pwPass
  BY DEF TacticalRow
<1>4. /\ last \in Nat /\ pwPos \in 1..last /\ row \in ContextRow /\ cutoff \in Int
  BY <1>1, <1>2, RowsInTime DEF PassKept
<1>5. /\ Len(Styles) \in Nat /\ Len(times) = Len(Styles)
      /\ \A i \in 1..Len(Styles) : times[i] \in Int
      /\ \A i, j \in 1..Len(Styles) : i < j => times[i] <= times[j]
      /\ Len(ObservedShapes) \in Nat /\ Len(shapeTimes) = Len(ObservedShapes)
      /\ \A i \in 1..Len(ObservedShapes) : shapeTimes[i] \in Int
  BY <1>2, StylesChronicled, ShapesChronicled DEF PassKept, Chronicle
<1>6. Behind(times, pwStyle) /\ Behind(shapeTimes, pwShape)
  BY <1>2 DEF TacticalPassKept
<1>7. \A c \in {row.home, row.away} :
        /\ teams[c].shapes = RecentOf(ObservedShapes, upToShape, c)
        /\ DOMAIN teams = {row.home, row.away}
  BY DEF TacticalTeam
<1>8. teams = [c \in {row.home, row.away} |-> TacticalTeam(c, upTo, upToShape)]
  OBVIOUS
<1>9. DOMAIN teams = {row.home, row.away} /\ entry.teams = teams
  OBVIOUS
<1> HIDE DEF times, shapeTimes, upTo, upToShape, teams, entry
<1>10. /\ upTo \in 1..(Len(Styles) + 1)
       /\ \A i \in 1..Len(Styles) : i < upTo <=> times[i] < cutoff
       /\ \A k \in (pwPos + 1)..last : \A i \in 1..(upTo - 1) :
            times[i] < RowCutoff(pwContext.rows[k])
  <2>1. /\ pwStyle \in 1..(Len(Styles) + 1)
        /\ upTo \in pwStyle..(Len(Styles) + 1)
        /\ \A k \in (pwPos + 1)..last : \A i \in 1..(upTo - 1) :
             times[i] < RowCutoff(pwContext.rows[k])
    BY <1>2, <1>4, <1>5, <1>6, MovedBehind DEF upTo
  <2>2. \A i \in 1..(pwStyle - 1) : times[i] < cutoff
    <3>1. pwPos \in pwPos..last
      BY <1>4
    <3> QED BY <1>6, <3>1 DEF Behind
  <2>3. \A i \in 1..Len(Styles) : i < upTo <=> times[i] < cutoff
    BY <1>4, <1>5, <2>1, <2>2, AdvancePasses DEF upTo
  <2> QED BY <2>1, <2>3
<1>11. /\ upToShape \in 1..(Len(ObservedShapes) + 1)
       /\ \A i \in 1..(upToShape - 1) : shapeTimes[i] < cutoff
       /\ \A k \in (pwPos + 1)..last : \A i \in 1..(upToShape - 1) :
            shapeTimes[i] < RowCutoff(pwContext.rows[k])
  <2>1. /\ pwShape \in 1..(Len(ObservedShapes) + 1)
        /\ upToShape \in pwShape..(Len(ObservedShapes) + 1)
        /\ \A i \in 1..(upToShape - 1) : shapeTimes[i] < cutoff
        /\ \A k \in (pwPos + 1)..last : \A i \in 1..(upToShape - 1) :
             shapeTimes[i] < RowCutoff(pwContext.rows[k])
    BY <1>2, <1>4, <1>5, <1>6, MovedBehind DEF upToShape
  <2> QED BY <2>1
<1>12. /\ StylesObserved(row, teams)
       /\ \A c \in {row.home, row.away} : \A x \in ToSet(teams[c].styles) :
            x.available < cutoff /\ x.available \in Int
  <2>1. pwContext \in Contexts
    BY <1>2 DEF PassKept
  <2> QED BY <1>8, <1>10, <2>1, StylesFound DEF times
<1>13. ASSUME NEW c \in {row.home, row.away}, NEW x \in ToSet(teams[c].shapes)
       PROVE  x.available < cutoff /\ x.available \in Int
  <2> HIDE DEF row, cutoff
  <2>1. PICK limit, m : limit = cutoff /\ m = upToShape
    OBVIOUS
  <2>2. /\ m \in 1..(Len(ObservedShapes) + 1) /\ pwContext \in Contexts
        /\ \A i \in 1..(m - 1) : AvailableTimes(ObservedShapes)[i] < limit
    BY <1>2, <1>11, <2>1 DEF PassKept, shapeTimes
  <2>3. x \in ToSet(RecentOf(ObservedShapes, m, c))
    BY <1>7, <1>13, <2>1
  <2>4. x.available < limit /\ x.available \in Int
    BY <2>2, <2>3, ShapesPast
  <2> QED BY <2>1, <2>4
<1>14. ~late
  <2> SUFFICES ASSUME NEW c \in {row.home, row.away},
                      NEW x \in ToSet(teams[c].styles) \cup ToSet(teams[c].shapes)
               PROVE  ~(x.available >= cutoff)
    BY <1>9
  <2>1. x.available < cutoff /\ x.available \in Int
    BY <1>12, <1>13
  <2> HIDE DEF cutoff
  <2> QED BY <1>4, <2>1
<1>15. /\ pwTacticalRows' = Append(pwTacticalRows, entry) /\ pwPos' = pwPos + 1
       /\ pwPass' = "tactical"
  BY <1>1, <1>3, <1>14
<1> HIDE DEF late, used, row, cutoff, last
<1>16. /\ pwTacticalRows' \in Seq(ToSet(pwTacticalRows'))
       /\ Len(pwTacticalRows) = pwPos - 1 /\ Len(pwTacticalRows') = Len(pwTacticalRows) + 1
       /\ DOMAIN pwTacticalRows' = 1..(Len(pwTacticalRows) + 1)
       /\ DOMAIN pwTacticalRows = 1..Len(pwTacticalRows)
       /\ \A k \in 1..Len(pwTacticalRows) : pwTacticalRows'[k] = pwTacticalRows[k]
       /\ pwTacticalRows'[Len(pwTacticalRows) + 1] = entry
  <2>3. PICK q : q = pwTacticalRows
    OBVIOUS
  <2>4. PICK e : e = entry
    OBVIOUS
  <2>5. PICK r : r = pwTacticalRows'
    OBVIOUS
  <2>6. q \in Seq(ToSet(q))
    BY <1>2, <2>3 DEF PassKept
  <2>7. r = Append(q, e)
    BY <1>15, <2>3, <2>4, <2>5
  <2>8. Extends(r, q, e)
    BY <2>6, <2>7, AppendedEntry
  <2>9. Len(pwTacticalRows) = pwPos - 1
    BY <1>2 DEF TacticalPassKept
  <2> QED BY <2>3, <2>4, <2>5, <2>8, <2>9 DEF Extends
<1>17. PassKept'
  BY <1>1, <1>2, <1>4, <1>15, <1>16 DEF PassKept, last
<1>18. ASSUME NEW k \in DOMAIN pwPlayerRows'
       PROVE  /\ SquadObserved(pwContext.rows[k], pwPlayerRows[k].teams)'
              /\ AbsentOnlyInTheirPosition(pwContext.rows[k], pwPlayerRows[k].teams)'
  <2> PICK r, t : r = pwContext'.rows[k] /\ t = pwPlayerRows'[k].teams
    OBVIOUS
  <2>1. SquadObserved(r, t) /\ AbsentOnlyInTheirPosition(r, t)
    BY <1>1, <1>2 DEF RowsUseTheObservedPast, AbsenceRespected
  <2>2. SquadObserved(r, t)' /\ AbsentOnlyInTheirPosition(r, t)'
    BY <1>1, <2>1, ContextKept
  <2> QED BY <2>2
<1>19. ASSUME NEW k \in DOMAIN pwTacticalRows'
       PROVE  StylesObserved(pwContext.rows[k], pwTacticalRows[k].teams)'
  <2> PICK r, t : r = pwContext'.rows[k] /\ t = pwTacticalRows'[k].teams
    OBVIOUS
  <2>1. StylesObserved(r, t)
    <3>1. CASE k \in 1..Len(pwTacticalRows)
      <4>1. r = pwContext.rows[k] /\ t = pwTacticalRows[k].teams
        BY <1>1, <1>16, <3>1
      <4>2. StylesObserved(pwContext.rows[k], pwTacticalRows[k].teams)
        BY <1>2, <1>16, <3>1 DEF RowsUseTheObservedPast
      <4> QED BY <4>1, <4>2
    <3>2. CASE k \notin 1..Len(pwTacticalRows)
      <4>1. k = Len(pwTacticalRows) + 1 /\ k = pwPos
        BY <1>4, <1>16, <3>2
      <4>2. r = row /\ t = teams
        BY <1>1, <1>9, <1>16, <4>1 DEF row
      <4> QED BY <1>12, <4>2
    <3> QED BY <3>1, <3>2
  <2>2. StylesObserved(r, t)'
    BY <1>1, <2>1, ContextKept
  <2> QED BY <2>2
<1>20. RowsUseTheObservedPast' /\ AbsenceRespected'
  BY <1>15, <1>18, <1>19 DEF RowsUseTheObservedPast, AbsenceRespected
<1>21. TacticalPassKept'
  <2>1. Behind(AvailableTimes(Styles), pwStyle)'
    <3> PICK moments, index : moments = AvailableTimes(Styles)' /\ index = pwStyle'
      OBVIOUS
    <3>1. moments = times /\ index = upTo
      BY <1>1, <1>3, ListsKept DEF AvailableTimes, times
    <3>2. Behind(moments, index)'
      BY <1>1, <1>5, <1>10, <1>15, <3>1 DEF Behind, last
    <3> QED BY <3>2
  <2>2. Behind(AvailableTimes(ObservedShapes), pwShape)'
    <3> PICK moments, index : moments = AvailableTimes(ObservedShapes)' /\ index = pwShape'
      OBVIOUS
    <3>1. moments = shapeTimes /\ index = upToShape
      BY <1>1, <1>3, ListsKept DEF AvailableTimes, shapeTimes
    <3>2. Behind(moments, index)'
      BY <1>1, <1>5, <1>11, <1>15, <3>1 DEF Behind, last
    <3> QED BY <3>2
  <2>3. Len(pwTacticalRows') = pwPos' - 1
    BY <1>4, <1>15, <1>16
  <2> QED BY <2>1, <2>2, <2>3 DEF TacticalPassKept
<1> QED BY <1>15, <1>17, <1>20, <1>21 DEF PlayerWalkInv

LEMMA PlayerWalkKeeps == PlayerWalkInv /\ [PlayerWalkNext]_playerWalkVars => PlayerWalkInv'
<1> SUFFICES ASSUME PlayerWalkInv, [PlayerWalkNext]_playerWalkVars PROVE PlayerWalkInv'
  OBVIOUS
<1>1. CASE LoadPlayerContext
  BY <1>1, PassGoesOn DEF LoadPlayerContext
<1>2. CASE PlayerRow
  BY <1>2, PlayerRowStep
<1>3. CASE StartTactics
  BY <1>3, StartTacticsStep
<1>4. CASE TacticalRow
  BY <1>4, TacticalRowStep
<1>5. CASE FinishTactics
  BY <1>5, PassGoesOn DEF FinishTactics
<1>6. CASE UNCHANGED playerWalkVars
  <2>1. pwPass \in {"load", "player", "tactical", "done", "rejected"}
    BY DEF PlayerWalkInv, PassKept
  <2> QED BY <1>6, <2>1, PassGoesOn DEF playerWalkVars
<1> QED BY <1>1, <1>2, <1>3, <1>4, <1>5, <1>6 DEF PlayerWalkNext

\* Both passes, at every step: the heads stand where the cutoffs of the rows made so far
\* put them, what was read is what had been observed by then, and the rows say so.
THEOREM PlayerWalkInvariance == PlayerWalkSpec => []PlayerWalkInv
  BY PlayerWalkStarts, PlayerWalkKeeps, PTL DEF PlayerWalkSpec

\* Every row of both passes was made of what had been observed before its cutoff and
\* of nothing later, and the check that would stop the build never does.
THEOREM RowsUseThePast == PlayerWalkSpec => []RowsUseTheObservedPast
<1>1. PlayerWalkInv => RowsUseTheObservedPast
  BY DEF PlayerWalkInv
<1> QED BY <1>1, PlayerWalkInvariance, PTL

\* A player who is reported out or suspended never takes a place from one who is
\* neither, be he doubtful, and who started lately, save in the formation of
\* another position.
THEOREM AbsenceIsRespected == PlayerWalkSpec => []AbsenceRespected
<1>1. PlayerWalkInv => AbsenceRespected
  BY DEF PlayerWalkInv
<1> QED BY <1>1, PlayerWalkInvariance, PTL
===============================================================================

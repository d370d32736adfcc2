----------------------------- MODULE GoalTraining -----------------------------
(***************************************************************************)
(* Retraining of the local goal model (prem_engine_api.local_training), the *)
(* ingestions that change the results it trains on, and the choice of an    *)
(* artifact by a forecast (prem_engine_api.forecasting.inference).          *)
(*                                                                          *)
(* A fixture ingestion is one transaction and stamps everything it writes   *)
(* with one instant: the clock counts ingestions, and an instant is the     *)
(* number of the ingestion that recorded it. A training reads the cutoff,   *)
(* then the data set, fits, registers the revision, writes the files and    *)
(* activates it, in separate transactions; ingestions, other trainers and   *)
(* the end of the process may come in between.                              *)
(*                                                                          *)
(* Scores are left out: two results of a match differ in their instant. A   *)
(* match is "off" while it is postponed or cancelled. An accepted result is *)
(* the newest one of its match that is not voided, and every result that is *)
(* not voided is training_eligible (ActualResultRevision).                  *)
(***************************************************************************)
EXTENDS Integers

CONSTANTS
  Match, Trainer,
  Weeks,            \* matchweeks of the season
  WeekOf,           \* the matchweek of each match
  MaxClock          \* bound: ingestions that change something

ASSUME SeasonAssumption ==
  /\ Weeks \in Nat
  /\ WeekOf \in [Match -> 1..Weeks]
  /\ MaxClock \in Nat

VARIABLES
  clock,            \* instant of the last ingestion
  results,          \* rows of actual_result_revisions
  off,              \* matches that are postponed or cancelled
  rows,             \* rows of local_model_artifacts, by matchweek and revision
  installed,        \* the goal model named by local_installations
  pc,               \* of each trainer
  job               \* the artifact it is building (Baseline: none)

football == <<clock, results, off>>
registry == <<rows, installed>>
trainers == <<pc, job>>
vars == <<football, registry, trainers>>

Week == 1..Weeks
Sample == [match : Match, at : Nat]
Artifact == [week : Nat, revision : Nat, cutoff : Nat, trained : SUBSET Sample]
Baseline == [week |-> 0, revision |-> 0, cutoff |-> 0, trained |-> {}]
Row == [status : {"running", "succeeded", "failed"}, active : BOOLEAN,
        cutoff : Nat, file : Artifact]

TypeOK ==
  /\ clock \in 0..MaxClock
  /\ results \subseteq [match : Match, at : 1..clock, voided : 0..clock]
  /\ off \subseteq Match
  /\ DOMAIN rows \subseteq Week \X (Nat \ {0})
  /\ rows \in [DOMAIN rows -> Row]
  /\ installed \in Artifact
  /\ pc \in [Trainer -> {"idle", "cutoff", "fit", "write"}]
  /\ job \in [Trainer -> Artifact]

Init ==
  /\ clock = 0 /\ results = {} /\ off = {}
  /\ rows = [key \in {} |-> Baseline] /\ installed = Baseline
  /\ pc = [t \in Trainer |-> "idle"]
  /\ job = [t \in Trainer |-> Baseline]

-------------------------------------------------------------------------------
(* Ingestion: what a fixture synchronization may do to each match.           *)

Outcome == {"keep", "score", "postpone", "reschedule", "replay"}

Standing(m) == {r \in results : r.match = m /\ r.voided = 0}

\* keep: nothing new. score: a first or a corrected final result. postpone:
\* postponed or cancelled. reschedule: a new kickoff. replay: a new kickoff and
\* a final result in the same payload. The guards drop cases equal to others.
Possible(m, outcome) ==
  \/ outcome \in {"keep", "score"}
  \/ outcome = "postpone" /\ m \notin off
  \/ outcome = "reschedule" /\ (m \in off \/ Standing(m) # {})
  \/ outcome = "replay" /\ Standing(m) # {}

\* postpone_match, cancel_match and reschedule_match void the standing results
\* (_void_results_for_replay); a score is appended by _upsert_actual_result.
Ingest(change) ==
  LET now == clock + 1
      Told(kinds) == {m \in Match : change[m] \in kinds}
      Voids(r) == r.voided = 0 /\ r.match \in Told({"postpone", "reschedule", "replay"})
  IN /\ clock < MaxClock
     /\ \A m \in Match : Possible(m, change[m])
     /\ Told({"keep"}) # Match
     /\ clock' = now
     /\ results' = {IF Voids(r) THEN [r EXCEPT !.voided = now] ELSE r : r \in results}
                     \cup [match : Told({"score", "replay"}), at : {now}, voided : {0}]
     /\ off' = (off \cap Told({"keep"})) \cup Told({"postpone"})
     /\ UNCHANGED <<registry, trainers>>

-------------------------------------------------------------------------------
(* next_training_cutoff                                                      *)

Included(k) == {m \in Match : WeekOf[m] = k /\ m \notin off}
Incomplete(k) == \E m \in Included(k) : Standing(m) = {}

\* coalesce(voided_at, observed_at) over the matches up to matchweek k
ChangeTimesIgnoringVoids(k) == {r.at : r \in {s \in results : WeekOf[s.match] <= k}}
ChangeTimes(k) ==
  {IF r.voided = 0 THEN r.at ELSE r.voided : r \in {s \in results : WeekOf[s.match] <= k}}

IsLatestTime(c, S) == c \in S /\ \A d \in S : d <= c

\* Successful revisions of matchweek k, and their newest one (0: none).
Revisions(k) == {key[2] : key \in {q \in DOMAIN rows : q[1] = k /\ rows[q].status = "succeeded"}}
IsLatest(r, k) == IsLatestTime(r, Revisions(k) \cup {0})

UpToDateOnceBuilt(k) == Revisions(k) # {}
UpToDate(k) ==
  \E r \in Revisions(k) :
    IsLatest(r, k) /\ \A d \in ChangeTimes(k) : d <= rows[<<k, r>>].cutoff

\* The loop stops at the first matchweek that is not empty, and not complete and
\* built; it returns a cutoff only if that matchweek is complete.
Stops(k) == Included(k) # {} /\ (Incomplete(k) \/ ~UpToDate(k))
NextWeek(k) ==
  /\ k \in Week /\ Stops(k) /\ ~Incomplete(k)
  /\ \A j \in Week : j < k => ~Stops(j)

RevisionReused(r) == IF r = 0 THEN 1 ELSE r
RevisionFromZero(r) == IF r = 0 THEN 0 ELSE r + 1
NextRevision(r) == r + 1

Goto(t, stage) == pc' = [pc EXCEPT ![t] = stage]

ReadCutoff(t) ==
  /\ pc[t] = "idle"
  /\ \E k \in Week :
       /\ NextWeek(k)
       /\ \E r \in Revisions(k) \cup {0}, c \in ChangeTimes(k) :
            /\ IsLatest(r, k) /\ IsLatestTime(c, ChangeTimes(k))
            /\ job' = [job EXCEPT ![t] =
                 [week |-> k, revision |-> NextRevision(r),
                  cutoff |-> c, trained |-> {}]]
  /\ Goto(t, "cutoff")
  /\ UNCHANGED <<football, registry>>

\* _current_records: per match the newest eligible result observed by the cutoff.
KnownAnytime(m, c) == Standing(m)
Known(m, c) == {r \in Standing(m) : r.at <= c}
TrainingSet(k, c) ==
  {[match |-> r.match, at |-> r.at] : r \in
     {q \in results : /\ q \in Known(q.match, c)
                      /\ WeekOf[q.match] <= k /\ q.match \notin off
                      /\ \A p \in Known(q.match, c) : p.at <= q.at}}

ReadTrainingSet(t) ==
  /\ pc[t] = "cutoff"
  /\ job' = [job EXCEPT ![t].trained =
       TrainingSet(job[t].week, job[t].cutoff)]
  /\ Goto(t, "fit")
  /\ UNCHANGED <<football, registry>>

-------------------------------------------------------------------------------
(* train_next_local_goal_model after the fit                                 *)

Key(t) == <<job[t].week, job[t].revision>>
SetRow(key, row) ==
  rows' = [q \in DOMAIN rows \cup {key} |-> IF q = key THEN row ELSE rows[q]]

\* The row of this revision is created, or the one of an unfinished attempt is
\* taken over; its artifact_path is left as it was.
Running(t) ==
  [status |-> "running", active |-> FALSE, cutoff |-> job[t].cutoff,
   file |-> IF Key(t) \in DOMAIN rows THEN rows[Key(t)].file ELSE Baseline]

Register(t) ==
  /\ pc[t] = "fit"
  /\ SetRow(Key(t), Running(t))
  /\ Goto(t, "write")
  /\ UNCHANGED <<football, installed, job>>

\* _write_artifact raises: the row is marked failed and the error is passed on.
FailWrite(t) ==
  /\ pc[t] = "write"
  /\ SetRow(Key(t), [rows[Key(t)] EXCEPT !.status = "failed", !.active = FALSE])
  /\ Goto(t, "idle")
  /\ job' = [job EXCEPT ![t] = Baseline]
  /\ UNCHANGED <<football, installed>>

\* The files are written under a name made of their content, which no reader
\* knows before the last transaction: it moves the active flag, completes the
\* row with the path and checksum of the files, and renames the installation's
\* model.
Activate(t) ==
  /\ pc[t] = "write"
  /\ rows' = [q \in DOMAIN rows |->
       IF q = Key(t)
       THEN [rows[q] EXCEPT !.status = "succeeded", !.active = TRUE, !.file = job[t]]
       ELSE [rows[q] EXCEPT !.active = FALSE]]
  /\ installed' = job[t]
  /\ Goto(t, "idle")
  /\ job' = [job EXCEPT ![t] = Baseline]
  /\ UNCHANGED football

\* The process ends, or any other statement raises.
Abandon(t) ==
  /\ pc[t] # "idle"
  /\ Goto(t, "idle")
  /\ job' = [job EXCEPT ![t] = Baseline]
  /\ UNCHANGED <<football, registry>>

Active == {key \in DOMAIN rows : rows[key].status = "succeeded" /\ rows[key].active}

\* local_init at the start of the installation: the model of the active row, or
\* the bundled one.
InitializeBundled ==
  /\ installed' = Baseline
  /\ UNCHANGED <<football, rows, trainers>>
Initialize ==
  /\ installed' \in IF Active = {} THEN {Baseline} ELSE {rows[key].file : key \in Active}
  /\ UNCHANGED <<football, rows, trainers>>

Train(t) ==
  \/ ReadCutoff(t) \/ ReadTrainingSet(t) \/ Register(t)
  \/ FailWrite(t) \/ Activate(t) \/ Abandon(t)

Next ==
  \/ \E change \in [Match -> Outcome] : Ingest(change)
  \/ \E t \in Trainer : Train(t)
  \/ Initialize

Spec == Init /\ [][Next]_vars

\* The worker comes back to the training after every interval (LocalWorker);
\* a training that is tried again and again succeeds in the end.
FairSpec ==
  /\ Spec
  /\ \A t \in Trainer :
       /\ WF_vars(ReadCutoff(t)) /\ SF_vars(ReadTrainingSet(t))
       /\ SF_vars(Register(t)) /\ SF_vars(Activate(t))

-------------------------------------------------------------------------------
(* The forecast's view (OfficialArtifactForecastFactory)                     *)

\* Rows _goal_artifact may pick for a cutoff c: newest cutoff_at, then highest
\* revision; the query leaves the order of the remaining ties open.
Candidates(c) == {key \in DOMAIN rows : rows[key].status = "succeeded" /\ rows[key].cutoff < c}
Better(p, q) ==
  \/ rows[p].cutoff > rows[q].cutoff
  \/ rows[p].cutoff = rows[q].cutoff /\ p[2] > q[2]
Selectable(c) == {key \in Candidates(c) : \A q \in Candidates(c) : ~Better(q, key)}

Accepted(m) == {r \in Standing(m) : \A q \in Standing(m) : q.at <= r.at}
AcceptedBefore(c) ==
  {[match |-> r.match, at |-> r.at] : r \in {q \in results : q \in Accepted(q.match) /\ q.at < c}}

\* build: results newer than the artifact's own cutoff, of matches it has not seen.
Applied(file, c) ==
  {s \in AcceptedBefore(c) : s.at > file.cutoff /\ \A q \in file.trained : q.match # s.match}

-------------------------------------------------------------------------------
(* Properties                                                                *)

\* A forecast never learns from a result observed at or after its cutoff:
\* neither through the artifact it picks, whose row and files were written by
\* different transactions, nor from the results it applies (docs: "without
\* future-data leakage").
NoFutureData ==
  \A c \in 1..clock + 1 : \A key \in Selectable(c) :
    \A s \in rows[key].file.trained \cup Applied(rows[key].file, c) : s.at < c

\* The installation names the files of the one active row, whatever was
\* interrupted (train_next_local_goal_model, local_init).
InstallationNamesActive ==
  \/ Active = {} /\ installed = Baseline
  \/ \E key \in Active : Active = {key} /\ installed = rows[key].file

\* Every matchweek is up to date.
CaughtUp == \A k \in Week : Included(k) # {} /\ ~Stops(k)

\* Once every matchweek is up to date, no forecast rests on a voided result: the
\* void times of a prefix reach the cutoff of the artifact that is picked.
VoidedForgotten ==
  CaughtUp => \A key \in Selectable(clock + 1) : \A s \in rows[key].file.trained :
                \E r \in Standing(s.match) : r.at = s.at

\* One trainer's registry is an ArtifactCatalog: successful rows are never
\* changed or withdrawn, and one of them is always the active one.
Catalog == INSTANCE ArtifactCatalog WITH
  catalog <- {rows[key].file : key \in {q \in DOMAIN rows : rows[q].status = "succeeded"}},
  current <- IF \E key \in Active : TRUE THEN rows[CHOOSE key \in Active : TRUE].file ELSE Baseline
CatalogSpec == Catalog!CatalogSpec

\* Whatever was voided, corrected or postponed while a training was under way,
\* every complete prefix of the season ends up with an artifact of exactly its
\* accepted results.
AllBuilt ==
  \A k \in Week :
    Included(k) # {} /\ (\A j \in 1..k : ~Incomplete(j)) =>
      \E r \in Revisions(k) :
        /\ IsLatest(r, k)
        /\ rows[<<k, r>>].file.trained =
             {s \in AcceptedBefore(clock + 1) : WeekOf[s.match] <= k /\ s.match \notin off}
TrainingConverges == <>[]AllBuilt

===============================================================================

------------------------------ MODULE LocalWorker ------------------------------
(***************************************************************************)
(* The persistent local worker (prem_engine_api.local_worker): processes    *)
(* that share one LocalWorkerState row and use it as a lease and as a       *)
(* schedule for fixture synchronization, goal-model training and player     *)
(* synchronization.                                                         *)
(*                                                                          *)
(* Every helper of the worker opens one transaction and locks the row first *)
(* (_locked_state), so each helper is one atomic step here; everything a    *)
(* worker does between two helpers (HTTP calls, ingestion, fitting) is a    *)
(* stage of its program counter, in which time may pass, other workers may  *)
(* run and the process may die.                                             *)
(*                                                                          *)
(* An instant of the row is kept as the number of ticks until it (next_..., *)
(* lease_left) or since it (since_...), so that the state stays finite. A   *)
(* NULL or long past instant is NoTime: the code treats both alike. A       *)
(* worker reads the clock once per iteration and uses the reading in later  *)
(* claims: elapsed[w] is the age of that reading, and while an operation    *)
(* runs, the time since its claim.                                          *)
(***************************************************************************)
EXTENDS Integers

CONSTANTS
  Worker,            \* process slots; a restarted slot has a new worker id
  Nobody,            \* lease_owner IS NULL
  Departed,          \* lease_owner is the id of a process that has ended
  Lease,             \* local_worker_lease_seconds
  FixtureInterval,   \* local_fixture_sync_interval_seconds
  FullInterval,      \* local_full_fixture_sync_interval_seconds
  PlayerInterval,    \* local_player_sync_interval_seconds
  Retry,             \* local_worker_retry_seconds
  TrainingRetry,     \* local_goal_training_retry_seconds
  TrainingEnabled,   \* local_goal_training_enabled
  MaxLag,            \* longest age of a clock reading, and longest sleep
  MaxRun,            \* longest duration of an operation
  Weeks,             \* matchweeks of the season
  MaxNews,           \* bound: ingestions that change results
  MaxStops           \* bound: process exits and key changes

\* The durations are positive and longer than the time between a clock reading
\* and its use (30 s of heartbeat against 300 s of retry in config.py).
ASSUME DurationAssumption ==
  /\ MaxLag \in Nat \ {0}
  /\ \A d \in {Lease, FixtureInterval, FullInterval, PlayerInterval,
               Retry, TrainingRetry} : d \in Nat /\ d > MaxLag
  /\ MaxRun \in Nat
  /\ TrainingEnabled \in BOOLEAN

ASSUME BoundAssumption == Weeks \in Nat /\ MaxNews \in Nat /\ MaxStops \in Nat

ASSUME OwnerAssumption ==
  Nobody \notin Worker /\ Departed \notin Worker /\ Nobody # Departed

VARIABLES
  \* the LocalWorkerState row
  status, current_operation, lease_owner, lease_left,
  next_fixture, next_player, next_training,
  synced,            \* last_fixture_success_at IS NOT NULL
  since_success,     \* ticks since last_fixture_success_at
  since_full,        \* ticks since last_full_fixture_sync_at
  since_training,    \* ticks since last_training_at
  \* the processes
  pc, elapsed,
  cut,               \* cut[w]: matchweek w is fitting; 0 if its data has changed since
  \* the rest of the installation
  key,               \* kickoff_api_key is configured
  season,            \* the active season's row exists
  ready,             \* leading matchweeks whose results are complete
  fresh,             \* leading matchweeks with an up-to-date artifact
  news, stops        \* counters behind MaxNews and MaxStops

lease == <<lease_owner, lease_left, status, current_operation>>
schedule == <<next_fixture, next_player, next_training,
              synced, since_success, since_full, since_training>>
data == <<season, ready, fresh, cut, news>>
world == <<key, stops>>
vars == <<lease, schedule, pc, elapsed, data, world>>

Operation == {"fixture_full", "fixture_incremental", "goal_training", "player_context"}
FixtureOperation == {"fixture_full", "fixture_incremental"}

\* Stages of run() in which the worker holds, or has held, the lease.
FixtureStage == {"fixture_fetch", "fixture_ingested", "fixture_reported"}
TrainingStage == {"train", "fit", "trained"}
OperationStage == FixtureStage \cup TrainingStage \cup {"player_sync"}
\* Stages that are over within MaxLag ticks: the heartbeat's sleep and the wait
\* for the row and the short queries between the clock reading and the claims.
PromptStage == {"marking", "idle", "claim_fixture", "decide", "claim_training", "player"}
Stage == OperationStage \cup PromptStage \cup {"off", "setup"}

NoTime == 0 - MaxLag

TypeOK ==
  /\ status \in {"idle", "syncing", "setup_required", "error", "quota_limited"}
  /\ current_operation \in Operation \cup {"none"}
  /\ lease_owner \in Worker \cup {Nobody, Departed}
  /\ lease_left \in NoTime..Lease
  /\ next_fixture \in Int /\ next_fixture >= NoTime
  /\ next_player \in Int /\ next_player >= NoTime
  /\ next_training \in Int /\ next_training >= NoTime
  /\ synced \in BOOLEAN
  /\ since_success \in 0..FixtureInterval
  /\ since_full \in 0..(FullInterval + MaxLag)
  /\ since_training \in 0..MaxLag
  /\ pc \in [Worker -> Stage]
  /\ elapsed \in [Worker -> Nat]
  /\ cut \in [Worker -> 0..Weeks]
  /\ key \in BOOLEAN /\ season \in BOOLEAN
  /\ ready \in 0..Weeks /\ fresh \in 0..Weeks
  /\ news \in 0..MaxNews /\ stops \in 0..MaxStops

Init ==
  /\ status = "idle" /\ current_operation = "none"
  /\ lease_owner = Nobody /\ lease_left = NoTime
  /\ next_fixture = NoTime /\ next_player = NoTime /\ next_training = NoTime
  /\ synced = FALSE /\ since_success = FixtureInterval
  /\ since_full = FullInterval + MaxLag /\ since_training = MaxLag
  /\ pc = [w \in Worker |-> "off"]
  /\ elapsed = [w \in Worker |-> 0]
  /\ cut = [w \in Worker |-> 0]
  /\ key \in BOOLEAN /\ season = FALSE
  /\ ready = 0 /\ fresh = 0
  /\ news = 0 /\ stops = 0

-------------------------------------------------------------------------------
\* _lease_is_active, asked by a worker whose clock reading is l ticks old.
LeaseNeverExpires(l) == lease_owner # Nobody
LeaseActive(l) == lease_left > 0 - l

\* The test "next_..._at is None or next_..._at <= now" for the same reader.
DueEarly(next, l) == next <= 1 - l
Due(next, l) == next <= 0 - l

\* The test "lease_owner != worker_id" that every finishing helper starts with.
OwnsLeaseUnchecked(w) == TRUE
OwnsLease(w) == lease_owner = w

FullDueSinceSuccess(l) == since_success >= FullInterval + l
FullDue(l) == since_full >= FullInterval + l

\* next_training_cutoff finds a matchweek to train.
CutoffSkipsLatest == fresh + 1 < ready
CutoffExists == fresh < ready

Goto(w, stage) == pc' = [pc EXCEPT ![w] = stage]

Claim(w, operation, l) ==
  /\ status' = "syncing"
  /\ current_operation' = operation
  /\ lease_owner' = w
  /\ lease_left' = Lease - l

\* The four assignments every finishing helper makes.
UnleaseKeepsOperation ==
  /\ status' = "idle"
  /\ lease_owner' = Nobody
  /\ lease_left' = NoTime
  /\ UNCHANGED current_operation
UnleaseKeepsOwner ==
  /\ status' = "idle"
  /\ current_operation' = "none"
  /\ UNCHANGED <<lease_owner, lease_left>>
Unlease ==
  /\ status' = "idle"
  /\ current_operation' = "none"
  /\ lease_owner' = Nobody
  /\ lease_left' = NoTime

-------------------------------------------------------------------------------
\* run() up to its loop, with a provider key.
StartWithKey(w) ==
  /\ pc[w] = "off" /\ key
  /\ Goto(w, "idle")
  /\ elapsed' = [elapsed EXCEPT ![w] = 0]
  /\ UNCHANGED <<lease, schedule, data, world>>

\* run() without a provider key: the clock is read, _mark_setup_required waits for
\* the row and marks it once, then the process sleeps forever.
StartWithoutKey(w) ==
  /\ pc[w] = "off" /\ ~key
  /\ Goto(w, "marking")
  /\ elapsed' = [elapsed EXCEPT ![w] = 0]
  /\ UNCHANGED <<lease, schedule, data, world>>

MarkSetupRequired(w) ==
  /\ pc[w] = "marking"
  /\ Goto(w, "setup")
  /\ elapsed' = [elapsed EXCEPT ![w] = 0]
  /\ IF LeaseActive(elapsed[w])
     THEN UNCHANGED lease
     ELSE /\ status' = "setup_required"
          /\ current_operation' = "none"
          /\ lease_owner' = Nobody
          /\ lease_left' = NoTime
  /\ UNCHANGED <<schedule, data, world>>

\* The top of the loop: the clock is read; then the fixture claim waits for the row.
ReadClock(w) ==
  /\ pc[w] = "idle"
  /\ Goto(w, "claim_fixture")
  /\ elapsed' = [elapsed EXCEPT ![w] = 0]
  /\ UNCHANGED <<lease, schedule, data, world>>

\* _claim_fixture_sync
ClaimFixture(w) ==
  /\ pc[w] = "claim_fixture"
  /\ ~LeaseActive(elapsed[w]) /\ Due(next_fixture, elapsed[w])
  /\ Claim(w, IF FullDue(elapsed[w]) THEN "fixture_full" ELSE "fixture_incremental",
           elapsed[w])
  /\ Goto(w, "fixture_fetch")
  /\ elapsed' = [elapsed EXCEPT ![w] = 0]
  /\ UNCHANGED <<schedule, data, world>>

SkipFixture(w) ==
  /\ pc[w] = "claim_fixture"
  /\ LeaseActive(elapsed[w]) \/ ~Due(next_fixture, elapsed[w])
  /\ Goto(w, "decide")
  /\ UNCHANGED <<lease, schedule, elapsed, data, world>>

\* synchronize_local_fixtures commits the pages it fetched, whether or not the
\* worker still owns the lease. The lowest matchweek whose results changed is k
\* (k = Weeks + 1: none did): artifacts from k on are out of date, and so is
\* what another worker is fitting for a matchweek from k on.
CommitFixtures(w) ==
  /\ pc[w] = "fixture_fetch"
  /\ Goto(w, "fixture_ingested")
  /\ season' = TRUE
  /\ \/ UNCHANGED <<ready, fresh, cut, news>>
     \/ /\ news < MaxNews /\ news' = news + 1
        /\ \E k \in 1..Weeks :
             /\ ready' \in {n \in 0..Weeks : n >= k - 1 \/ n >= ready}
             /\ fresh' = IF fresh >= k THEN k - 1 ELSE fresh
             /\ cut' = [v \in Worker |-> IF cut[v] >= k THEN 0 ELSE cut[v]]
  /\ UNCHANGED <<lease, schedule, elapsed, world>>

\* _record_progress: renews the lease, or raises when the worker lost it (Fail).
RecordProgress(w) ==
  /\ pc[w] = "fixture_ingested" /\ OwnsLease(w)
  /\ lease_left' = Lease
  /\ Goto(w, "fixture_reported")
  /\ UNCHANGED <<status, current_operation, lease_owner, schedule,
                 elapsed, data, world>>

\* _finish_fixture_sync, and the fresh clock reading of the loop after it.
FinishFixture(w) ==
  /\ pc[w] = "fixture_reported" /\ OwnsLease(w)
  /\ Unlease
  /\ synced' = TRUE
  /\ since_success' = 0
  /\ since_full' = IF current_operation = "fixture_full" THEN 0 ELSE since_full
  /\ next_fixture' = FixtureInterval
  /\ next_training' = IF TrainingEnabled THEN 0 ELSE next_training
  /\ Goto(w, "decide")
  /\ elapsed' = [elapsed EXCEPT ![w] = 0]
  /\ UNCHANGED <<next_player, since_training, data, world>>

-------------------------------------------------------------------------------
\* _run_training_if_due before its claim: no training, no season, or no cutoff
\* (then _defer_training postpones the next look, unless a lease is active).
SkipTraining(w) ==
  /\ pc[w] = "decide"
  /\ ~TrainingEnabled \/ ~season
  /\ Goto(w, "player")
  /\ UNCHANGED <<lease, schedule, elapsed, data, world>>

DeferTraining(w) ==
  /\ pc[w] = "decide"
  /\ TrainingEnabled /\ season /\ ~CutoffExists
  /\ next_training' = IF LeaseActive(elapsed[w]) THEN next_training
                      ELSE FixtureInterval - elapsed[w]
  /\ Goto(w, "player")
  /\ UNCHANGED <<lease, next_fixture, next_player, synced, since_success, since_full,
                 since_training, elapsed, data, world>>

SeeCutoff(w) ==
  /\ pc[w] = "decide"
  /\ TrainingEnabled /\ season /\ CutoffExists
  /\ Goto(w, "claim_training")
  /\ UNCHANGED <<lease, schedule, elapsed, data, world>>

\* _claim_training, with the clock reading of the top of the loop and a cutoff
\* computed in an earlier transaction.
ClaimTrainingLooksAgain(w) ==
  /\ pc[w] = "claim_training"
  /\ ~LeaseActive(0) /\ Due(next_training, 0)
  /\ Claim(w, "goal_training", 0)
  /\ Goto(w, "train")
  /\ elapsed' = [elapsed EXCEPT ![w] = 0]
  /\ UNCHANGED <<schedule, data, world>>
ClaimTraining(w) ==
  /\ pc[w] = "claim_training"
  /\ ~LeaseActive(elapsed[w]) /\ Due(next_training, elapsed[w])
  /\ Claim(w, "goal_training", elapsed[w])
  /\ Goto(w, "train")
  /\ elapsed' = [elapsed EXCEPT ![w] = 0]
  /\ UNCHANGED <<schedule, data, world>>

TrainingNotDue(w) ==
  /\ pc[w] = "claim_training"
  /\ LeaseActive(elapsed[w]) \/ ~Due(next_training, elapsed[w])
  /\ Goto(w, "player")
  /\ UNCHANGED <<lease, schedule, elapsed, data, world>>

\* train_next_local_goal_model recomputes the cutoff; if it is gone the worker
\* raises (Fail).
BeginFit(w) ==
  /\ pc[w] = "train" /\ CutoffExists
  /\ cut' = [cut EXCEPT ![w] = fresh + 1]
  /\ Goto(w, "fit")
  /\ UNCHANGED <<lease, schedule, elapsed, season, ready, fresh, news, world>>

\* The artifact is activated, whether or not the worker still owns the lease.
ActivateArtifact(w) ==
  /\ pc[w] = "fit"
  /\ fresh' = IF cut[w] = fresh + 1 THEN cut[w] ELSE fresh
  /\ cut' = [cut EXCEPT ![w] = 0]
  /\ Goto(w, "trained")
  /\ UNCHANGED <<lease, schedule, elapsed, season, ready, news, world>>

\* _finish_training
FinishTraining(w) ==
  /\ pc[w] = "trained" /\ OwnsLease(w)
  /\ Unlease
  /\ next_training' = 0
  /\ since_training' = 0
  /\ Goto(w, "idle")
  /\ elapsed' = [elapsed EXCEPT ![w] = 0]
  /\ UNCHANGED <<next_fixture, next_player, synced, since_success, since_full, data, world>>

-------------------------------------------------------------------------------
\* _claim_player_sync
ClaimPlayer(w) ==
  /\ pc[w] = "player"
  /\ ~LeaseActive(elapsed[w]) /\ Due(next_player, elapsed[w]) /\ synced
  /\ Claim(w, "player_context", elapsed[w])
  /\ Goto(w, "player_sync")
  /\ elapsed' = [elapsed EXCEPT ![w] = 0]
  /\ UNCHANGED <<schedule, data, world>>

SkipPlayer(w) ==
  /\ pc[w] = "player"
  /\ LeaseActive(elapsed[w]) \/ ~Due(next_player, elapsed[w]) \/ ~synced
  /\ Goto(w, "idle")
  /\ elapsed' = [elapsed EXCEPT ![w] = 0]
  /\ UNCHANGED <<lease, schedule, data, world>>

\* _finish_player_sync
FinishPlayer(w) ==
  /\ pc[w] = "player_sync" /\ OwnsLease(w)
  /\ Unlease
  /\ next_player' = PlayerInterval
  /\ Goto(w, "idle")
  /\ elapsed' = [elapsed EXCEPT ![w] = 0]
  /\ UNCHANGED <<next_fixture, next_training, synced, since_success, since_full,
                 since_training, data, world>>

-------------------------------------------------------------------------------
\* The operation that failed, and only it, is due again after its retry delay.
ScheduleRetryNoTraining ==
  /\ next_fixture' = IF current_operation \in FixtureOperation THEN Retry ELSE next_fixture
  /\ next_player' = IF current_operation = "player_context" THEN Retry ELSE next_player
  /\ UNCHANGED next_training
ScheduleRetry ==
  /\ next_fixture' = IF current_operation \in FixtureOperation THEN Retry ELSE next_fixture
  /\ next_player' = IF current_operation = "player_context" THEN Retry ELSE next_player
  /\ next_training' = IF current_operation = "goal_training"
                      THEN TrainingRetry ELSE next_training

\* An operation raises, because it failed or because the worker no longer owns
\* the lease. _fail_operation touches the row only for the owner; the loop goes
\* back to sleep in every case.
Fail(w) ==
  /\ pc[w] \in OperationStage
  /\ IF OwnsLease(w)
     THEN /\ status' \in IF current_operation = "goal_training" THEN {"error"}
                        ELSE {"error", "quota_limited"}
          /\ ScheduleRetry
          /\ current_operation' = "none"
          /\ lease_owner' = Nobody
          /\ lease_left' = NoTime
     ELSE UNCHANGED <<lease, next_fixture, next_player, next_training>>
  /\ cut' = [cut EXCEPT ![w] = 0]
  /\ Goto(w, "idle")
  /\ elapsed' = [elapsed EXCEPT ![w] = 0]
  /\ UNCHANGED <<synced, since_success, since_full, since_training,
                 season, ready, fresh, news, world>>

-------------------------------------------------------------------------------
\* The process is killed: nothing is written, its id remains in the row.
Crash(w) ==
  /\ pc[w] # "off" /\ stops < MaxStops
  /\ stops' = stops + 1
  /\ lease_owner' = IF lease_owner = w THEN Departed ELSE lease_owner
  /\ cut' = [cut EXCEPT ![w] = 0]
  /\ Goto(w, "off")
  /\ elapsed' = [elapsed EXCEPT ![w] = 0]
  /\ UNCHANGED <<status, current_operation, lease_left, schedule,
                 season, ready, fresh, news, key>>

\* run() is cancelled or an exception escapes its loop: _release_owned_lease.
Stop(w) ==
  /\ pc[w] # "off" /\ stops < MaxStops
  /\ stops' = stops + 1
  /\ IF lease_owner = w THEN Unlease ELSE UNCHANGED lease
  /\ cut' = [cut EXCEPT ![w] = 0]
  /\ Goto(w, "off")
  /\ elapsed' = [elapsed EXCEPT ![w] = 0]
  /\ UNCHANGED <<schedule, season, ready, fresh, news, key>>

\* The owner of the installation sets or removes the key; processes read it when
\* they start.
ChangeKey ==
  /\ \A w \in Worker : pc[w] = "off"
  /\ stops < MaxStops /\ stops' = stops + 1
  /\ key' = ~key
  /\ UNCHANGED <<lease, schedule, pc, elapsed, data>>

ElapseForever(left) == left - 1
Elapse(left) == IF left > NoTime THEN left - 1 ELSE NoTime
Age(since, cap) == IF since < cap THEN since + 1 ELSE cap

\* How long a worker may stay where it is: the heartbeat and the queries before
\* a claim are short, an operation may outlast its lease.
Patience(stage) == IF stage \in PromptStage THEN MaxLag ELSE MaxRun
Timed(w) == pc[w] \in PromptStage \cup OperationStage

\* A tick of the clock.
Tick ==
  /\ \A w \in Worker : Timed(w) => elapsed[w] < Patience(pc[w])
  /\ lease_left' = Elapse(lease_left)
  /\ next_fixture' = Elapse(next_fixture)
  /\ next_player' = Elapse(next_player)
  /\ next_training' = Elapse(next_training)
  /\ since_success' = Age(since_success, FixtureInterval)
  /\ since_full' = Age(since_full, FullInterval + MaxLag)
  /\ since_training' = Age(since_training, MaxLag)
  /\ elapsed' = [w \in Worker |-> IF Timed(w) THEN elapsed[w] + 1 ELSE elapsed[w]]
  /\ UNCHANGED <<status, current_operation, lease_owner, synced, pc,
                 data, world>>

FixtureStep(w) ==
  \/ ReadClock(w) \/ ClaimFixture(w) \/ SkipFixture(w)
  \/ CommitFixtures(w) \/ RecordProgress(w) \/ FinishFixture(w)
TrainingStep(w) ==
  \/ SkipTraining(w) \/ DeferTraining(w) \/ SeeCutoff(w)
  \/ ClaimTraining(w) \/ TrainingNotDue(w)
  \/ BeginFit(w) \/ ActivateArtifact(w) \/ FinishTraining(w)
PlayerStep(w) == ClaimPlayer(w) \/ SkipPlayer(w) \/ FinishPlayer(w)
Start(w) == StartWithKey(w) \/ StartWithoutKey(w) \/ MarkSetupRequired(w)

Step(w) == FixtureStep(w) \/ TrainingStep(w) \/ PlayerStep(w) \/ Fail(w)

Next ==
  \/ \E w \in Worker : Start(w) \/ Step(w) \/ Crash(w) \/ Stop(w)
  \/ ChangeKey
  \/ Tick

Spec == Init /\ [][Next]_vars

\* The container restarts a worker that ended, the event loop runs every worker,
\* time passes, and every operation ends (provider calls and fits are bounded).
FairSpec ==
  /\ Spec
  /\ WF_vars(Tick)
  /\ \A w \in Worker : WF_vars(Start(w)) /\ WF_vars(Step(w))

-------------------------------------------------------------------------------
(***************************************************************************)
(* Safety                                                                   *)
(***************************************************************************)
\* The row says "syncing" exactly while somebody holds the lease, and names an
\* operation exactly then: no helper, exit or lost lease leaves the four
\* columns half written.
StatusMatchesLease ==
  /\ (lease_owner = Nobody) <=> (current_operation = "none")
  /\ (lease_owner = Nobody) <=> (status # "syncing")
  /\ lease_owner = Nobody => lease_left = NoTime

\* The operation in the row is the one its owner is in the middle of: a worker
\* that overran its lease and came back, or that finished, never owns the lease
\* of an operation it is not running.
OwnerRunsOperation ==
  \A w \in Worker : lease_owner = w =>
    \/ current_operation \in FixtureOperation /\ pc[w] \in FixtureStage
    \/ current_operation = "goal_training" /\ pc[w] \in TrainingStage
    \/ current_operation = "player_context" /\ pc[w] = "player_sync"

\* A fixture synchronization that succeeded is not repeated before the interval
\* is over, whatever other workers that lost their lease finish or fail later
\* (each attempt costs provider requests from the daily allowance).
SyncedLately == synced /\ since_success < FixtureInterval
NoDoubleSync ==
  [][\A w \in Worker :
       pc[w] = "claim_fixture" /\ pc'[w] = "fixture_fetch" => ~SyncedLately]_vars

\* A training is claimed on a clock reading, and so for a cutoff, that is not older
\* than the last success: a worker that looked for a cutoff while another one was
\* still synchronizing or training does not train what that one has finished. (Each
\* success makes training due at its own time, never at an earlier one.) A cutoff
\* that is gone at the claim was therefore taken by work that did not succeed.
NoTrainingOnOldCutoff ==
  [][\A w \in Worker :
       pc[w] = "claim_training" /\ pc'[w] = "train" =>
         since_success >= elapsed[w] /\ since_training >= elapsed[w]]_vars

\* The lease is a SingletonLease: it is taken over only when it is free or
\* expired, renewed and released only by its holder.
Singleton == INSTANCE SingletonLease WITH holder <- lease_owner, left <- lease_left
LeaseSpec == Singleton!LeaseSpec

(***************************************************************************)
(* Liveness                                                                 *)
(***************************************************************************)
\* The lease of a process that died is eventually taken from it, as long as a
\* worker with a key runs.
LeaseRecovered == (lease_owner = Departed) ~> (lease_owner # Departed \/ ~key)

\* An operation that is tried again and again is not failing forever.
ProviderAnswers ==
  \A w \in Worker :
    SF_vars(CommitFixtures(w)) /\ SF_vars(RecordProgress(w)) /\ SF_vars(FinishFixture(w))
TrainingSucceeds ==
  \A w \in Worker : SF_vars(BeginFit(w)) /\ SF_vars(ActivateArtifact(w))

\* With a key and a provider that answers, the complete season is reconciled
\* again and again: incremental syncs never postpone the full one forever.
FullSyncRecurs == ProviderAnswers /\ <>[]key => []<>(since_full = 0)

\* Training and fixture synchronization, even when they fail every time, never
\* keep the player synchronization from being tried once fixtures are there.
PlayerNotStarved ==
  <>[](key /\ synced) => []<>(\E w \in Worker : pc[w] = "player_sync")

\* Chronological catch-up: every complete matchweek gets its artifact, when the
\* provider answers and fits that are tried again and again succeed.
TrainingCatchesUp ==
  ProviderAnswers /\ TrainingSucceeds /\ <>[](key /\ TrainingEnabled)
    => []<>(fresh >= ready)
===============================================================================

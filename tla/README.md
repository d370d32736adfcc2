# Prem Engine verification project

TLA+ specifications of the stateful parts of Prem Engine: the worker that
synchronizes and trains, the life of a match and of the simulations that devices
play of it, the registry of locally trained goal models, the provider clients and what
is made of their answers, the pages of the browser, and the offline pipelines that
train the bundled models. Each specification is checked by TLC on small instances; the
safety properties of all of them are proved with TLAPS for every value of the constants.

1. [The system](#1-the-system): components, their state, how they interact
2. [Modules](#2-modules): which module models what, and how it corresponds to the code
3. [Runs](#3-runs): what each run checks and shows, and its bounds
4. [Fairness](#4-fairness)
5. [Proofs](#5-proofs): what is proved, from which assumptions, along which argument
6. [What the code does differently from its documents](#6-what-the-code-does-differently-from-its-documents)
7. [What is not modelled](#7-what-is-not-modelled)
8. [Plan](#8-plan)

Commands, in this directory:

    tlasany LocalWorker.tla
    tlc -workers 2 -config MCLocalWorkerSafety.cfg MCLocalWorker
    tlapm LocalWorkerProofs.tla

`PROJECT.json` holds the runs, the definition-to-source map, the hazards, the
theorems, and for every checked property a mutated definition that violates it.

## 1. The system

A cloned installation is a PostgreSQL database, a FastAPI service, a worker process
and a Next.js frontend (`compose.yaml`). The worker talks to the data providers and
trains; the API serves forecasts and lets a device play a simulation of a match; they
meet only in the database. Everything hard about the program is in the order in
which these processes read and write shared rows. Paths below are relative to
`src/backend/prem_engine_api/` unless they start with a directory of `src/`.

### Components with state

**Local worker** (`local_worker.py`).
State: the one `LocalWorkerState` row (status, current operation, lease owner and
expiry, next due time of fixtures, training and players, last successes), and the
position of each process in `run()`.
Operations: claim, renew, finish, fail and release the lease for one of three
operations; defer training; mark the row `setup_required`.
Interactions: calls fixture synchronization, goal training and player synchronization
between a claim and a finish; the setup page reads the row.
Hard: a lease compared with an old clock reading, an operation that outlasts its
lease and finishes after all, a killed process, three operations that share a lease
and are tried in a fixed order, a cutoff that is looked up three times.
Correct when: the four lease columns always agree with each other and with what their
owner is doing, the lease changes hands only when free or expired, a success is not
repeated early, nothing is starved, a dead owner loses the lease.

**Fixture synchronization and ingestion** (`local_sync.py`, `ingestion/sync.py`,
`ingestion/fixtures.py`).
State: `matches`, `fixture_schedule_revisions`, `actual_result_revisions`, provider
references, cursors.
Operations: fetch pages, resolve identities, create, postpone, cancel, reschedule or
change the status of a match, append a result, all in one transaction.
Interactions: called by the worker; uses the lifecycle helpers; training and the
forecasts read the results.
Hard: the match row is loaded before it is locked; two rows of a provider may describe
one match; corrections, replays and new dates come in any order; data commit before
the worker notices that its lease is lost.
Correct when: a match has one current revision that agrees with it, and its accepted
result is the newest one that was not voided.

**Match lifecycle** (`domain/lifecycle.py`, `domain/models.py`, `domain/enums.py`).
`postpone_match`, `cancel_match`, `reschedule_match` under a row lock, with everything
they void: simulations of the superseded revision, results of the match.

**Play and device simulations** (`forecasting/user_play.py`, `api/forecasts.py`).
State: `device_simulations`, one per device and schedule revision.
Operations: a request reads the clock, locks the match, finds the window open, closed
or not yet open, and records a played or a missed simulation, or refuses.
Hard: the clock is read before the lock is waited for; two tabs of one device race; a
refusal must be rolled back, but the record of a missed window must be committed with
it; the schedule changes while the request waits.
Correct when: a device has at most one outcome per revision, it is never replaced, it
is void when the schedule changes, and one that counts lies in the window of the
kickoff the match has.

**Local goal training** (`local_training.py`, `local_init.py`).
State: `local_model_artifacts`, `local_installations.goal_model_version`, files.
Operations: find the first matchweek whose results are complete and whose artifact is
out of date, read the data set, fit, register the revision, write the files, activate.
Hard: five transactions and a file write with ingestions, failures and the end of the
process in between; results that are corrected or voided later make an artifact out of
date; the revision number depends on rows left by unfinished attempts.
Correct when: no forecast learns from a result later than its cutoff, published
revisions are immutable, the installation names the active one, and every complete
matchweek ends up with an artifact of its accepted results.

**Forecast inference** (`forecasting/inference.py`). Picks the artifact for a cutoff
and applies the results observed between it and the cutoff. Stateless; its choice is
part of what makes training correct.

**Provider client and request budget** (`providers/kickoffapi/client.py`,
`providers/current_fpl/client.py`, `domain/request_budget.py`,
`providers/raw_storage.py`).
State: `provider_requests` (each with the rate window its answer declared),
`provider_request_budgets`, raw files and `raw_fetches`.
Operations: reserve a request against the rate window, the day and the rolling minute;
send it; store the answer; complete the row.
Hard: a lock on a row that is no longer the latest when it is granted, three clock
readings of one reservation, a process that dies between any two statements.
Correct when: budgets count exactly what was reserved and are never exceeded, a window
the provider closed is respected, nothing is normalized that was not captured.

**Fixture identity** (`local_sync.py`, `ingestion/fixtures.py`).
State: clubs, matches, their references, review cases.
Operations: collect the pages of a feed, pick one row per fixture, resolve clubs and
matches by reference or by identity, queue what is ambiguous.
Hard: the feed changes between pages and repeats cursors; mirrors disagree; identifiers
and spellings change.
Correct when: a fixture is one match, and the same rows always lead to the same match.

**Player context synchronization** (`ingestion/player_sync.py`,
`ingestion/player_context.py`, `ingestion/current_fpl.py`).
State: players and references, memberships, reports, transfers, lineups, performances.
Operations: injuries, transfers, squads, the fallback provider, lineups and performances,
each answer in a transaction of its own, all against one budget.
Hard: it may end after any of them; one budget has to serve them all; a target that never
succeeds stays in front.
Correct when: what is stored keeps its time, and the details get the requests kept for them.

**Rate limiters** (`rate_limit.py`, `src/frontend/src/lib/rate-limit.ts`).
State: a table of windows with a bounded number of clients.
Hard: the limit of the table. Correct when: a client is refused exactly when its window is
used up, and only a full table forgets a live window.

**Browser forecast poller** (`src/frontend/src/lib/official-forecast-poller.ts`).
State: of each page the poll, its lock request and whether it was told of an end.
Hard: tabs are hidden, shown and closed at any moment of a poll; broadcasts and locks.
Correct when: at most one page polls for a match, and somebody polls for a visible page.

**Simulation generator, presentation, simulated table**
(`src/modeling/prem_engine_modeling/simulation.py`, `forecasting/presentation.py`,
`presentation-clock.ts`, `api/insights.py`).
State: the stored timeline of a simulation and the seconds since its presentation began.
Hard: independent samples that contradict each other; two readers with different clocks.
Correct when: what is generated can be stored, and the page tells it and nothing ahead of it.

**Offline modelling** (`src/modeling/prem_engine_modeling/`).
State: exported files, reports, models and evaluations on disk; within a run, indices over
observations in order of time.
Operations: walk the history and build features; choose, calibrate and promote; export and
train, with gates and checksums between.
Hard: results, reports and transfers become known in another order than they happen; the
seasons of selection, calibration and test; files that are replaced or torn between scripts.
Correct when: no row knows its future, nothing chosen depends on the test, and a model can be
traced to the files it was trained on.

**Historical imports** (`historical/`, `providers/historical_fpl/`). Idempotent imports
keyed by checksum, run by hand.

**Standings and evaluation** (`domain/standings.py`, `domain/product_evaluation.py`).
Tables and comparisons computed from rows, without state.

### How they interact

    providers --> fixture sync --> matches, revisions, results --> training --> artifacts
                     ^                     ^         |                ^            |
                     |                     |         v                |            v
                worker row (lease)   Play requests, simulations   worker row    forecasts

The worker row decides who runs fixture sync, training and player sync, and when. The
ingestion and the Play requests of the API meet at the lock of a match row. Ingestion
and training meet in the results: training reads them in two transactions and has no
lock on them. Training and forecasts meet in the artifact rows. Every provider request of
the worker and of the import scripts meets the others in the request ledger. The offline
pipelines meet the installation, and each other, in files.

## 2. Modules

| Module | Models | Role |
| --- | --- | --- |
| `SingletonLease` | what the worker's lease promises | abstract specification |
| `LocalWorker` | `local_worker.py` with the outer shell of sync and training | detailed, implements `SingletonLease` |
| `LocalWorkerProofs` | | theorems |
| `ArtifactCatalog` | what the registry promises its readers | abstract specification |
| `GoalTraining` | `local_training.py`, ingestion of results, `inference.py`'s choice, `local_init.py`'s choice | detailed, implements `ArtifactCatalog` |
| `PlayLedger` | what a match promises the devices that play it | abstract specification |
| `FixtureLifecycle` | `ingestion/fixtures.py` for one match, `domain/lifecycle.py`, `user_play.py`, the Play and forecast endpoints | detailed, implements `PlayLedger` |
| `ProviderRequests` | the provider clients, the request budget, the raw store | detailed |
| `FixtureIdentity` | `local_sync.py`, resolution and selection in `ingestion/fixtures.py` | detailed |
| `ProviderProofs` | | theorems about `ProviderRequests` and `FixtureIdentity` |
| `PlayerSync` | `ingestion/player_sync.py`, `player_context.py`, `current_fpl.py` | detailed |
| `Folding` | | induction over a walk, for any step and property |
| `IngestionProofs` | | theorems about `FixtureLifecycle` and `PlayerSync` |
| `RateLimiter` | both rate limiters | detailed |
| `ForecastPoller` | the poller of the match page | detailed |
| `StoredReplay` | generation, storing and reveal of a simulation, the simulated table | detailed |
| `WebProofs` | | theorems about `RateLimiter`, `ForecastPoller` and `StoredReplay` |
| `Places` | sorting and filtering lists by the places of their elements | operators |
| `PlacesProofs` | | lemmas about them |
| `MatchWalk` | loading and walking of matches: `data`, `elo`, `goals`, `features`, `training`, `goal_training` | algorithm |
| `PlayerWalk` | `player_data`, `player_features`, `tactical_features` | algorithm |
| `ModelSelection` | folds, selection, calibration, promotion: `tabular_*`, `ensemble_training`, `player_training`, `tactical_training`, `match_statistics_training` | algorithm |
| `ModelFiles` | exports, quality reports, gates and artifacts of all kinds | detailed |
| `ModellingProofs` | | theorems about `ModelSelection`, `ModelFiles` and `MatchWalk` |
| `TrainingProofs` | | theorems about `GoalTraining` and `PlayerWalk` |
| `MC...` | values for the constants; `MCServices` and `MCModelling` put programs side by side | model checking |

The first three detailed modules cut the system where transactions cut it. `LocalWorker`
knows of the results only how many leading matchweeks are complete (`ready`) and how
many have an up-to-date artifact (`fresh`), which is what decides whether there is a
cutoff; `GoalTraining` says why. `GoalTraining` knows a match as results with instants
and the fact that it is off; `FixtureLifecycle` says how one match gets there.

### LocalWorker

Every helper of the worker opens a transaction and locks the row first
(`_locked_state`), so one helper is one step. What a worker does between two helpers is
a value of `pc[w]`, and while it is there other workers run, time passes, the process
may be killed (`Crash`) or end in order (`Stop`).

| Code | Model |
| --- | --- |
| `LocalWorkerState` columns | `status`, `current_operation`, `lease_owner`, `lease_left`, `next_*`, `synced`, `since_*` |
| the clock reading at the top of the loop | `ReadClock` |
| `_claim_fixture_sync`, `_claim_training`, `_claim_player_sync` returning an operation, or nothing | `ClaimFixture`, `SkipFixture`; `ClaimTraining`, `TrainingNotDue`; `ClaimPlayer`, `SkipPlayer` |
| `_run_training_if_due` before its claim | `SkipTraining`, `DeferTraining`, `SeeCutoff` |
| `synchronize_local_fixtures` committing | `CommitFixtures` |
| `_record_progress` | `RecordProgress` |
| `_finish_fixture_sync`, `_finish_training`, `_finish_player_sync` | `FinishFixture`, `FinishTraining`, `FinishPlayer` |
| `_fail_operation`, and the loop that catches | `Fail` |
| `_release_owned_lease` in `run()`'s `finally` | `Stop` |
| `run()` without a key, `_mark_setup_required` | `StartWithoutKey`, `MarkSetupRequired` |
| a restart of the container | `StartWithKey`, with a new id: the old one is `Departed` |

Time is counted in ticks. An instant of the row is the number of ticks until or since
it; instants in the past saturate at `NoTime = -MaxLag`, because no reader's clock is
further behind and the code treats `NULL` and a past instant alike. `elapsed[w]` is the
age of the clock reading a claim will use (`now` is read once per iteration, before the
first claim waits for the row; the mark of a missing key reads its own before it waits),
and while an operation runs the time since its claim. The helpers that end or fail an
operation read the clock as an argument of their call; their wait for the row is not given
a time of its own. `MaxLag` bounds the short stages, `MaxRun`
the operations; `MaxRun > Lease` is what makes overruns possible.

### GoalTraining

An ingestion is one transaction and stamps what it writes with one instant, so the clock
counts ingestions. `Ingest` takes one outcome per match: nothing new, a first or
corrected score, postponed or cancelled, a new date, a new date together with a score.
A trainer goes through `ReadCutoff` (`next_training_cutoff`), `ReadTrainingSet`
(`_current_records`), `Register`, then `Activate` or `FailWrite`
(`train_next_local_goal_model` after the fit), and may be abandoned anywhere.
`rows` are the artifact rows by matchweek and revision, each with the `file` its path
leads to. `Selectable`, `Applied` and `AcceptedBefore` are the forecast's queries
(`_goal_artifact` and `build`).

Abstractions: the statements of `next_training_cutoff` read one state, the data set is
read in another; the file write is part of `Activate`, because the name of the files is
made of their content and nobody knows it before the last transaction; one season;
scores are left out, since two results of a match differ in their instant.

### FixtureLifecycle

One match. An ingestion loads the match row into its session (`Load`, `session.get`
without a lock) and applies a payload later (`Apply`). `SELECT ... FOR UPDATE` waits for
other transactions but does not refresh an object the session already has, so `Apply`
decides with the copy `loaded[i]`. Its five disjuncts are the paths of
`_ingest_fixture`: `Create`, `CallOff` (`postpone_match`, `cancel_match`), `Reschedule`
(`reschedule_match` and the status written after it), `ChangeStatus`
(`_append_status_revision`), `Confirm`; each includes `_upsert_actual_result`. A request
reads the clock (`Ask`) and then works under the lock of the match until it commits or
rolls back (`Respond`): `RecordMissed` is `load_play_context` on a closed window, `Play`
is `play_device_simulation`.

Abstractions: the statuses are scheduled, finished, postponed and cancelled (started,
suspended and abandoned take scheduled's paths, awarded takes finished's); kickoff
precision and identity review are resolved; a match that exists before its reference
(from the historical import) and a match without any revision are left out; the
freshness of fixture data, a reason to refuse, belongs to `LocalWorker`, so a request
may always be refused; legacy `PredictionVersion` rows, which nothing creates, are left
out.

### ProviderRequests

A call of a process `c` goes through `BeginReservation` (`SELECT ... FOR UPDATE` finds the
latest row, then waits), `CheckRateWindow`, `ReserveRequestSlot` (the conditional upsert of
the budget, whose lock lasts until the commit), `CountMinute`, `CommitReservation`, then the
HTTP request: `RequestFails` or `ReceiveAnswer` (the raw file), `RecordAnswer`,
`InvalidPayload` or `ReturnPayload`. `Die` may happen anywhere. Time passes between any two
of them, and each step reads the clock where the code does: the row carries the start of
its transaction (`at`), the minute is counted from a second reading (`now`), the day from a
third. The FPL client begins at the budget.

Left open on purpose: two processes may both pass the check of a rate window that one of
them is about to see closed, and around midnight the requests counted for one minute
belong to two days; `AllowanceKept` and `AnswersKept` say which part holds under which
condition. An answer that leaves 0 requests and no reset time closes the window for good.

### FixtureIdentity

`FetchPage` is one iteration of the loop of `synchronize_local_fixtures`; the cursor that
follows is the provider's and may be one it gave before; `FeedChanges` happens between
pages. `IngestFixtures` is the transaction: `SelectCanonical`, then `IngestFixture` row by
row. Dates are days and `Tolerance` is the 48 hours. Two rows of one fixture further apart
than that and under two identifiers are two matches in the code too, so `OneMatchPerFixture`
speaks of the others. The match of an unknown identifier that is found by identity only
gets the reference; its kickoff and status follow at the next ingestion, which is why
`FeedSettles` asks for two. `SelectCanonical` takes the first of the rows of the highest
rank, as `max` does; two rows of one rank share identifier and date but may differ in their
status (scheduled and postponed rank alike: the rank looks at final scores, any scores and
whether there is a status at all, `Completeness`), and which one is taken then
depends on the order of the feed, so `FeedSettles` speaks of `Untied` rows. Two assumptions
say what the data are: an identifier belongs to one fixture (`FeedsAssumption`), and where the
table holds two clubs of one identity, no team is named exactly like one of them
(`ClubsAssumption`; the exact name would be referred although the identity is ambiguous).
Competition and season, the window of dates a provider is asked
for, and results (`FixtureLifecycle`) are left out.

### PlayerSync

`psRun` is the position in `sync_player_context`, with the requests used, the clubs and
matches still to ask for and the fallback targets. Each ingestion transaction is an
operator on `psDb` and part of the action of its request; a request that fails with an HTTP
status is counted and passed over, everything else is `SyncRaises`. A fetch is named by run
and number. An ingestion walks the rows of an answer in their order, each row is an operator
(`SquadPlayer`, `Performance`, ...) that does nothing when its player cannot be resolved; the
other provider answers with the players of all clubs at once. `left_on` of a membership is never set by the code, so memberships only grow.
The targets are identifiers, as in the joins of `_club_targets` and `_match_targets`: a club
or a match the provider knows under several is asked for once for each, and the limits count
identifiers. The second answer for a match finds the performances of the first and dates them
anew, within the same run; no later run asks for that match again. `PerformancesKept` says
exactly this. The identifiers of one club or match come in any order; finished matches have
different kickoffs.

### RateLimiter

One operator `Consume` for both variants: they differ in what makes a window old when the
table is full (the API's last allowed request, the page's last request of any kind). Clocks
do not run backwards and a decision is atomic (one event loop each).

### ForecastPoller

`fpPages` are the mounted match pages, `TabOf` their tabs. `poll` is the position of the
asynchronous function: queued for the Web Lock, fetching, waiting for the next turn, over but
not settled. `pending` is the flag `start()` tests. Messages wait in `inbox` and are
delivered before a lock that is granted after they were sent. `missed` records that a page
was to start while its ended poll had not settled.

### StoredReplay

`Sample` draws the score and the statistics of both sides, `SampleTime` gives each event a
time, `StoreSimulation` orders, validates and stores them; then `TimeElapses` and `Page` is
what the match page shows. Corners, fouls and cards are treated alike and stand here as
fouls. Players, lineups, commentary, seed and checksum are left out: a player who was
substituted or dismissed may be named by a later event.

### The modelling package

`MatchWalk` and `PlayerWalk` are walks over a history in order of time: a heap of results
by the time they become public, indices over transfers, reports and styles. A rating or a
feature is abstracted to the set (or the sequence, where order matters) of observations it
was computed from, which is what leakage is about. The availability of a player is the probability
that the ingestion gives each kind of report (`AvailabilityProbability`, in quarters: out and
suspended none, doubtful two, unknown or no report three), and weighs his starting
probability. `ModelSelection` abstracts a fit to the
seasons it was given and a metric to a small number, drawn anew for each evaluation. It
distinguishes the benchmarks a verdict compares with (`BenchmarkCount`: Elo and goals for a
classifier, goals for an ensemble, the mean for a count model) from those that are measured on
the same matches and only reported (`OtherBenchmarks`: the historical prior; Elo, tabular and
player for an ensemble). `PromotionEarned` speaks of the former, since the code promises
nothing of the latter.
`ModelFiles` lets the scripts run in any order, with inputs replaced and processes killed
between two files or in the middle of one: a file cut between two rows (`whole = FALSE`) is
still read, one cut elsewhere (`BrokenCsv`, `BrokenReport`) is refused, and in both cases what
was there before is lost. A checksum is the content it was computed from.

## 3. Runs

Passing runs:

| Run | Instance | Checks |
| --- | --- | --- |
| `worker_safety` | 2 workers, 2 exits or key changes, an operation up to 3 ticks with a lease of 2 | `TypeOK`, `StatusMatchesLease`, `OwnerRunsOperation`, `NoDoubleSync`, `NoTrainingOnOldCutoff`, `LeaseSpec` |
| `worker_liveness` | 1 worker, 2 matchweeks, 1 change of results, 1 exit or key change | `LeaseRecovered`, `PlayerNotStarved`, `FullSyncRecurs`, `TrainingCatchesUp` |
| `training` | 1 trainer, matchweeks of two and one match, 2 ingestions | `TypeOK`, `NoFutureData`, `InstallationNamesActive`, `VoidedForgotten`, `CatalogSpec`, `TrainingConverges` |
| `lifecycle_play` | 1 ingestion, 2 requests of one device, 2 kickoffs, times 0 to 3, 3 revisions, no results | `RevisionMatchesFixture`, `CountedPlayInWindow`, `LedgerSpec` |
| `lifecycle_results` | 1 ingestion, 2 scores, 4 revisions, 4 results, no requests | `TypeOK`, `AcceptedIsNewest` |
| `services` | see below; one of six programs | `AllowanceKept`, `AnswersKept`, `OneMatchPerFixture`, `FeedSettles`, `MatchDetailsNotStarved`, `PerformancesKept`, `LimitExact`, `OneLeaderForAll`, `ReplayTellsTheMatch` |
| `modelling` | see below; one of four programs | `RowKnowsExactlyThePast`, `FormIsMostRecent`, `TestSeasonsUntouched`, `RowsUseTheObservedPast`, `AbsenceRespected`, `HoldoutIsolated`, `PromotionEarned`, `GatedModelsTraceable`, `EvaluationsDescribeModels`, `ArtifactsWrittenOnce` |

What they show, and why the bounds are enough to be interesting:

- `worker_safety`: two workers are enough for an overrun: one is still in its operation
  when the other claims, and each may finish, fail, be killed or lose the lease first.
  `MaxRun` is one more than `Lease`, so a first worker may outlive a second claim. The
  intervals are no longer than an operation, so schedules fall due in the middle of one. The workers are interchangeable (symmetry); all six properties are about
  safety. One matchweek is enough for `NoTrainingOnOldCutoff`: a worker that has looked for a
  cutoff may claim only after another one, whose lease has run out meanwhile, has finished.
- `worker_liveness`: the full interval is not a multiple of the fixture interval and the
  player interval is the shortest, so that all three operations compete. As in the
  program, a retry is longer than a training and two rounds of the loop (900 s against
  minutes, here 6 ticks): with a shorter one a synchronization that fails every time would be
  due again in each round, and the player's turn come only while it runs.
- `training`: two ingestions are enough to complete a matchweek, or both, and then to
  correct, void or postpone a result at every step of a training, so that two revisions of
  a matchweek exist and an unfinished row of either is taken over. Two matches in the first
  matchweek, so one can be voided while the other still counts. `NoFutureData` quantifies
  over every cutoff at or before the present.
- `lifecycle_play`: both tabs of one device, the clock passing both window ends
  (`Before = After = 1`, kickoffs 1 and 2, so the windows overlap and a simulation of one
  may lie outside the other), three revisions: played, moved, moved back.
- `lifecycle_results`: correction, postponement, new date and replay of a result in any
  order; scores are interchangeable. It leaves the requests out, and `lifecycle_play` the
  results, because neither reads the other's rows.

- `services`: the six programs share no state in these models, so one run checks them side
  by side: the initial state chooses which of them runs. *Requests*: one or two processes, 3
  ticks with a minute of one and a day of two, limits of 2 and 1, so that a day ends and a
  minute rolls over inside a reservation. *Fixtures*: nine feeds of one to three rows that
  change twice under a walk (mirrors with other dates, an identifier that changes, two
  spellings of a club, postponement, a feed that shrinks while it is read), three club tables.
  *Players*: three catalogues, two synchronizations, two clubs and three matches, one of each
  known under two identifiers, with a budget of 6: pages, squads and details cannot all be served. *Limiter*: three clients, a
  table of two. *Pages*: three pages, two of them one after the other in one tab; two
  changes of visibility, two turns of the match. *Replay*: three scores and four
  contradictory samples for each side, two times in each half.
- `modelling`: all histories of four matches over five season patterns, three sets of
  kickoffs and every delay of their results; players with transfers, reports and styles
  around three rows, profiles of one performance, absences as out, suspended or doubtful; two candidates and all
  benchmarks, compared or only reported, with every pattern of losses of three sizes; every kind of artifact with two imports, replaced inputs and two crashes.

Every bound is a constant named `Max...`, `Weeks`, or a finite set in the `.cfg`; they
appear in guards only. Deadlock checking is off in `services` and `modelling` alone: their
programs end.

The other five runs (`training_leak`, `lifecycle_stale`, `lifecycle_missed`,
`services_reveal`, `modelling_departure`) each check one sentence of the repository's documents or comments
that the code does not keep; section 6 lists them.

## 4. Fairness

Safety runs assume none. `LocalWorker!FairSpec` assumes weak fairness of time, of the
start of a process (the container is restarted, `compose.yaml`) and of each worker's
next step: the event loop runs it, and each operation ends, because provider calls have
timeouts and a fit is bounded. It does not assume that an operation succeeds: `Fail` is
always an alternative. `LeaseRecovered` and `PlayerNotStarved` hold with operations that
fail every time. `FullSyncRecurs` and `TrainingCatchesUp` cannot, and name what they need
as a hypothesis: `ProviderAnswers` (a synchronization that is tried again and again
succeeds now and then) and `TrainingSucceeds`. `GoalTraining!FairSpec` assumes that the
worker comes back to the training (which is what `TrainingCatchesUp` is about) and that a
training tried again and again succeeds.

## 5. Proofs

Safety is proved for every value of the constants: any number of workers, matches,
trainers, devices, requests, and any durations that satisfy the assumptions.

**LocalWorkerProofs**, from `DurationAssumption` (every interval is longer than the age a
clock reading can have: 30 s of heartbeat against 300 s and more), `BoundAssumption`
and `OwnerAssumption`. The inductive invariant is `TypeOK`, `ElapsedBound` (a clock
reading used by a claim is at most `MaxLag` old), `StatusMatchesLease`,
`OwnerRunsOperation` and `SuccessSpacing` (after a success, either the interval is over or
the next due time lies at least the rest of it ahead, and the lease is not held for a
fixture operation before it is over). `SuccessSpacing` is needed because `NoDoubleSync` speaks of the age of
the success while the claim looks at the due time; `OwnerRunsOperation` because only an
owner in a fixture stage may reschedule fixtures. `TrainingSpacing` is its counterpart for
the training: each success makes training due at its own time and no earlier, so whoever
claims it on an old clock reading read the clock after the last success. Theorems:
`TypeCorrect`, `LeaseColumnsAgree`, `OwnerIsRunning`, `SuccessNotRepeated`,
`TrainingOnCurrentCutoff`, and `ImplementsLease`: every step of the worker is a step of
`SingletonLease` or leaves the lease alone. A cutoff can still be gone when the training
begins, if an ingestion that failed afterwards, or a worker without its lease, took it; the
training then fails and is retried.
`NoTwoOperations` says what the lease is for: with any number of workers, crashes and late
clock readings, no two processes are in an operation at once, if no operation outlasts what
its claim leaves of the lease (`RunsFitLease`, a condition on `MaxRun` that the run
`worker_safety` breaks on purpose, as the code may). Its invariant `RunsUnderLease` keeps,
for each operation, that its process owns the lease and that the time used and the time left
add up to what the claim took. This is also the reason to assume `OneTrainer` and
`OneIngestor` below: the worker trains and ingests nowhere else.

**TrainingProofs**, first for the local training. For any number of trainers: `TrainingTypeCorrect`. The rest needs
`OneTrainer`, which the lease gives while no training outlasts it (section 6 has what
happens otherwise). Then `TypeOK`, `JobOK`, `RowsSound` (a successful row and its files
have the same matchweek, revision and cutoff, and the files hold nothing later),
`JobsSound` (so does the artifact under construction, whose revision no successful row
has) and `InstallationNamesActive` are inductive together. `JobsSound` is what makes
`Activate` safe: between `ReadCutoff` and `Activate` of the only trainer nothing but its own
`Register` changes a row. Theorems: `ActiveModelNamed`, `NoFutureLeak`, `ImplementsCatalog`.
On top of it, `RowsLearned` and `JobsLearned` (a trained result that was voided was voided
after the cutoff of the artifact that learned from it) give `VoidedNotUsed`: the time of the
void makes the matchweek out of date, and the artifact built for it is the one picked.

**IngestionProofs**, first for a match. For any number of concurrent ingestions: `Sound`, that is
`TypeOK`, `Known` (no revisions, results or simulations of a match that does not exist),
`NewestCurrent` (exactly the last revision is current) and `OldVoid` (simulations of
earlier revisions are void) is inductive, which gives `LifecycleTypeCorrect` and
`ImplementsLedger`: a stale copy can put a wrong kickoff into a revision, but never gives a
device two outcomes or lets one that was played count after a schedule change. `PlayLedger`
leaves open what becomes of a missed one, on which code and document disagree (section 6). With `OneIngestor`,
`Agreed` adds `FreshCopy` (what an ingestion loaded is what the row says: nobody else
writes it) and `NoEarlyResult`, and gives `ScheduleAgrees`, `ResultsAgree` and
`PlaysInWindow`.

**ProviderProofs**, first for the requests, from `RequestAssumption`, for any number of processes that
reserve, send, fail and die. `Sound` is the types with `BudgetExact` (the budget counts the
rows of the ledger and stays within the limit), `RoomHeld` (a reservation that has passed the
check of the day has room, and no two such share a provider and day: the lock on the budget
row), `MinuteHeld` (one that has counted the minute still finds room in the minute of its day,
since nobody else can commit a request of that day) and `MinuteKept`. Theorem:
`AllowanceHeld`. The step that carries it is `CommitSound`; everything that reserves nothing
is a `Quiet` step, which keeps all counts.

On top of it `Answering` gives `AnswersRespected`. `Owned` needs no assumption: a row has one
process that completes it, and whatever is recorded was stored (`Captured`). `InOrder` holds
for a process that has KickoffAPI for itself, and says why looking at the latest row alone is
enough: rows begin in their order, the row found is the last one, each earlier one was clear
when the next was reserved (`WindowsKept`), so a clear latest window means that all are.

**ProviderProofs**, then for the schedule, from `FeedsAssumption` and `ClubsAssumption`. What the
database holds is `Consistent` with all rows ever given: a reference belongs to a row of its
fixture and names its match, a match has a row it came from, and a club under review is in no
reference. One row keeps this and leaves the other fixtures alone (`RowIngested`,
`Undisturbed`), where the cases are those of the code: a known identifier updates, a single match
within the tolerance is referred to, a match is added if there is none, and several wait for a review. A row ingested once is `Met` (it waits for a
review or is referred to), twice `Settled` (its match says what it says), and the third time
changes nothing. Which rows are ingested is decided by the selection, one for each fixture of one
round and of the highest rank (`CanonicalRows`, `CanonicalStands`), so two orders of the same
rows ingest the same. The whole feed is again an instance of `Folding`. Theorems: `OneMatch`,
`FeedsSettle`.

**IngestionProofs**, then for the player synchronization, with any answers of the providers. `WithinBudget` keeps, at each
position of a synchronization, that what was spent on anything but match details leaves the
requests that were promised to them when the squads began (`Promised`: two for each match, or
what the budget had left). Theorem: `DetailsServed`. That nothing stored is lost or
dated anew by a later run (`StoredForGood`) rests on what the walk over an answer does, and `ingest_performances` does
overwrite what it finds: the matches still to be asked for differ and have no performances
(`Ahead`, kept by `_match_targets` at the start and by every ingestion since), so there is
nothing to overwrite but what another identifier of the match has brought in the same run
(`ReachedBegins`, `TargetsOpen`). What one row keeps (`Keeping`), its whole answer keeps: this is
`Folding!FoldKeeps`, the induction over the positions of a sequence. Its module has the step
and the property of a walk as constants and is instantiated once for each walk, without
parameters, which is how the provers can be given an operator. `CatalogueAssumption`: an
answer that validates is a list of rows, and an endpoint with pages has a first one.

**WebProofs**, first for both limiters. A window must be tied to the history of decisions:
`WindowExact` says that its times enumerate, one to one, the requests its client was allowed
since the window opened and since the client last lost its place, and that a client without
a window has none of these. `Recent`, which drops the leading old times, is right because
times are sorted; an eviction forgets live requests only when every window of a full table is
live. Theorem: `LimitIsExact`.

Then the pages, for any pages and tabs. At most one page polls because a lock is
granted to a page only while no other polls; that every visible page which has
something to learn has a poll (`Led`) needs `Coherent`: the end a page shows was told to it,
and a pending promise belongs to a poll. Most steps change one page and are proved by one
lemma (`PointStep`); closing a tab or a page changes several (`WideStep`). Theorem: `OneLeader`.

And the stored replay, for any scores, samples and times the assumption allows. The
generator is sound because of what it plans before any time is known: in `TeamEvents` the
goals, the shots on target, the shots and the fouls of a side are positions of one list, each
kind an interval that ends where the adjusted statistic says (`TeamIsPlanned`,
`AdjustedBalances`; without the cap of `Adjusted` an interval is empty and a count wrong).
`Growing` says that the events with times, followed by those to come, are that plan. Sorting is
a permutation (`OrderOfEvents`), so it changes no count (`OrderedCounts`), and the markers
cannot be displaced: nothing happens before 3:00 or after 89:59, so the kick-off comes first
and the end of the match last (`GatheredTold`). What the page shows is then a beginning of
the sorted events (`VisibleStart`): the clock never runs back (`ClockRuns`), and the half-time
score is complete while the clock stands at 45:00, because the goals of the first half come
from times before it and the others from times after. `Consistent` compares neighbours only; that events are sorted
pairwise is kept by `Told` beside it. Theorem: `ReplayTells`.

**ModellingProofs**. For `ModelSelection`, `ReadsSplit` (which seasons each product has read),
`BoardInOrder` and `SelectionWon` (the board names every candidate and the selected one has
the least mean loss) and `HoldoutMeasured` give
`HoldoutStaysIsolated` and `PromotionIsEarned`. For `ModelFiles`, with files that may be torn,
the invariant says of each file what the script that wrote it had in hand: reports name the
files they were computed from (`ReportsHonest`), a training holds the data and sources it has
checked (`TrainingTraceable`), a version in work is free (`EvaluationFree`). Theorems:
`GatedTraceable`, `EvaluationsSound` and `WrittenOnce`, the last an action property.

For `MatchWalk`, with any files of records (`WalkAssumption`: numbers for times and seasons,
at least three seasons, a positive lead), the first theorem is `RowsKnowThePast`. It has three parts.
An accepted file is a chronicle: `SeasonsOf` finds the seasons in the order in which they begin,
so that what `ThroughSeason` keeps has, before each of its records, all that was played before
it (`WalkChronicle`). A heap gives its results once and in order: the order in which they became
public is total, so the number of results before one is its place (`PlacesInOrder`). And
`HeapHoldsTheRest` is inductive: of the records it has passed, a walk holds back exactly those
that were not public at its last cutoff, and it has absorbed the others in order. Cutoffs do not
decrease, so whatever the next cutoff releases comes after all that was absorbed
(`PendingAdvances`), and nothing was public before the cutoff but lies ahead of the walk, since
a result becomes public after its kickoff (checked by `_parse_record`).

The second theorem is `FormsAreRecent`. Its invariant (`FormInv`) says of the feature walk that
the history of a club holds its results among all that was absorbed and its schedule its
fixtures among all that was passed (`HistoriesHold`). With `PendingAdvances` this gives the
history at a cutoff as the public results of the club in the order of their kickoffs
(`HistoryAppended`, `InKickoffOrder`, again by the place of each), and the last of such a
history, as many as the window has, leave out no later one (`LastAreRecent`). That the schedule
holds every fixture before the cutoff uses that the walk's records are a chronicle.

The third is `TestsUntouched`, which relates walks to each other: the tuning ends before the test
seasons, the later trainings go through them, and both must know the same of a match before
them. Its invariant (`TwinInv`) needs no second run: the rows of every training are
`Chained`, that is, the knowledge in a row follows from the knowledge in the row before it, the season carried
over and what the heap released between their cutoffs, and what it released is determined by the
file alone (`ReleasedResults`), not by how far the walk is allowed to go, because what a walk
keeps is the beginning of the file (`ThroughIsPrefix`). Two chains of one file therefore agree
wherever both have a row (`ChainsAgree`, at the least place where they would not). The test
records come after all others of the file (`TestsComeLast`), so a result public before a record of an
earlier season is of none of them (`PublicBeforeTests`), which bounds what the configuration
and the fixed baselines depend on.

**PlacesProofs**. The programs sort lists and take the parts of sorted lists that belong to a
club or a player. `InPlaces` puts each element where the number of elements below it says,
without recursion; if being below is a total order, these numbers are exactly the places
(`PlacesInOrder`, by an argument about cardinalities), so the result lists every element once,
in order (`InPlacesLists`). `PickedLists` and `JoinedLists` say the same of a part of a list
and of two parts one after the other, `LastOfList` and `LastOfReaches` what the last of a list
are. The replay, both passes of the features and the
selection of rows rest on these.

**TrainingProofs**, then for the two passes of the features, with any finite context. The lists
of performances, transfers, styles and shapes are in the order of the times at which their
elements were known (`Chronicles`; `ShapesChronicled` also needs that a shape has the time of
the last report of its lineup). `Behind` is the heart of the invariant: whatever lies before
an index is older than the cutoff of every row to come, which is kept because rows come in the order of their
kickoffs. Since an index stops at the first time not before the cutoff (`AdvanceStops`), what
lies before it then is everything observed by the cutoff and nothing else (`AdvancePasses`). The histories of a
player are exactly the passed performances, in order (`HistoryKept`, `HistoryApplied`), so the
squad of a row is who was seen lately (`SquadFound`), the styles are the last ones
(`StylesFound`), and no input is late, so the build never raises (`NothingLate`). For
absences, `BestBeats` says that whoever is left out of the best n is beaten by each of
them, and `ScoresCount` that a player out or suspended scores zero while any other who started
lately, even a doubtful one, does not.
Theorems: `RowsUseThePast`, `AbsenceIsRespected`. Both speak of transfers only through the
players without any: what the code does with a departure announced early is a finding
(section 6).

Assumptions on constants that these proofs use and the code justifies: the processes, clubs,
finished matches, clients of a limiter and candidates are finite sets, `"nobody"` is not a
client, and feeds and club tables are as described for `FixtureIdentity`.

TLC's part. Liveness (`LeaseRecovered`, `PlayerNotStarved`, `FullSyncRecurs`,
`TrainingCatchesUp`, `TrainingConverges`) is only model-checked, because the installed
provers have no rules for fairness and ENABLED. Every other property of a passing run is
stated by a theorem. Where recursion over rows can be avoided it is written with
quantifiers (`IsLatestTime`, `NextWeek`, `Selectable`), and no module with theorems reaches a
RECURSIVE definition.

## 6. What the code does differently from its documents

With a run that shows it:

| Run | The document says | The run shows |
| --- | --- | --- |
| `training_leak` | catch-up trains "without future-data leakage" | two overlapping trainings of one revision leave the older cutoff with the newer files |
| `lifecycle_stale` | a new window is relative to the revised kickoff | an ingestion with a stale copy writes a revision with the old kickoff |
| `lifecycle_missed` | a missed simulation "remain[s] permanently missed for that revision" | a schedule change makes it void |
| `services_reveal` | a simulation enters the table when its reveal has completed | the table of a device counts it from the start of the reveal |
| `modelling_departure` | departures are removed when they are known (a docstring) | a transfer announced before a row and dated after it is passed over for good |

`training_leak` and `lifecycle_stale` need an operation that outlasts the lease of 900 s.
`PROJECT.json` quotes each sentence with its place.

Met while modelling, each a consequence of the definitions of a module, without a run:

- The lease "prevents two workers from performing the same operation"
  (`docs/deployment/CLONEABLE_LOCAL_ARCHITECTURE.md:420`): training and player
  synchronization never renew it, and one that outlasts it is run by a second worker.
- Forecasts use every accepted result available at their cutoff (same document, 53-55):
  after a catch-up several matchweeks have artifacts with one cutoff, and
  `forecasting/inference.py:90` may pick an earlier one of them (`Selectable`).
- "Postponed matches do not block later matchweeks" (`README.md:180`): they do as soon as
  they have a new date (`local_training.py:206`, `Incomplete`).
- The report of an ensemble prints a "Best benchmark" below the comparison of its components
  (`ensemble_reporting.py:68`), as the reports of the other models do for the one with the
  lowest log loss: here it is always the goal model, and an ensemble that is worse than another
  component can be promoted (`ensemble_training.py:214,343`, `GoalsBenchmark`).
- Ingestion is idempotent (`docs/phase-4/DATA_INGESTION.md:49`): a match found by identity
  under an unknown identifier takes the kickoff and the status of its row only at the next
  ingestion (`ingestion/fixtures.py:174-210`, `MatchByIdentity`).
- Match details can be switched off with a limit of 0 (`ingestion/player_sync.py:228`,
  `config.py:40`): `_match_targets` compares the length after each match, so with 0 it
  selects every match without details, unless the newest match has them, and the reserve takes
  the requests of the squads (`Reached`).
- "The page will retry automatically" (`official-match.tsx:253`): a page that is shown again
  while its ended poll is settling does not start another, an answer that arrives after the
  page was closed is published on a closed channel, and a page told of a final state stops
  although the match may be restored (`Start`, `ReceiveForecast`, `Deliver`).
- A base feature file torn at the end of a row is accepted by `load_tabular_dataset`, which has
  no checksum to compare it with (`TrainingAccepts`); a version whose model or evaluation was
  torn stays taken (`VersionFree`).

## 7. What is not modelled

The list of components in `PROJECT.json` says for each what is left out. Out of reach or
of no use to a model checker: numeric fitting and probabilities, rendering, routing,
settings, the schema. Not modelled yet: the historical imports, the API-Football client, the
branch of the poller for browsers without Web Locks, tables and metrics, the choice of a
predicted lineup. Also left out: that without a key the row keeps the status `syncing` after
a crash (it is marked once, deliberately), two ingestions that create the same match
(unique constraints; `Abort` in `FixtureLifecycle`), and that a Play answer may reach the
page after a newer poll.

Four hazards have no property. Three are what the code does and no document denies or a
run would only restate: the choice among artifacts with one cutoff, the postponed match that
blocks, the rate window without a reset; the fourth, a match whose details the provider never
has, keeps older matches waiting in every run.

## 8. Plan

Done: `LocalWorker`, `GoalTraining`, `FixtureLifecycle` with their abstract specifications,
runs and proofs, in this order because they carry the promises a user sees; then the
services around them and the offline pipelines, model-checked; then the proofs about the
lease, the provider requests, the player synchronization, the limiters, the pages, the
selection, the files, what a walk knows and shows and from which matches it is tuned, the
feature passes, the replay and the identity of matches.

Next, in this order:

1. A composition of `LocalWorker` and `GoalTraining`, so that `OneTrainer` follows from
   `RunsFitLease` inside one specification; `NoTwoOperations` is the half of it about the lease.
2. `HistoricalImport`: importing twice is importing once, interrupted anywhere.
3. Standings, coverage and fair comparison as operators against a reference definition.

--------------------------- MODULE LocalWorkerProofs ---------------------------
(***************************************************************************)
(* Proofs about LocalWorker for every set of workers and all durations:     *)
(* the row is always consistent with who runs what, a successful fixture    *)
(* synchronization is not repeated early, and the worker implements         *)
(* SingletonLease.                                                          *)
(***************************************************************************)
EXTENDS LocalWorker, TLAPS

\* A clock reading is used while it is fresh.
ElapsedBound == \A w \in Worker : pc[w] \in PromptStage => elapsed[w] <= MaxLag

\* Why a success is not repeated early: either the interval is over, or what is
\* left of it is at least what next_fixture says; and no fixture operation runs
\* under the lease before it is over.
SuccessSpacing ==
  synced =>
    /\ since_success >= FixtureInterval \/ next_fixture + since_success >= FixtureInterval
    /\ current_operation \in FixtureOperation => since_success >= FixtureInterval

\* Why no training is claimed on an old reading: training is due no earlier than
\* the last success, as far back as a reading can be.
TrainingSpacing ==
  /\ TrainingEnabled => since_success >= MaxLag \/ next_training + since_success >= 0
  /\ since_training >= MaxLag \/ next_training + since_training >= 0
  /\ \A w \in Worker : pc[w] = "claim_training" => TrainingEnabled

IInv ==
  /\ TypeOK /\ ElapsedBound /\ StatusMatchesLease /\ OwnerRunsOperation
  /\ SuccessSpacing /\ TrainingSpacing

\* Facts about the constants in the form the proofs use them.
LEMMA Durations ==
  /\ MaxLag \in Nat /\ MaxLag > 0 /\ MaxRun \in Nat /\ Weeks \in Nat
  /\ MaxNews \in Nat /\ MaxStops \in Nat
  /\ Lease \in Nat /\ Lease > MaxLag
  /\ FixtureInterval \in Nat /\ FixtureInterval > MaxLag
  /\ FullInterval \in Nat /\ FullInterval > MaxLag
  /\ PlayerInterval \in Nat /\ PlayerInterval > MaxLag
  /\ Retry \in Nat /\ Retry > MaxLag
  /\ TrainingRetry \in Nat /\ TrainingRetry > MaxLag
  /\ NoTime \in Int /\ NoTime < 0 /\ NoTime = 0 - MaxLag
<1>1. /\ MaxLag \in Nat /\ MaxLag > 0 /\ MaxRun \in Nat
      /\ Weeks \in Nat /\ MaxNews \in Nat /\ MaxStops \in Nat
  BY DurationAssumption, BoundAssumption
<1>2. \A d \in {Lease, FixtureInterval, FullInterval, PlayerInterval, Retry, TrainingRetry} :
        d \in Nat /\ d > MaxLag
  BY DurationAssumption
<1>3. NoTime \in Int /\ NoTime < 0 /\ NoTime = 0 - MaxLag
  BY <1>1 DEF NoTime
<1> QED BY <1>1, <1>2, <1>3

\* The initial state satisfies the invariant: nothing is leased or scheduled.
LEMMA InitInv == Init => IInv
<1> SUFFICES ASSUME Init PROVE IInv
  OBVIOUS
<1>1. TypeOK
  <2>1. pc \in [Worker -> Stage] /\ elapsed \in [Worker -> Nat] /\ cut \in [Worker -> 0..Weeks]
    BY Durations DEF Init, Stage
  <2>2. lease_left \in NoTime..Lease /\ since_success \in 0..FixtureInterval
        /\ since_full \in 0..(FullInterval + MaxLag) /\ since_training \in 0..MaxLag
    BY Durations DEF Init
  <2>3. ready \in 0..Weeks /\ fresh \in 0..Weeks /\ news \in 0..MaxNews /\ stops \in 0..MaxStops
    BY Durations DEF Init
  <2>4. synced \in BOOLEAN /\ key \in BOOLEAN /\ season \in BOOLEAN
    BY Zenon DEF Init
  <2>5. /\ status \in {"idle", "syncing", "setup_required", "error", "quota_limited"}
        /\ current_operation \in Operation \cup {"none"}
        /\ lease_owner \in Worker \cup {Nobody, Departed}
    BY DEF Init
  <2>6. /\ next_fixture \in Int /\ next_fixture >= NoTime
        /\ next_player \in Int /\ next_player >= NoTime
        /\ next_training \in Int /\ next_training >= NoTime
    BY Durations DEF Init
  <2> QED BY <2>1, <2>2, <2>3, <2>4, <2>5, <2>6 DEF TypeOK
<1>2. /\ ElapsedBound /\ StatusMatchesLease /\ OwnerRunsOperation
      /\ SuccessSpacing /\ TrainingSpacing
  BY Durations, OwnerAssumption
  DEF Init, ElapsedBound, StatusMatchesLease, OwnerRunsOperation, SuccessSpacing, TrainingSpacing,
      PromptStage
<1> QED BY <1>1, <1>2 DEF IInv

USE DEF Operation, FixtureOperation, Stage, PromptStage, OperationStage, FixtureStage,
        TrainingStage, lease, schedule, data, world, vars, Goto

\* Starting a process, with or without a key, keeps the invariant.
LEMMA StartInv ==
  ASSUME IInv, NEW w \in Worker, Start(w)
  PROVE  IInv'
<1>1. CASE StartWithKey(w)
  BY <1>1, Durations, OwnerAssumption DEF IInv, TypeOK, ElapsedBound, StatusMatchesLease, OwnerRunsOperation, SuccessSpacing,
     TrainingSpacing, StartWithKey
<1>2. CASE StartWithoutKey(w)
  BY <1>2, Durations, OwnerAssumption DEF IInv, TypeOK, ElapsedBound, StatusMatchesLease, OwnerRunsOperation, SuccessSpacing,
     TrainingSpacing, StartWithoutKey
<1>3. CASE MarkSetupRequired(w)
  BY <1>3, Durations, OwnerAssumption DEF IInv, TypeOK, ElapsedBound, StatusMatchesLease, OwnerRunsOperation, SuccessSpacing,
     TrainingSpacing, MarkSetupRequired, LeaseActive
<1> QED BY <1>1, <1>2, <1>3 DEF Start

\* The fixture synchronization keeps the invariant.
LEMMA FixtureInv ==
  ASSUME IInv, NEW w \in Worker, FixtureStep(w)
  PROVE  IInv'
<1>1. CASE ClaimFixture(w)
  BY <1>1, Durations, OwnerAssumption DEF IInv, TypeOK, ElapsedBound, StatusMatchesLease, OwnerRunsOperation, SuccessSpacing,
     TrainingSpacing, ClaimFixture, Claim, LeaseActive, Due, FullDue
<1>2. CASE SkipFixture(w)
  BY <1>2, Durations, OwnerAssumption DEF IInv, TypeOK, ElapsedBound, StatusMatchesLease, OwnerRunsOperation, SuccessSpacing,
     TrainingSpacing, SkipFixture
<1>3. CASE CommitFixtures(w)
  BY <1>3, Durations, OwnerAssumption DEF IInv, TypeOK, ElapsedBound, StatusMatchesLease, OwnerRunsOperation, SuccessSpacing,
     TrainingSpacing, CommitFixtures
<1>4. CASE RecordProgress(w)
  BY <1>4, Durations, OwnerAssumption DEF IInv, TypeOK, ElapsedBound, StatusMatchesLease, OwnerRunsOperation, SuccessSpacing,
     TrainingSpacing, RecordProgress, OwnsLease
<1>5. CASE FinishFixture(w)
  BY <1>5, Durations, OwnerAssumption DEF IInv, TypeOK, ElapsedBound, StatusMatchesLease, OwnerRunsOperation, SuccessSpacing,
     TrainingSpacing, FinishFixture, Unlease, OwnsLease
<1>6. CASE ReadClock(w)
  BY <1>6, Durations, OwnerAssumption DEF IInv, TypeOK, ElapsedBound, StatusMatchesLease, OwnerRunsOperation, SuccessSpacing,
     TrainingSpacing, ReadClock
<1> QED BY <1>1, <1>2, <1>3, <1>4, <1>5, <1>6 DEF FixtureStep

\* The training part of the loop keeps the invariant.
LEMMA TrainingInv ==
  ASSUME IInv, NEW w \in Worker, TrainingStep(w)
  PROVE  IInv'
<1>1. CASE SkipTraining(w)
  BY <1>1, Durations, OwnerAssumption DEF IInv, TypeOK, ElapsedBound, StatusMatchesLease, OwnerRunsOperation, SuccessSpacing,
     TrainingSpacing, SkipTraining
<1>2. CASE DeferTraining(w)
  BY <1>2, Durations, OwnerAssumption DEF IInv, TypeOK, ElapsedBound, StatusMatchesLease, OwnerRunsOperation, SuccessSpacing,
     TrainingSpacing, DeferTraining, LeaseActive
<1>3. CASE SeeCutoff(w)
  BY <1>3, Durations, OwnerAssumption DEF IInv, TypeOK, ElapsedBound, StatusMatchesLease, OwnerRunsOperation, SuccessSpacing,
     TrainingSpacing, SeeCutoff
<1>4. CASE ClaimTraining(w)
  BY <1>4, Durations, OwnerAssumption DEF IInv, TypeOK, ElapsedBound, StatusMatchesLease, OwnerRunsOperation, SuccessSpacing,
     TrainingSpacing, ClaimTraining, Claim, LeaseActive, Due
<1>5. CASE TrainingNotDue(w)
  BY <1>5, Durations, OwnerAssumption DEF IInv, TypeOK, ElapsedBound, StatusMatchesLease, OwnerRunsOperation, SuccessSpacing,
     TrainingSpacing, TrainingNotDue
<1>6. CASE BeginFit(w)
  BY <1>6, Durations, OwnerAssumption DEF IInv, TypeOK, ElapsedBound, StatusMatchesLease, OwnerRunsOperation, SuccessSpacing,
     TrainingSpacing, BeginFit, CutoffExists
<1>7. CASE ActivateArtifact(w)
  BY <1>7, Durations, OwnerAssumption DEF IInv, TypeOK, ElapsedBound, StatusMatchesLease, OwnerRunsOperation, SuccessSpacing,
     TrainingSpacing, ActivateArtifact
<1>8. CASE FinishTraining(w)
  BY <1>8, Durations, OwnerAssumption DEF IInv, TypeOK, ElapsedBound, StatusMatchesLease, OwnerRunsOperation, SuccessSpacing,
     TrainingSpacing, FinishTraining, Unlease, OwnsLease
<1> QED BY <1>1, <1>2, <1>3, <1>4, <1>5, <1>6, <1>7, <1>8 DEF TrainingStep

\* The player synchronization keeps the invariant.
LEMMA PlayerInv ==
  ASSUME IInv, NEW w \in Worker, PlayerStep(w)
  PROVE  IInv'
<1>1. CASE ClaimPlayer(w)
  BY <1>1, Durations, OwnerAssumption DEF IInv, TypeOK, ElapsedBound, StatusMatchesLease, OwnerRunsOperation, SuccessSpacing,
     TrainingSpacing, ClaimPlayer, Claim, LeaseActive, Due
<1>2. CASE SkipPlayer(w)
  BY <1>2, Durations, OwnerAssumption DEF IInv, TypeOK, ElapsedBound, StatusMatchesLease, OwnerRunsOperation, SuccessSpacing,
     TrainingSpacing, SkipPlayer
<1>3. CASE FinishPlayer(w)
  BY <1>3, Durations, OwnerAssumption DEF IInv, TypeOK, ElapsedBound, StatusMatchesLease, OwnerRunsOperation, SuccessSpacing,
     TrainingSpacing, FinishPlayer, Unlease, OwnsLease
<1> QED BY <1>1, <1>2, <1>3 DEF PlayerStep

\* A failing operation keeps the invariant, owner or not.
LEMMA FailInv ==
  ASSUME IInv, NEW w \in Worker, Fail(w)
  PROVE  IInv'
  BY Durations, OwnerAssumption DEF IInv, TypeOK, ElapsedBound, StatusMatchesLease, OwnerRunsOperation, SuccessSpacing,
     TrainingSpacing, Fail, ScheduleRetry, OwnsLease

\* A process that ends keeps the invariant, whether or not it can release the lease.
LEMMA EndInv ==
  ASSUME IInv, NEW w \in Worker, Crash(w) \/ Stop(w)
  PROVE  IInv'
<1>1. CASE Crash(w)
  BY <1>1, Durations, OwnerAssumption DEF IInv, TypeOK, ElapsedBound, StatusMatchesLease, OwnerRunsOperation, SuccessSpacing,
     TrainingSpacing, Crash
<1>2. CASE Stop(w)
  BY <1>2, Durations, OwnerAssumption DEF IInv, TypeOK, ElapsedBound, StatusMatchesLease, OwnerRunsOperation, SuccessSpacing,
     TrainingSpacing, Stop, Unlease
<1> QED BY <1>1, <1>2

\* Every step keeps the invariant.
LEMMA NextInv == IInv /\ [Next]_vars => IInv'
<1> SUFFICES ASSUME IInv, [Next]_vars PROVE IInv'
  OBVIOUS
<1>1. CASE \E w \in Worker : Start(w) \/ Step(w) \/ Crash(w) \/ Stop(w)
  BY <1>1, StartInv, FixtureInv, TrainingInv, PlayerInv, FailInv, EndInv DEF Step
<1>2. CASE ChangeKey
  BY <1>2, Durations, OwnerAssumption DEF IInv, TypeOK, ElapsedBound, StatusMatchesLease, OwnerRunsOperation, SuccessSpacing,
     TrainingSpacing, ChangeKey
<1>3. CASE Tick
  BY <1>3, Durations, OwnerAssumption DEF IInv, TypeOK, ElapsedBound, StatusMatchesLease, OwnerRunsOperation, SuccessSpacing,
     TrainingSpacing, Tick, Elapse, Age, Timed, Patience
<1>4. CASE UNCHANGED vars
  BY <1>4, Durations, OwnerAssumption DEF IInv, TypeOK, ElapsedBound, StatusMatchesLease, OwnerRunsOperation, SuccessSpacing,
     TrainingSpacing, vars
<1> QED BY <1>1, <1>2, <1>3, <1>4 DEF Next

\* The strengthened invariant holds in every reachable state.
THEOREM Invariance == Spec => []IInv
  BY InitInv, NextInv, PTL DEF Spec

\* Every reachable state of the row and of the processes has its type.
THEOREM TypeCorrect == Spec => []TypeOK
<1>1. IInv => TypeOK
  BY DEF IInv
<1> QED BY <1>1, Invariance, PTL

\* The four lease columns of the row always agree with each other.
THEOREM LeaseColumnsAgree == Spec => []StatusMatchesLease
<1>1. IInv => StatusMatchesLease
  BY DEF IInv
<1> QED BY <1>1, Invariance, PTL

\* The operation in the row is the one its owner is in the middle of.
THEOREM OwnerIsRunning == Spec => []OwnerRunsOperation
<1>1. IInv => OwnerRunsOperation
  BY DEF IInv
<1> QED BY <1>1, Invariance, PTL

\* A step that begins a synchronization or a training is its claim.
LEMMA BeginIsClaim ==
  ASSUME IInv, [Next]_vars, NEW w \in Worker
  PROVE  /\ pc[w] = "claim_fixture" /\ pc'[w] = "fixture_fetch" => ClaimFixture(w)
         /\ pc[w] = "claim_training" /\ pc'[w] = "train" => ClaimTraining(w)
<1> USE DEF Start, Step, FixtureStep, TrainingStep, PlayerStep, StartWithKey,
       StartWithoutKey, MarkSetupRequired, ReadClock, ClaimFixture, SkipFixture,
       CommitFixtures, RecordProgress,
       FinishFixture, SkipTraining, DeferTraining, SeeCutoff, ClaimTraining,
       TrainingNotDue, BeginFit, ActivateArtifact, FinishTraining, ClaimPlayer,
       SkipPlayer, FinishPlayer, Fail, Crash, Stop
<1> SUFFICES ASSUME \/ pc[w] = "claim_fixture" /\ pc'[w] = "fixture_fetch"
                    \/ pc[w] = "claim_training" /\ pc'[w] = "train"
             PROVE  \/ pc[w] = "claim_fixture" /\ ClaimFixture(w)
                    \/ pc[w] = "claim_training" /\ ClaimTraining(w)
  OBVIOUS
<1>1. ~(UNCHANGED vars) /\ ~ChangeKey /\ ~Tick
  BY DEF ChangeKey, Tick
<1>2. PICK v \in Worker : Start(v) \/ Step(v) \/ Crash(v) \/ Stop(v)
  BY <1>1 DEF Next
<1>3. pc \in [Worker -> Stage]
  BY DEF IInv, TypeOK
<1>4. v = w
  <2> SUFFICES ASSUME v # w PROVE FALSE
    OBVIOUS
  <2>1. \E stage \in Stage : pc' = [pc EXCEPT ![v] = stage]
    BY <1>2
  <2> QED BY <1>3, <2>1
<1> QED
  BY <1>2, <1>3, <1>4

\* A fixture synchronization that succeeded is not repeated before its interval
\* is over, for any number of workers and any overrun.
THEOREM SuccessNotRepeated == Spec => NoDoubleSync
<1>1. IInv /\ [Next]_vars =>
        [\A w \in Worker :
           pc[w] = "claim_fixture" /\ pc'[w] = "fixture_fetch" => ~SyncedLately]_vars
  <2> SUFFICES ASSUME IInv, [Next]_vars, NEW w \in Worker,
                      pc[w] = "claim_fixture", pc'[w] = "fixture_fetch"
               PROVE  ~SyncedLately
    OBVIOUS
  <2>1. next_fixture <= 0 - elapsed[w]
    BY BeginIsClaim DEF ClaimFixture, Due
  <2> QED BY <2>1, Durations DEF IInv, TypeOK, SuccessSpacing, SyncedLately
<1> QED BY <1>1, Invariance, PTL DEF Spec, NoDoubleSync

-------------------------------------------------------------------------------
\* Training is never claimed on a reading that is older than the last successful
\* synchronization or training, for any number of workers (_claim_training).
THEOREM TrainingOnCurrentCutoff == Spec => NoTrainingOnOldCutoff
<1>1. IInv /\ [Next]_vars =>
        [\A w \in Worker :
           pc[w] = "claim_training" /\ pc'[w] = "train" =>
             since_success >= elapsed[w] /\ since_training >= elapsed[w]]_vars
  <2> SUFFICES ASSUME IInv, [Next]_vars, NEW w \in Worker,
                      pc[w] = "claim_training", pc'[w] = "train"
               PROVE  since_success >= elapsed[w] /\ since_training >= elapsed[w]
    OBVIOUS
  <2>1. next_training <= 0 - elapsed[w]
    BY BeginIsClaim DEF ClaimTraining, Due
  <2>2. elapsed[w] \in Nat /\ elapsed[w] <= MaxLag /\ TrainingEnabled
    BY DEF IInv, TypeOK, ElapsedBound, TrainingSpacing
  <2>3. since_success \in Int /\ since_training \in Int /\ next_training \in Int
    BY DEF IInv, TypeOK
  <2> QED BY <2>1, <2>2, <2>3, Durations DEF IInv, TrainingSpacing
<1> QED BY <1>1, Invariance, PTL DEF Spec, NoTrainingOnOldCutoff

-------------------------------------------------------------------------------
\* Every operation is over before the lease it claimed can run out, even when the
\* claim used the oldest clock reading the loop allows.
RunsFitLease == MaxRun < Lease - MaxLag

\* At most one process is anywhere between a claim and its finishing helper.
OneOperationAtATime ==
  \A v, w \in Worker : pc[v] \in OperationStage /\ pc[w] \in OperationStage => v = w

\* A process inside an operation still owns the lease, and what is left of the
\* lease together with the time the operation has used is at least the lease it
\* took at its claim.
RunsUnderLease ==
  \A w \in Worker : pc[w] \in OperationStage =>
    /\ lease_owner = w
    /\ lease_left + elapsed[w] >= Lease - MaxLag
    /\ elapsed[w] <= MaxRun

\* Under RunsFitLease nobody can take or clear the lease of a running operation.
LEMMA LeaseHeld ==
  ASSUME RunsFitLease, TypeOK, RunsUnderLease, NEW w \in Worker, pc[w] \in OperationStage
  PROVE  lease_left > 0 /\ LeaseActive(0) /\ \A l \in Nat : LeaseActive(l)
<1>1. lease_left \in Int /\ elapsed[w] \in Nat
  BY Durations DEF TypeOK
<1>2. lease_left > 0
  BY <1>1, Durations DEF RunsFitLease, RunsUnderLease
<1> QED BY <1>1, <1>2 DEF LeaseActive

\* A claim is made when no other operation runs, with a reading that is fresh.
LEMMA ClaimRuns ==
  ASSUME RunsFitLease, TypeOK, ElapsedBound, RunsUnderLease, NEW w \in Worker,
         ClaimFixture(w) \/ ClaimTraining(w) \/ ClaimPlayer(w)
  PROVE  RunsUnderLease'
<1>1. pc \in [Worker -> Stage] /\ elapsed \in [Worker -> Nat]
  BY DEF TypeOK
<1>2. PICK l \in 0..MaxLag :
        /\ ~LeaseActive(l)
        /\ lease_owner' = w
        /\ lease_left' = Lease - l
        /\ elapsed' = [elapsed EXCEPT ![w] = 0]
        /\ \E stage \in OperationStage : pc' = [pc EXCEPT ![w] = stage]
  <2>1. CASE ClaimFixture(w)
    <3>1. elapsed[w] \in 0..MaxLag
      BY <1>1, <2>1, Durations DEF ClaimFixture, ElapsedBound
    <3> QED BY <2>1, <3>1 DEF ClaimFixture, Claim
  <2>2. CASE ClaimTraining(w)
    <3>1. elapsed[w] \in 0..MaxLag
      BY <1>1, <2>2, Durations DEF ClaimTraining, ElapsedBound
    <3> QED BY <2>2, <3>1 DEF ClaimTraining, Claim
  <2>3. CASE ClaimPlayer(w)
    <3>1. elapsed[w] \in 0..MaxLag
      BY <1>1, <2>3, Durations DEF ClaimPlayer, ElapsedBound
    <3> QED BY <2>3, <3>1 DEF ClaimPlayer, Claim
  <2> QED BY <2>1, <2>2, <2>3
<1>3. \A v \in Worker : pc[v] \notin OperationStage
  BY <1>2, LeaseHeld
<1>4. \A v \in Worker : pc'[v] \in OperationStage => v = w
  BY <1>1, <1>2, <1>3
<1>5. elapsed'[w] = 0 /\ lease_left' + elapsed'[w] >= Lease - MaxLag
  BY <1>1, <1>2, Durations
<1> QED BY <1>2, <1>4, <1>5, Durations DEF RunsUnderLease

\* A step inside an operation keeps the lease (RecordProgress renews it) and does
\* not touch the time the operation has used.
LEMMA WorkRuns ==
  ASSUME TypeOK, RunsUnderLease, NEW w \in Worker,
         CommitFixtures(w) \/ RecordProgress(w) \/ BeginFit(w) \/ ActivateArtifact(w)
  PROVE  RunsUnderLease'
<1>1. pc \in [Worker -> Stage] /\ elapsed \in [Worker -> Nat] /\ lease_left \in Int
  BY Durations DEF TypeOK
<1>2. /\ pc[w] \in OperationStage
      /\ \E stage \in OperationStage : pc' = [pc EXCEPT ![w] = stage]
      /\ UNCHANGED <<lease_owner, elapsed>>
      /\ lease_left' = lease_left \/ lease_left' = Lease
  BY DEF CommitFixtures, RecordProgress, BeginFit, ActivateArtifact
<1>3. \A v \in Worker : pc'[v] \in OperationStage => pc[v] \in OperationStage
  BY <1>1, <1>2
<1> QED BY <1>1, <1>2, <1>3, Durations DEF RunsUnderLease

\* A step that ends the operation of a process, or is made outside of one, leaves
\* every other operation its lease.
LEMMA OutsideRuns ==
  ASSUME RunsFitLease, TypeOK, RunsUnderLease, NEW w \in Worker,
         \/ Start(w) \/ ReadClock(w) \/ SkipFixture(w) \/ FinishFixture(w) \/ SkipTraining(w)
         \/ DeferTraining(w) \/ SeeCutoff(w) \/ TrainingNotDue(w) \/ FinishTraining(w)
         \/ SkipPlayer(w) \/ FinishPlayer(w) \/ Fail(w) \/ Crash(w) \/ Stop(w)
  PROVE  RunsUnderLease'
<1>1. pc \in [Worker -> Stage] /\ elapsed \in [Worker -> Nat]
  BY DEF TypeOK
<1>2. \E stage \in Stage \ OperationStage : pc' = [pc EXCEPT ![w] = stage]
  BY DEF Start, StartWithKey, StartWithoutKey, MarkSetupRequired, ReadClock, SkipFixture, FinishFixture, SkipTraining,
     DeferTraining, SeeCutoff, TrainingNotDue, FinishTraining, SkipPlayer, FinishPlayer,
     Fail, Crash, Stop
<1>3. elapsed' = elapsed \/ elapsed' = [elapsed EXCEPT ![w] = 0]
  BY DEF Start, StartWithKey, StartWithoutKey, MarkSetupRequired, ReadClock, SkipFixture, FinishFixture, SkipTraining,
     DeferTraining, SeeCutoff, TrainingNotDue, FinishTraining, SkipPlayer, FinishPlayer,
     Fail, Crash, Stop
<1> SUFFICES ASSUME NEW v \in Worker, pc'[v] \in OperationStage
             PROVE  /\ lease_owner' = v
                    /\ lease_left' + elapsed'[v] >= Lease - MaxLag
                    /\ elapsed'[v] <= MaxRun
  BY DEF RunsUnderLease
<1>4. v # w /\ pc[v] \in OperationStage /\ elapsed'[v] = elapsed[v]
  BY <1>1, <1>2, <1>3
<1>5. lease_owner = v /\ LeaseActive(elapsed[w])
  BY <1>1, <1>4, LeaseHeld DEF RunsUnderLease
<1>6. UNCHANGED <<lease_owner, lease_left>>
  <2>1. lease_owner # w
    BY <1>4, <1>5
  <2> QED
    BY <1>5, <2>1 DEF Start, StartWithKey, StartWithoutKey, MarkSetupRequired,
     ReadClock, SkipFixture, FinishFixture,
       SkipTraining, DeferTraining, SeeCutoff, TrainingNotDue, FinishTraining, SkipPlayer,
       FinishPlayer, Fail, Crash, Stop, OwnsLease
<1> QED BY <1>4, <1>5, <1>6 DEF RunsUnderLease

\* The clock takes from the lease what it adds to the operation.
LEMMA TickRuns ==
  ASSUME RunsFitLease, TypeOK, RunsUnderLease, Tick
  PROVE  RunsUnderLease'
<1> SUFFICES ASSUME NEW w \in Worker, pc'[w] \in OperationStage
             PROVE  /\ lease_owner' = w
                    /\ lease_left' + elapsed'[w] >= Lease - MaxLag
                    /\ elapsed'[w] <= MaxRun
  BY DEF RunsUnderLease
<1>1. pc[w] \in OperationStage /\ lease_left \in Int /\ elapsed[w] \in Nat
  BY Durations DEF Tick, TypeOK
<1>2. lease_left > 0
  BY <1>1, LeaseHeld
<1>3. lease_left' = lease_left - 1
  BY <1>1, <1>2, Durations DEF Tick, Elapse
<1>4. Timed(w) /\ Patience(pc[w]) = MaxRun
  BY <1>1 DEF Timed, Patience
<1>5. elapsed'[w] = elapsed[w] + 1 /\ elapsed[w] < MaxRun
  BY <1>1, <1>4 DEF Tick
<1>6. lease_owner' = w /\ lease_left + elapsed[w] >= Lease - MaxLag
  BY <1>1 DEF Tick, RunsUnderLease
<1> QED BY <1>1, <1>3, <1>5, <1>6, Durations

\* Mutual exclusion: when no operation outlasts its lease, no two processes are
\* ever synchronizing, training or syncing players at the same time, through
\* crashes, restarts, key changes and stale clock readings. This is what the
\* worker's single lease row is for (_locked_state and the claims).
THEOREM NoTwoOperations ==
  ASSUME RunsFitLease
  PROVE  Spec => []OneOperationAtATime
<1>1. Init => RunsUnderLease
  BY DEF Init, RunsUnderLease
<1>2. IInv /\ RunsUnderLease /\ [Next]_vars => RunsUnderLease'
  <2> SUFFICES ASSUME IInv, RunsUnderLease, [Next]_vars PROVE RunsUnderLease'
    OBVIOUS
  <2>1. TypeOK /\ ElapsedBound
    BY DEF IInv
  <2>2. CASE Tick
    BY <2>1, <2>2, TickRuns
  <2>3. CASE ChangeKey \/ UNCHANGED vars
    BY <2>3 DEF ChangeKey, RunsUnderLease
  <2>4. ASSUME NEW w \in Worker, Start(w) \/ Step(w) \/ Crash(w) \/ Stop(w)
        PROVE  RunsUnderLease'
    <3>1. CASE ClaimFixture(w) \/ ClaimTraining(w) \/ ClaimPlayer(w)
      BY <2>1, <3>1, ClaimRuns
    <3>2. CASE CommitFixtures(w) \/ RecordProgress(w) \/ BeginFit(w) \/ ActivateArtifact(w)
      BY <2>1, <3>2, WorkRuns
    <3>3. CASE \/ Start(w) \/ ReadClock(w) \/ SkipFixture(w) \/ FinishFixture(w) \/ SkipTraining(w)
               \/ DeferTraining(w) \/ SeeCutoff(w) \/ TrainingNotDue(w) \/ FinishTraining(w)
               \/ SkipPlayer(w) \/ FinishPlayer(w) \/ Fail(w) \/ Crash(w) \/ Stop(w)
      BY <2>1, <3>3, OutsideRuns
    <3> QED
      BY <2>4, <3>1, <3>2, <3>3 DEF Step, FixtureStep, TrainingStep, PlayerStep
  <2> QED BY <2>2, <2>3, <2>4 DEF Next
<1>3. RunsUnderLease => OneOperationAtATime
  BY DEF RunsUnderLease, OneOperationAtATime
<1> QED BY <1>1, <1>2, <1>3, Invariance, PTL DEF Spec

-------------------------------------------------------------------------------
\* One step of the worker is a step of the lease, or leaves it alone.
LEMMA LeaseStep ==
  ASSUME IInv, [Next]_vars
  PROVE  [Singleton!LeaseNext]_(Singleton!leaseVars)
<1> USE DEF Singleton!LeaseNext, Singleton!leaseVars, Singleton!NoTime, NoTime
<1>1. CASE \E w \in Worker : Start(w) \/ Step(w) \/ Crash(w) \/ Stop(w)
  <2> PICK w \in Worker : Start(w) \/ Step(w) \/ Crash(w) \/ Stop(w)
    BY <1>1
  <2>1. CASE ClaimFixture(w) \/ ClaimTraining(w) \/ ClaimPlayer(w)
    <3>1. Singleton!Acquire(w)
      BY <2>1, Durations DEF IInv, TypeOK, ElapsedBound, ClaimFixture, ClaimTraining,
         ClaimPlayer, Claim, LeaseActive, Singleton!Acquire
    <3> QED BY <3>1
  <2>2. CASE RecordProgress(w)
    BY <2>2 DEF RecordProgress, OwnsLease, Singleton!Renew
  <2>3. CASE FinishFixture(w) \/ FinishTraining(w) \/ FinishPlayer(w)
    BY <2>3 DEF FinishFixture, FinishTraining, FinishPlayer, OwnsLease, Unlease,
       Singleton!Release
  <2>4. CASE Fail(w)
    BY <2>4 DEF Fail, OwnsLease, Singleton!Release
  <2>5. CASE Stop(w)
    BY <2>5 DEF Stop, Unlease, Singleton!Release
  <2>6. CASE Crash(w)
    BY <2>6 DEF Crash, Singleton!Depart
  <2>7. CASE MarkSetupRequired(w)
    <3>1. CASE LeaseActive(elapsed[w])
      BY <2>7, <3>1 DEF MarkSetupRequired
    <3>2. CASE ~LeaseActive(elapsed[w])
      <4>1. Singleton!Clear
        BY <2>7, <3>2, Durations DEF IInv, TypeOK, MarkSetupRequired, LeaseActive, Singleton!Clear
      <4> QED BY <4>1
    <3> QED BY <3>1, <3>2
  <2>8. CASE \/ StartWithKey(w) \/ StartWithoutKey(w) \/ ReadClock(w) \/ SkipFixture(w) \/ CommitFixtures(w)
             \/ SkipTraining(w) \/ DeferTraining(w) \/ SeeCutoff(w) \/ TrainingNotDue(w)
             \/ BeginFit(w) \/ ActivateArtifact(w) \/ SkipPlayer(w)
    BY <2>8 DEF StartWithKey, StartWithoutKey, ReadClock, SkipFixture, CommitFixtures, SkipTraining, DeferTraining,
       SeeCutoff, TrainingNotDue, BeginFit, ActivateArtifact, SkipPlayer
  <2> QED BY <2>1, <2>2, <2>3, <2>4, <2>5, <2>6, <2>7, <2>8
          DEF Start, Step, FixtureStep, TrainingStep, PlayerStep
<1>2. CASE ChangeKey
  BY <1>2 DEF ChangeKey
<1>3. CASE Tick
  BY <1>3 DEF Tick, Elapse, Singleton!Pass
<1>4. CASE UNCHANGED vars
  BY <1>4
<1> QED BY <1>1, <1>2, <1>3, <1>4 DEF Next

\* The worker implements the lease: it changes hands only by release or expiry.
THEOREM ImplementsLease == Spec => LeaseSpec
<1>1. Init => Singleton!LeaseInit
  BY DEF Init, Singleton!LeaseInit, Singleton!NoTime, NoTime
<1>2. IInv /\ [Next]_vars => [Singleton!LeaseNext]_(Singleton!leaseVars)
  BY LeaseStep
<1> QED BY <1>1, <1>2, Invariance, PTL DEF Spec, LeaseSpec, Singleton!LeaseSpec
===============================================================================

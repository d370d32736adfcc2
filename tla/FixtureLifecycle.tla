--------------------------- MODULE FixtureLifecycle ---------------------------
(***************************************************************************)
(* One match, from its first ingestion through postponements, new dates and *)
(* results (prem_engine_api.ingestion.fixtures, domain.lifecycle), and the  *)
(* simulations devices play of it (forecasting.user_play, api.forecasts).   *)
(*                                                                          *)
(* An ingestion first loads the match row into its session, without a lock, *)
(* and applies its payload later with that copy: SELECT ... FOR UPDATE      *)
(* waits for other transactions but does not refresh a row the session has  *)
(* already loaded. Schedule revisions, results and simulations are queried  *)
(* when they are used. A request reads the clock first and then works under *)
(* the lock of the match row until it commits.                              *)
(***************************************************************************)
EXTENDS Integers, Sequences

CONSTANTS
  Device,
  Client, DeviceOf,      \* concurrent requests, and the device each comes from
  Ingestor,              \* processes that may ingest fixtures
  Kickoff, Score,        \* kickoffs and final scores the provider may report
  Before, After,         \* PLAY_WINDOW_BEFORE and PLAY_WINDOW_AFTER
  MaxTime,               \* bound: the clock
  MaxRevision,           \* bound: schedule revisions
  MaxResult              \* bound: result revisions

ASSUME WindowAssumption ==
  /\ Before \in Nat /\ After \in Nat
  /\ Kickoff \subseteq Nat
  /\ DeviceOf \in [Client -> Device]

ASSUME LifecycleBounds == MaxTime \in Nat /\ MaxRevision \in Nat /\ MaxResult \in Nat

VARIABLES
  time,
  match,                 \* the row of matches: status and current_kickoff_at
  revisions,             \* rows of fixture_schedule_revisions, by revision_number
  results,               \* rows of actual_result_revisions, by revision_number
  sims,                  \* rows of device_simulations, by device and revision
  loaded,                \* the copy of the match row in each ingestion's session
  request                \* the request of each client

schedule == <<match, revisions>>
vars == <<time, schedule, results, sims, loaded, request>>

Off == {"postponed", "cancelled"}
Status == {"scheduled", "finished"} \cup Off
Absent == [status |-> "absent", kickoff |-> 0]
Row == [status : Status, kickoff : Kickoff]
Revision == [status : Status, kickoff : Kickoff, current : BOOLEAN]
Result == [score : Score, accepted : BOOLEAN, eligible : BOOLEAN]
Outcome == [state : {"played", "missed", "void"}, generated : BOOLEAN, at : Nat]

NoScore == "no score"   \* not a score
Payload == [status : Status, kickoff : Kickoff, score : Score \cup {NoScore}]

NotLoaded == [status |-> "not loaded", kickoff |-> 0]
Copy == Row \cup {Absent, NotLoaded}
NoRequest == [kind |-> "none", at |-> 0]

TypeOK ==
  /\ time \in 0..MaxTime
  /\ match \in Row \cup {Absent}
  /\ revisions \in Seq(Revision)
  /\ results \in Seq(Result)
  /\ DOMAIN sims \subseteq Device \X DOMAIN revisions
  /\ sims \in [DOMAIN sims -> Outcome]
  /\ loaded \in [Ingestor -> Copy]
  /\ request \in [Client -> [kind : {"none", "play", "view"}, at : 0..MaxTime]]

Init ==
  /\ time = 0 /\ match = Absent
  /\ revisions = <<>> /\ results = <<>>
  /\ sims = [key \in {} |-> NoRequest]
  /\ loaded = [i \in Ingestor |-> NotLoaded]
  /\ request = [c \in Client |-> NoRequest]

Tick ==
  /\ time < MaxTime /\ time' = time + 1
  /\ UNCHANGED <<schedule, results, sims, loaded, request>>

-------------------------------------------------------------------------------
(* Ingestion                                                                 *)

Current == {n \in DOMAIN revisions : revisions[n].current}

\* The schedule after a new revision has superseded the current one.
RevisedKeepingCurrent(status, kickoff) ==
  Append(revisions, [status |-> status, kickoff |-> kickoff, current |-> TRUE])
Revised(status, kickoff) ==
  Append([n \in DOMAIN revisions |-> [revisions[n] EXCEPT !.current = FALSE]],
         [status |-> status, kickoff |-> kickoff, current |-> TRUE])

\* _void_results_for_replay
VoidedAcceptedOnly ==
  [n \in DOMAIN results |->
     IF results[n].accepted THEN [results[n] EXCEPT !.accepted = FALSE] ELSE results[n]]
VoidedResults ==
  [n \in DOMAIN results |-> [results[n] EXCEPT !.accepted = FALSE, !.eligible = FALSE]]

\* _void_device_simulations on the current revision
VoidedSimulations ==
  [key \in DOMAIN sims |->
     IF key[2] \in Current THEN [sims[key] EXCEPT !.state = "void"] ELSE sims[key]]

\* _upsert_actual_result on the result rows old
WithResultEvenWithoutScore(old, p) ==
  IF p.status # "finished" \/ \E n \in DOMAIN old : old[n].accepted /\ old[n].score = p.score
  THEN old
  ELSE Append([n \in DOMAIN old |-> [old[n] EXCEPT !.accepted = FALSE]],
              [score |-> p.score, accepted |-> TRUE, eligible |-> TRUE])
WithResult(old, p) ==
  IF p.status # "finished" \/ p.score = NoScore
     \/ \E n \in DOMAIN old : old[n].accepted /\ old[n].score = p.score
  THEN old
  ELSE Append([n \in DOMAIN old |-> [old[n] EXCEPT !.accepted = FALSE]],
              [score |-> p.score, accepted |-> TRUE, eligible |-> TRUE])

\* _ingest_fixture loads the match of the payload; the provider's answer was
\* fetched before and may be older.
Load(i) ==
  /\ loaded[i] = NotLoaded
  /\ loaded' = [loaded EXCEPT ![i] = match]
  /\ UNCHANGED <<time, schedule, results, sims, request>>

\* The first payload creates the match and its first revision.
Create(i, p) ==
  /\ loaded[i] = Absent /\ match = Absent
  /\ match' = [status |-> p.status, kickoff |-> p.kickoff]
  /\ revisions' = Revised(p.status, p.kickoff)
  /\ results' = WithResult(results, p)
  /\ UNCHANGED sims

\* postpone_match and cancel_match
CallOff(i, p) ==
  /\ loaded[i] # Absent
  /\ p.status \in Off /\ loaded[i].status # p.status
  /\ match' = [match EXCEPT !.status = p.status]
  /\ revisions' = Revised(p.status, loaded[i].kickoff)
  /\ results' = VoidedResults
  /\ sims' = VoidedSimulations

\* reschedule_match, and the status written after it. A column whose value in the
\* session does not change is not written.
Reschedule(i, p) ==
  /\ loaded[i] # Absent
  /\ p.status \notin Off /\ p.kickoff # loaded[i].kickoff
  /\ match' = [status |-> IF loaded[i].status = "scheduled" /\ p.status = "scheduled"
                          THEN match.status ELSE p.status,
               kickoff |-> p.kickoff]
  /\ revisions' = Revised(p.status, p.kickoff)
  /\ results' = WithResult(VoidedResults, p)
  /\ sims' = VoidedSimulations

\* _append_status_revision: the current revision gets the status in place.
ChangeStatus(i, p) ==
  /\ loaded[i] # Absent
  /\ p.status \notin Off \cup {loaded[i].status} /\ p.kickoff = loaded[i].kickoff
  /\ match' = [match EXCEPT !.status = p.status]
  /\ revisions' = [n \in DOMAIN revisions |->
                     IF n \in Current THEN [revisions[n] EXCEPT !.status = p.status]
                     ELSE revisions[n]]
  /\ results' = WithResult(results, p)
  /\ UNCHANGED sims

\* Nothing but the score can be new.
Confirm(i, p) ==
  /\ loaded[i] # Absent /\ p.status = loaded[i].status
  /\ p.status \in Off \/ p.kickoff = loaded[i].kickoff
  /\ results' = WithResult(results, p)
  /\ UNCHANGED <<match, revisions, sims>>

Apply(i, p) ==
  /\ loaded[i] # NotLoaded
  /\ Create(i, p) \/ CallOff(i, p) \/ Reschedule(i, p) \/ ChangeStatus(i, p) \/ Confirm(i, p)
  /\ Len(revisions') <= MaxRevision /\ Len(results') <= MaxResult
  /\ loaded' = [loaded EXCEPT ![i] = NotLoaded]
  /\ UNCHANGED <<time, request>>

\* The transaction is rolled back: the process ends, or two ingestions create the
\* same match reference.
Abort(i) ==
  /\ loaded[i] # NotLoaded
  /\ loaded' = [loaded EXCEPT ![i] = NotLoaded]
  /\ UNCHANGED <<time, schedule, results, sims, request>>

-------------------------------------------------------------------------------
(* Requests of the devices                                                   *)

\* GET .../forecast or POST .../play arrives and reads the clock.
Ask(c) ==
  /\ request[c] = NoRequest
  /\ \E kind \in {"play", "view"} :
       request' = [request EXCEPT ![c] = [kind |-> kind, at |-> time]]
  /\ UNCHANGED <<time, schedule, results, sims, loaded>>

\* play_window
Opens(n) == revisions[n].kickoff - Before
ClosesEarly(n) == revisions[n].kickoff
Closes(n) == revisions[n].kickoff + After

\* The current revision the client's device has no simulation for, if any.
UndecidedAnyway(c) == Current
Undecided(c) == {n \in Current : <<DeviceOf[c], n>> \notin DOMAIN sims}

Record(c, n, state) ==
  sims' = [key \in DOMAIN sims \cup {<<DeviceOf[c], n>>} |->
             IF key = <<DeviceOf[c], n>>
             THEN [state |-> state, generated |-> state = "played", at |-> request[c].at]
             ELSE sims[key]]

\* load_play_context records a closed window nobody used; a Play is then refused
\* with play_window_missed, which commits.
RecordMissed(c) ==
  \E n \in Undecided(c) :
    /\ request[c].at > Closes(n) /\ revisions[n].status \notin Off
    /\ Record(c, n, "missed")

\* play_device_simulation; the factory refuses a cutoff that is not the match's
\* prediction_due_at. Whether the fixture data is current is LocalWorker's affair.
Play(c) ==
  \E n \in Undecided(c) :
    /\ request[c].kind = "play" /\ revisions[n].status \notin Off
    /\ Opens(n) <= request[c].at /\ request[c].at <= Closes(n)
    /\ revisions[n].kickoff = match.kickoff
    /\ Record(c, n, "played")

\* Whatever the request did commits or is rolled back as a whole: it may be
\* refused (locked, off, stale fixture data) or fail, and it may find an outcome.
Respond(c) ==
  /\ request[c] # NoRequest
  /\ RecordMissed(c) \/ Play(c) \/ UNCHANGED sims
  /\ request' = [request EXCEPT ![c] = NoRequest]
  /\ UNCHANGED <<time, schedule, results, loaded>>

-------------------------------------------------------------------------------
Ingest(i) == Load(i) \/ Abort(i) \/ \E p \in Payload : Apply(i, p)

Next ==
  \/ Tick
  \/ \E i \in Ingestor : Ingest(i)
  \/ \E c \in Client : Ask(c) \/ Respond(c)

Spec == Init /\ [][Next]_vars

-------------------------------------------------------------------------------
(* Properties                                                                *)

\* A match that is known has exactly one current schedule revision, the newest
\* one, and it agrees with the match row on kickoff and status: the readers of
\* the row (the factory, the list of fixtures) and those of the revision (the
\* Play window, the coverage of the tables) see the same schedule.
RevisionMatchesFixture ==
  match # Absent =>
    /\ Current = {Len(revisions)}
    /\ revisions[Len(revisions)].kickoff = match.kickoff
    /\ revisions[Len(revisions)].status = match.status

\* The accepted result is the newest one that was not voided, and a match that
\* is postponed or cancelled has none: what training and the real table read.
AcceptedIsNewest ==
  /\ \A n \in DOMAIN results :
       results[n].accepted <=> /\ results[n].eligible
                               /\ \A k \in DOMAIN results : results[k].eligible => k <= n
  /\ match.status \in Off => \A n \in DOMAIN results : ~results[n].eligible

\* A simulation that counts was played in the window of the kickoff the match
\* now has, and a missed one was recorded after that window had closed, however
\* long the request waited for the lock and whatever the ingestion did meanwhile.
CountedPlayInWindow ==
  \A key \in DOMAIN sims :
    LET sim == sims[key]
    IN  /\ sim.state = "played" => /\ key[2] \in Current /\ match.status \notin Off
                                   /\ match.kickoff - Before <= sim.at
                                   /\ sim.at <= match.kickoff + After
        /\ sim.state = "missed" => key[2] \in Current /\ sim.at > match.kickoff + After
        /\ sim.generated => sim.state # "missed"

\* Devices and ingestions together implement PlayLedger: one outcome for a
\* device and a revision, never replaced, and none of them counts when the
\* schedule changes.
Ledger == INSTANCE PlayLedger WITH
            open <- Len(revisions),
            ledger <- [key \in DOMAIN sims |-> sims[key].state]
LedgerSpec == Ledger!LedgerSpec

\* docs/deployment/CLONEABLE_LOCAL_ARCHITECTURE.md:307 and :322: a missed
\* simulation stays missed for its revision, also when the match is rescheduled.
MissedStaysMissed ==
  [][\A key \in DOMAIN sims :
       sims[key].state = "missed" => sims'[key].state = "missed"]_vars

\* docs/architecture/LIFECYCLE_POLICY.md:122: the new Play window is relative to
\* the revised kickoff. With two ingestions the row and its revision can part.
WindowFollowsKickoff ==
  match.status = "scheduled" =>
    \A n \in Current : revisions[n].status = "scheduled" => revisions[n].kickoff = match.kickoff
===============================================================================

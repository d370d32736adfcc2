------------------------------- MODULE StoredReplay -------------------------------
(***************************************************************************)
(* A played match: its score and statistics are sampled, every counted     *)
(* event gets a time, and the whole is validated and stored at once.  Then *)
(* the match page reveals the stored events along a clock of one minute,   *)
(* and the simulated table counts the score.                               *)
(*                                                                         *)
(* Times of events are football seconds.  Corners, fouls and cards are     *)
(* treated alike and stand here as fouls; players and texts are left out.  *)
(***************************************************************************)
EXTENDS Integers, Sequences, FiniteSets, SequencesExt, Places

CONSTANTS
    Scorelines,   \* scores that may be sampled, by side
    Samples,      \* statistics of a side that may be sampled
    FirstHalf, SecondHalf, Late,  \* times events may get (3:00-44:59, 47:00-89:59,
                                  \* 58:00-83:59)
    Substitutions \* of each side (3)

Sides == {"home", "away"}
NoSide == "none"
Duration == 60

ASSUME ReplayAssumption ==
    /\ Scorelines \subseteq [Sides -> Nat]
    /\ Samples \subseteq [halfTime : Nat, shots : Nat, onTarget : Nat, fouls : Nat]
    /\ FirstHalf \subseteq 180..2699 /\ SecondHalf \subseteq 2820..5399
    /\ Late \subseteq 3480..5039 /\ Substitutions \in Nat

VARIABLES
    rpOwner,    \* "device", or "shared" for a record of the old lifecycle
    rpScore, rpStatistics,   \* of the simulation, by side
    rpToCome,   \* events that have no time yet
    rpEvents,   \* the events, stored in their order once none is to come
    rpStored,
    rpElapsed   \* seconds since the presentation began

replayVars ==
    <<rpOwner, rpScore, rpStatistics, rpToCome, rpEvents, rpStored, rpElapsed>>

-----------------------------------------------------------------------------
(* Generation *)

AdjustedUncapped(goals, sample) ==
    [halfTime |-> Min({goals, sample.halfTime}),
     shots |-> Max({goals, sample.shots}),
     onTarget |-> Max({goals, sample.onTarget}),
     fouls |-> sample.fouls]

\* goals are shots on target, these are shots, and the goals before the break
\* are some of the goals
Adjusted(goals, sample) ==
    LET shots == Max({goals, sample.shots})
    IN  [halfTime |-> Min({goals, sample.halfTime}),
         shots |-> shots,
         onTarget |-> Min({shots, Max({goals, sample.onTarget})}),
         fouls |-> sample.fouls]

\* the goals are the first shots on target, and these the first shots
TeamEvents(side, goals, s) ==
    LET Event(type, period) == [side |-> side, type |-> type, period |-> period]
        openPlay == FirstHalf \cup SecondHalf
    IN  [i \in 1..(s.shots + s.fouls + Substitutions) |->
           CASE i \in 1..s.halfTime -> Event("goal", FirstHalf)
             [] i \in (s.halfTime + 1)..goals -> Event("goal", SecondHalf)
             [] i \in (goals + 1)..s.onTarget -> Event("shot_on_target", openPlay)
             [] i \in (s.onTarget + 1)..s.shots -> Event("shot", openPlay)
             [] i \in (s.shots + 1)..(s.shots + s.fouls) -> Event("foul", openPlay)
             [] OTHER -> Event("substitution", Late)]

Plan(score, statistics) ==
    TeamEvents("home", score["home"], statistics["home"])
      \o TeamEvents("away", score["away"], statistics["away"])

Marker(type, time) == [side |-> NoSide, type |-> type, time |-> time]

Markers == <<Marker("kickoff", 0), Marker("half_time", 2700),
             Marker("second_half", 2760), Marker("full_time", 5400)>>

Priority(type) ==
    IF type = "full_time" THEN 9
    ELSE IF type \in {"kickoff", "half_time", "second_half"} THEN 0 ELSE 4

SideRank(side) == CASE side = NoSide -> 0 [] side = "away" -> 1 [] OTHER -> 2

\* by time and priority, away before home, and else as they were generated
ComesBefore(pending, i, j) ==
    LET a == pending[i]
        b == pending[j]
    IN  \/ a.time < b.time
        \/ a.time = b.time /\ Priority(a.type) < Priority(b.type)
        \/ /\ a.time = b.time /\ Priority(a.type) = Priority(b.type)
           /\ \/ SideRank(a.side) < SideRank(b.side)
              \/ SideRank(a.side) = SideRank(b.side) /\ i < j

Ordered(pending) ==
    LET earlier == [i \in DOMAIN pending |-> {j \in DOMAIN pending : ComesBefore(pending, j, i)}]
        order == InPlaces(DOMAIN pending, earlier)
    IN  [i \in DOMAIN pending |-> pending[order[i]]]

Count(events, side, types) ==
    Cardinality({i \in DOMAIN events : events[i].side = side /\ events[i].type \in types})

\* every event carries the score at its moment
FinalizeEvents(pending) ==
    LET ordered == Ordered(pending \o Markers)
        Goals(i, side) == Count(SubSeq(ordered, 1, i), side, {"goal"})
    IN  [i \in DOMAIN ordered |->
           [side |-> ordered[i].side, type |-> ordered[i].type, time |-> ordered[i].time,
            score |-> [s \in Sides |-> Goals(i, s)]]]

CountedStatistics(events, side) ==
    [halfTime |-> Cardinality({i \in DOMAIN events : /\ events[i].side = side
                                  /\ events[i].type = "goal" /\ events[i].time < 2700}),
     shots |-> Count(events, side, {"shot", "shot_on_target", "goal"}),
     onTarget |-> Count(events, side, {"shot_on_target", "goal"}),
     fouls |-> Count(events, side, {"foul"})]

\* a payload that contradicts itself is refused and nothing is stored
Consistent(events, score, statistics) ==
    /\ \A i \in 2..Len(events) : events[i - 1].time <= events[i].time
    /\ events[1].type = "kickoff" /\ Last(events).type = "full_time"
    /\ \A i \in DOMAIN events : \A side \in Sides :
         events[i].score[side] = Count(SubSeq(events, 1, i), side, {"goal"})
    /\ \A side \in Sides :
         /\ Count(events, side, {"goal"}) = score[side]
         /\ CountedStatistics(events, side) = statistics[side]

Sample ==
    /\ rpScore = <<>>
    /\ rpScore' \in Scorelines
    /\ \E home, away \in Samples :
         /\ rpStatistics' = [s \in Sides |->
              Adjusted(rpScore'[s], IF s = "home" THEN home ELSE away)]
         /\ rpToCome' = Plan(rpScore', rpStatistics')
    /\ UNCHANGED <<rpOwner, rpEvents, rpStored, rpElapsed>>

SampleTime ==
    /\ rpToCome # <<>>
    /\ LET event == Head(rpToCome)
       IN  \E time \in event.period :
             rpEvents' = Append(rpEvents, [side |-> event.side, type |-> event.type,
                                           time |-> time])
    /\ rpToCome' = Tail(rpToCome)
    /\ UNCHANGED <<rpOwner, rpScore, rpStatistics, rpStored, rpElapsed>>

StoreSimulation ==
    /\ rpScore # <<>> /\ rpToCome = <<>> /\ ~rpStored
    /\ rpEvents' = FinalizeEvents(rpEvents)
    /\ Consistent(rpEvents', rpScore, rpStatistics)
    /\ rpStored' = TRUE
    /\ UNCHANGED <<rpOwner, rpScore, rpStatistics, rpToCome, rpElapsed>>

-----------------------------------------------------------------------------
(* The page of the match and the simulated table *)

\* 25 seconds for each half and 10 for the interval
FootballSecond(elapsed) ==
    IF elapsed < 25 THEN (2700 * elapsed) \div 25
    ELSE IF elapsed < 35 THEN 2700
    ELSE IF elapsed < Duration THEN 2700 + (2700 * (elapsed - 35)) \div 25
    ELSE 5400

Complete(elapsed) == elapsed >= Duration

VisibleEvents(elapsed) ==
    Picked(rpEvents, {i \in DOMAIN rpEvents :
        Complete(elapsed) \/ rpEvents[i].time <= FootballSecond(elapsed)})

\* what the page shows; the score and the statistics of the end come from the
\* record, the others from the events
Page(elapsed) ==
    LET visible == VisibleEvents(elapsed)
    IN  [score |-> IF visible = <<>> THEN [s \in Sides |-> 0] ELSE Last(visible).score,
         statistics |-> [s \in Sides |-> CountedStatistics(visible, s)],
         finished |-> Complete(elapsed)]

\* the table counts the games a device has played, and a shared record when
\* its presentation is over
InSimulatedTable == rpStored /\ (rpOwner = "device" \/ Complete(rpElapsed))

TimeElapses ==
    /\ rpStored /\ rpElapsed < Duration
    /\ rpElapsed' = rpElapsed + 1
    /\ UNCHANGED <<rpOwner, rpScore, rpStatistics, rpToCome, rpEvents, rpStored>>

StoredReplayStart ==
    /\ rpScore = <<>> /\ rpStatistics = <<>>
    /\ rpToCome = <<>> /\ rpEvents = <<>>
    /\ rpStored = FALSE /\ rpElapsed = 0

StoredReplayInit == rpOwner \in {"device", "shared"} /\ StoredReplayStart

StoredReplayNext == Sample \/ SampleTime \/ StoreSimulation \/ TimeElapses

StoredReplaySpec == StoredReplayInit /\ [][StoredReplayNext]_replayVars

-----------------------------------------------------------------------------
(* Properties *)

\* Whatever is sampled can be stored: a Play never fails on what the generator
\* made itself.  The page tells the stored match and nothing else: it reveals
\* its events one after the other and never takes one back, the score and
\* the counts it shows are those of the events shown, the score of the break is
\* that of the half-time goals, and at the end they are those of the record.
ReplayTellsTheMatch ==
    /\ (rpScore # <<>> /\ rpToCome = <<>>) =>
         Consistent(IF rpStored THEN rpEvents ELSE FinalizeEvents(rpEvents),
                    rpScore, rpStatistics)
    /\ rpStored =>
         LET page == Page(rpElapsed)
             visible == VisibleEvents(rpElapsed)
         IN  /\ IsPrefix(visible, rpEvents)
             /\ rpElapsed > 0 => IsPrefix(VisibleEvents(rpElapsed - 1), visible)
             /\ \A s \in Sides :
                  /\ page.score[s] = Count(visible, s, {"goal"})
                  /\ rpElapsed \in 25..34 => page.score[s] = rpStatistics[s].halfTime
                  /\ page.finished =>
                       page.score[s] = rpScore[s] /\ page.statistics[s] = rpStatistics[s]

\* docs/phase-16b/STANDINGS_AND_EVALUATION.md:39: a simulation does not enter
\* the table until its reveal has completed, so that the table cannot leak a
\* result before the match page reveals it.
TableWaitsForReveal == InSimulatedTable => Page(rpElapsed).finished

=============================================================================

------------------------------- MODULE RateLimiter -------------------------------
(***************************************************************************)
(* The sliding-window limiters of the API and of the page server: at most  *)
(* Limit requests of a client in any Window, in a table of MaxKeys         *)
(* clients.  A request runs to its end before the next one: the lock of    *)
(* the API's limiter is never held across an await, and the page server's  *)
(* limiter is synchronous.                                                 *)
(*                                                                         *)
(* The two differ in what makes a client old: the API's keeps the times of *)
(* the allowed requests only, the page server's also when it was last seen.*)
(***************************************************************************)
EXTENDS Integers, Sequences, FiniteSets, SequencesExt

CONSTANTS
    Sources,        \* addresses requests come from
    Limit, Window,  \* requests in a window, and its length
    MaxKeys,        \* places of the table (10 000)
    LastTime,       \* bound: last tick
    MaxConsumed     \* bound: requests

ASSUME LimiterAssumption ==
    /\ IsFiniteSet(Sources) /\ "nobody" \notin Sources
    /\ Limit \in Nat \ {0} /\ Window \in Nat \ {0} /\ MaxKeys \in Nat \ {0}
    /\ LastTime \in Nat /\ MaxConsumed \in Nat

VARIABLES
    rlKind,      \* "api" or "page"
    rlNow,
    rlTable,     \* source -> its window
    rlDecisions  \* every decision so far, and the source that lost its place for it

limiterVars == <<rlKind, rlNow, rlTable, rlDecisions>>

Nobody == "nobody"

\* the newest time a window knows
Newest(window) == IF rlKind = "api" THEN Last(window.times) ELSE window.seen

Without(table, sources) == [s \in DOMAIN table \ sources |-> table[s]]

Expired(table) == {s \in DOMAIN table : Newest(table[s]) <= rlNow - Window}

\* of two that are equally old the one that came first goes; which one that
\* was is left open
Oldest(table) ==
    {s \in DOMAIN table : \A t \in DOMAIN table : Newest(table[s]) <= Newest(table[t])}

EvictAnyone(table) ==
    IF Cardinality(DOMAIN table) < MaxKeys THEN {<<table, Nobody>>}
    ELSE {<<Without(table, {s}), s>> : s \in Oldest(table)}

\* the clients that remain, and who was dropped though his window was live
MakeRoom(table) ==
    LET live == Without(table, Expired(table))
    IN  IF Cardinality(DOMAIN table) < MaxKeys THEN {<<table, Nobody>>}
        ELSE IF Cardinality(DOMAIN live) < MaxKeys THEN {<<live, Nobody>>}
        ELSE {<<Without(live, {s}), s>> : s \in Oldest(live)}

\* the expired times are dropped as long as they lead
Recent(times) ==
    LET first == CHOOSE i \in 1..(Len(times) + 1) :
                   /\ \A j \in 1..(i - 1) : times[j] <= rlNow - Window
                   /\ i <= Len(times) => times[i] > rlNow - Window
    IN  SubSeq(times, first, Len(times))

ResetAfter(times) ==
    LET rest == times[1] + Window - rlNow IN IF rest < 1 THEN 1 ELSE rest

\* consume: room is made for an unknown source, its expired times dropped, and
\* the request counted only if it is allowed
Consume(source) ==
    /\ Len(rlDecisions) < MaxConsumed
    /\ \E room \in IF source \in DOMAIN rlTable THEN {<<rlTable, Nobody>>}
                   ELSE MakeRoom(rlTable) :
         LET known == source \in DOMAIN room[1]
             recent == IF known THEN Recent(room[1][source].times) ELSE <<>>
             allowed == Len(recent) < Limit
             times == IF allowed THEN Append(recent, rlNow) ELSE recent
         IN  /\ rlTable' = [s \in DOMAIN room[1] \cup {source} |->
                              IF s = source THEN [times |-> times, seen |-> rlNow]
                              ELSE room[1][s]]
             /\ rlDecisions' = Append(rlDecisions,
                  [source |-> source, at |-> rlNow, allowed |-> allowed,
                   evicted |-> room[2], resets |-> rlNow + ResetAfter(times)])
    /\ UNCHANGED <<rlKind, rlNow>>

TimePasses ==
    /\ rlNow < LastTime /\ rlNow' = rlNow + 1
    /\ UNCHANGED <<rlKind, rlTable, rlDecisions>>

RateLimiterStart ==
    /\ rlNow = 0
    /\ rlTable = << >>
    /\ rlDecisions = <<>>

RateLimiterInit == rlKind \in {"api", "page"} /\ RateLimiterStart

RateLimiterNext == (\E s \in Sources : Consume(s)) \/ TimePasses

RateLimiterSpec == RateLimiterInit /\ [][RateLimiterNext]_limiterVars

-----------------------------------------------------------------------------
(* Properties *)

\* the requests of one source that were allowed within a window before the
\* n-th decision, since it last lost its place
Charged(n) ==
    LET d == rlDecisions
        lost == {i \in 1..n : d[i].evicted = d[n].source}
    IN  {i \in 1..(n - 1) : /\ d[i].source = d[n].source /\ d[i].allowed
                            /\ d[i].at > d[n].at - Window
                            /\ \A j \in lost : j < i}

\* A request is refused exactly when its client has used up its window, also
\* one that was refused meanwhile; a refused client that comes back when it was
\* told to is not refused because of the requests that refused it; and only a
\* table full of live windows lets one of them be forgotten.
LimitExact ==
    \A n \in DOMAIN rlDecisions :
        LET d == rlDecisions[n]
            live == {s \in Sources : \E i \in 1..(n - 1) :
                       /\ rlDecisions[i].source = s
                       /\ rlDecisions[i].at > d.at - Window}
        IN  /\ d.allowed <=> Cardinality(Charged(n)) < Limit
            /\ ~d.allowed => \E i \in Charged(n) : rlDecisions[i].at + Window <= d.resets
            /\ d.evicted # Nobody => Cardinality(live \ {d.source}) >= MaxKeys

=============================================================================

------------------------------ MODULE ForecastPoller ------------------------------
(***************************************************************************)
(* The pages of one match in the tabs of one browser: one of them at a     *)
(* time polls the forecast under a lock and broadcasts what it gets, the   *)
(* others wait for the lock.  Tabs are hidden and shown, pages close and   *)
(* open again, requests fail, and the match ends and may be restored.      *)
(*                                                                         *)
(* Of the twelve lifecycle states the poller tells apart those after which *)
(* it stops ("final") and the others ("open").  A page takes its events in *)
(* order: a broadcast reaches it before a lock granted after it was sent.  *)
(***************************************************************************)
EXTENDS Integers, Sequences, FiniteSets

CONSTANTS
    Pages,          \* subscriptions, in the order in which they are made
    TabOf,          \* the tab of each page
    MaxToggles,     \* bound: hidings and showings of tabs
    MaxTurns,       \* bound: ends and restorations of the match
    MaxInbox        \* bound: broadcasts on their way to a page

ASSUME PollerAssumption == MaxToggles \in Nat /\ MaxTurns \in Nat /\ MaxInbox \in Nat \ {0}

VARIABLES
    fpMatch,    \* what the server would answer: "open" or "final"
    fpVisible,  \* the visible tabs
    fpPages,    \* the state of each page
    fpToggles, fpTurns

pollerVars == <<fpMatch, fpVisible, fpPages, fpToggles, fpTurns>>

Tabs == {TabOf[p] : p \in Pages}

\* pollPending, latestState and the poll itself: none, queued for the lock,
\* fetching, waiting for its timer, or over while its promise settles
NewPage == [active |-> FALSE, opened |-> FALSE, pending |-> FALSE, poll |-> "none",
            latest |-> "none", asked |-> "none", inbox |-> <<>>,
            told |-> FALSE, missed |-> FALSE]

Polling(page) == page.poll \in {"fetching", "waiting"}
Shown(p) == TabOf[p] \in fpVisible

\* start() of a visible page: nothing while a poll is pending, even one that is
\* already over
Start(page) ==
    IF ~page.active THEN page
    ELSE IF page.pending THEN [page EXCEPT !.missed = page.poll = "over"]
    ELSE [page EXCEPT !.pending = TRUE, !.poll = "queued", !.missed = FALSE]

Deliver(page, state) ==
    IF page.active THEN [page EXCEPT !.latest = state, !.told = @ \/ state = "final"]
    ELSE page

\* the condition of the loop; what it ends with settles in a later task
Loop(p, page) ==
    IF page.active /\ Shown(p) /\ page.latest # "final"
    THEN [page EXCEPT !.poll = "fetching", !.asked = fpMatch]
    ELSE [page EXCEPT !.poll = "over"]

-----------------------------------------------------------------------------
(* A page *)

Subscribe(p) ==
    /\ ~fpPages[p].opened
    /\ \A q \in Pages : q < p /\ TabOf[q] = TabOf[p] => fpPages[q].opened /\ ~fpPages[q].active
    /\ LET page == [fpPages[p] EXCEPT !.active = TRUE, !.opened = TRUE]
       IN  fpPages' = [fpPages EXCEPT ![p] = IF Shown(p) THEN Start(page) ELSE page]
    /\ UNCHANGED <<fpMatch, fpVisible, fpToggles, fpTurns>>

\* a request for the lock is withdrawn; a lock that is held stays held until
\* the poll ends by itself
Unsubscribe(p) ==
    /\ fpPages[p].active
    /\ LET page == fpPages[p]
       IN  fpPages' = [fpPages EXCEPT ![p] =
             [page EXCEPT !.active = FALSE, !.inbox = <<>>,
                          !.poll = IF page.poll = "queued" THEN "over" ELSE page.poll]]
    /\ UNCHANGED <<fpMatch, fpVisible, fpToggles, fpTurns>>

\* the tab itself is closed: its lock and its timers are gone at once
TabCloses(p) ==
    /\ fpPages[p].active
    /\ fpPages' = [q \in Pages |->
                     IF TabOf[q] = TabOf[p] THEN [NewPage EXCEPT !.opened = TRUE]
                     ELSE fpPages[q]]
    /\ UNCHANGED <<fpMatch, fpVisible, fpToggles, fpTurns>>

LockFree(p) == \A q \in Pages \ {p} : ~Polling(fpPages[q])

GrantLock(p) ==
    /\ fpPages[p].poll = "queued" /\ fpPages[p].inbox = <<>>
    /\ LockFree(p)
    /\ fpPages' = [fpPages EXCEPT ![p] = Loop(p, @)]
    /\ UNCHANGED <<fpMatch, fpVisible, fpToggles, fpTurns>>

Broadcast(p, state) ==
    [q \in Pages |->
        IF q = p THEN Deliver(fpPages[q], state)
        ELSE IF fpPages[q].active THEN [fpPages[q] EXCEPT !.inbox = Append(@, state)]
        ELSE fpPages[q]]

\* the state at any time between the request and its answer; the channel of a
\* page that has been closed meanwhile raises, and the poll with it
ReceiveForecast(p, state) ==
    /\ fpPages[p].poll = "fetching"
    /\ state \in {fpPages[p].asked, fpMatch}
    /\ \A q \in Pages : Len(fpPages[q].inbox) < MaxInbox
    /\ fpPages' =
         IF ~fpPages[p].active THEN [fpPages EXCEPT ![p].poll = "over"]
         ELSE [Broadcast(p, state) EXCEPT
                 ![p].poll = IF state = "final" THEN "over" ELSE "waiting"]
    /\ UNCHANGED <<fpMatch, fpVisible, fpToggles, fpTurns>>

\* an error is shown in every page, which keep the state they know
RequestFailed(p) ==
    /\ fpPages[p].poll = "fetching"
    /\ fpPages' = [fpPages EXCEPT ![p].poll =
                     IF fpPages[p].active THEN "waiting" ELSE "over"]
    /\ UNCHANGED <<fpMatch, fpVisible, fpToggles, fpTurns>>

DelayEnds(p) ==
    /\ fpPages[p].poll = "waiting"
    /\ fpPages' = [fpPages EXCEPT ![p] = Loop(p, @)]
    /\ UNCHANGED <<fpMatch, fpVisible, fpToggles, fpTurns>>

SettlesPending(p) ==
    /\ fpPages[p].poll = "over"
    /\ fpPages' = [fpPages EXCEPT ![p].poll = "none"]
    /\ UNCHANGED <<fpMatch, fpVisible, fpToggles, fpTurns>>

\* finally: the page may start again
PollSettles(p) ==
    /\ fpPages[p].poll = "over"
    /\ fpPages' = [fpPages EXCEPT ![p] = [@ EXCEPT !.pending = FALSE, !.poll = "none"]]
    /\ UNCHANGED <<fpMatch, fpVisible, fpToggles, fpTurns>>

TakeBroadcast(p) ==
    /\ fpPages[p].inbox # <<>>
    /\ LET page == fpPages[p]
       IN  fpPages' = [fpPages EXCEPT ![p] =
             [Deliver(page, Head(page.inbox)) EXCEPT !.inbox = Tail(page.inbox)]]
    /\ UNCHANGED <<fpMatch, fpVisible, fpToggles, fpTurns>>

-----------------------------------------------------------------------------
(* The browser and the server *)

HideTab(t) ==
    /\ t \in fpVisible /\ fpVisible' = fpVisible \ {t}
    /\ fpToggles < MaxToggles /\ fpToggles' = fpToggles + 1
    /\ UNCHANGED <<fpMatch, fpPages, fpTurns>>

ShowTab(t) ==
    /\ t \notin fpVisible /\ fpVisible' = fpVisible \cup {t}
    /\ fpToggles < MaxToggles /\ fpToggles' = fpToggles + 1
    /\ fpPages' = [p \in Pages |-> IF TabOf[p] = t THEN Start(fpPages[p]) ELSE fpPages[p]]
    /\ UNCHANGED <<fpMatch, fpTurns>>

\* played to its end, cancelled or missed; or given a new date after that
MatchTurns ==
    /\ fpTurns < MaxTurns /\ fpTurns' = fpTurns + 1
    /\ fpMatch' = IF fpMatch = "open" THEN "final" ELSE "open"
    /\ UNCHANGED <<fpVisible, fpPages, fpToggles>>

ForecastPollerStart ==
    /\ fpMatch = "open"
    /\ fpVisible = Tabs
    /\ fpPages = [p \in Pages |-> NewPage]
    /\ fpToggles = 0 /\ fpTurns = 0

PageStep(p) ==
    \/ Subscribe(p) \/ Unsubscribe(p) \/ TabCloses(p)
    \/ GrantLock(p)
    \/ \E state \in {"open", "final"} : ReceiveForecast(p, state)
    \/ RequestFailed(p)
    \/ DelayEnds(p) \/ PollSettles(p)
    \/ TakeBroadcast(p)

ForecastPollerNext ==
    \/ \E p \in Pages : PageStep(p)
    \/ \E t \in Tabs : HideTab(t) \/ ShowTab(t)
    \/ MatchTurns

ForecastPollerSpec == ForecastPollerStart /\ [][ForecastPollerNext]_pollerVars

-----------------------------------------------------------------------------
(* Properties *)

\* One page at a time polls the match, in however many tabs it is open; and
\* whoever closes, hides or fails, an open page in a visible tab that was never
\* told of an end has a poll of its own at work or queued to take over, unless
\* its tab came back in the moment in which its last poll was settling.
OneLeaderForAll ==
    /\ Cardinality({p \in Pages : Polling(fpPages[p])}) <= 1
    /\ \A p \in Pages :
         LET page == fpPages[p]
         IN  (page.active /\ Shown(p) /\ ~page.told /\ ~page.missed)
               => Polling(page) \/ page.poll = "queued"

=============================================================================

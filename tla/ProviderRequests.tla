---------------------------- MODULE ProviderRequests ----------------------------
(***************************************************************************)
(* The audited provider clients: a request is reserved in a transaction    *)
(* that checks the provider's rate window, the budget of the day and the   *)
(* rolling minute; then it is sent, the answer stored as a file, and the   *)
(* ledger row completed in a second transaction.  Time passes, other       *)
(* processes run and the process may die between any two statements.       *)
(*                                                                         *)
(* KickoffAPI requests pass all the checks; a request for the current FPL  *)
(* squads passes the budget alone.                                         *)
(***************************************************************************)
EXTENDS Integers, Sequences, FiniteSets

CONSTANTS
    Clients,        \* processes that may hold a client (worker, import script)
    DailyLimit,     \* operational limit of each provider and day (85)
    MinuteLimit,    \* operational limit of the rolling minute (25)
    Minute, Day,    \* their lengths, in ticks of the model's clock
    MaxTime,        \* bound: last tick
    MaxRequests,    \* bound: rows of the ledger and processes, together
    MaxDeaths       \* bound: processes killed

ASSUME RequestAssumption ==
    /\ IsFiniteSet(Clients)
    /\ DailyLimit \in Nat \ {0} /\ MinuteLimit \in Nat \ {0}
    /\ Minute \in Nat \ {0} /\ Day \in Nat \ {0}
    /\ MaxTime \in Nat /\ MaxRequests \in Nat /\ MaxDeaths \in Nat

VARIABLES
    prClients,   \* the processes that exist
    prTime,
    prLedger,    \* ProviderRequest rows, in the order of their commits
    prBudget,    \* ProviderRequestBudget: requests counted per provider and day
    prCall,      \* the call each process is in
    prDeaths

requestVars == <<prClients, prTime, prLedger, prBudget, prCall, prDeaths>>

Providers == {"kickoffapi", "fpl-current"}
Never == MaxTime + 1             \* a window without a reset time
Unknown == [left |-> 1, reset |-> 0]   \* no rate headers: nothing forbids a call

NoCall == [step |-> "idle", provider |-> "kickoffapi", started |-> 0, now |-> 0,
           latest |-> 0, day |-> 0, row |-> 0]

At(c, step) == prCall[c].step = step
GoTo(c, step) == prCall' = [prCall EXCEPT ![c].step = step]
GiveUp(c) == prCall' = [prCall EXCEPT ![c] = NoCall]

-----------------------------------------------------------------------------
(* The reservation *)

\* ORDER BY requested_at DESC LIMIT 1, where requested_at is the time at which
\* the inserting transaction began
LatestOf(rows) ==
    IF rows = {} THEN 0
    ELSE CHOOSE i \in rows : \A j \in rows :
           \/ prLedger[j].at < prLedger[i].at
           \/ prLedger[j].at = prLedger[i].at /\ j <= i

LatestOfAnyProvider == LatestOf(DOMAIN prLedger)

LatestRequest ==
    LatestOf({i \in DOMAIN prLedger : prLedger[i].provider = "kickoffapi"})

\* SELECT ... FOR UPDATE finds the row first and then waits for its lock
BeginReservation(c, provider) ==
    /\ At(c, "idle")
    /\ Len(prLedger) + Cardinality(prClients) < MaxRequests
    /\ prCall' = [prCall EXCEPT ![c] =
         [NoCall EXCEPT
            !.step = IF provider = "kickoffapi" THEN "waiting" ELSE "checked",
            !.provider = provider, !.started = prTime, !.now = prTime,
            !.latest = IF provider = "kickoffapi" THEN LatestRequest ELSE 0]]
    /\ UNCHANGED <<prClients, prTime, prLedger, prBudget, prDeaths>>

RowLocked(c, row) ==
    row # 0 /\ \E d \in prClients \ {c} :
        prCall[d].step \in {"checked", "reserved", "counted"} /\ prCall[d].latest = row

\* the last answer said that none are left, and its window has not been reset
WindowClosed(row) ==
    row # 0 /\ prLedger[row].rate.left <= 0 /\ prLedger[row].rate.reset > prTime

CheckRateWindow(c) ==
    /\ At(c, "waiting")
    /\ ~RowLocked(c, prCall[c].latest)
    /\ IF WindowClosed(prCall[c].latest)
       THEN GiveUp(c)
       ELSE prCall' = [prCall EXCEPT ![c].step = "checked", ![c].now = prTime]
    /\ UNCHANGED <<prClients, prTime, prLedger, prBudget, prDeaths>>

NeverLocked(c, provider, day) == FALSE

BudgetLocked(c, provider, day) ==
    \E d \in prClients \ {c} : /\ prCall[d].step \in {"reserved", "counted"}
                               /\ prCall[d].provider = provider /\ prCall[d].day = day

\* reserve_request_slot: one conditional upsert, whose row stays locked until
\* the transaction ends and whose count is seen when it commits.  The day is
\* that of a second reading of the clock.
ReserveRequestSlot(c) ==
    /\ At(c, "checked")
    /\ LET provider == prCall[c].provider
           today == prTime \div Day
       IN  /\ ~BudgetLocked(c, provider, today)
           /\ IF prBudget[provider][today] < DailyLimit
              THEN prCall' = [prCall EXCEPT ![c].step = "reserved", ![c].day = today]
              ELSE GiveUp(c)
    /\ UNCHANGED <<prClients, prTime, prLedger, prBudget, prDeaths>>

\* requests of the last minute, by the time their transactions began
RecentRequests(now) ==
    {i \in DOMAIN prLedger : /\ prLedger[i].provider = "kickoffapi"
                             /\ prLedger[i].at >= now - Minute}

Reserved(call) ==
    [provider |-> call.provider, at |-> call.started, now |-> call.now,
     day |-> call.day, status |-> "reserved", rate |-> Unknown,
     stored |-> FALSE, fetch |-> FALSE]

\* a full minute raises, which rolls the reservation back too
CountMinute(c) ==
    /\ At(c, "reserved")
    /\ IF /\ prCall[c].provider = "kickoffapi"
          /\ Cardinality(RecentRequests(prCall[c].now)) >= MinuteLimit
       THEN GiveUp(c)
       ELSE GoTo(c, "counted")
    /\ UNCHANGED <<prClients, prTime, prLedger, prBudget, prDeaths>>

CommitReservation(c) ==
    /\ At(c, "counted")
    /\ Len(prLedger) + Cardinality(prClients) < MaxRequests
    /\ LET call == prCall[c]
       IN  /\ prLedger' = Append(prLedger, Reserved(call))
           /\ prBudget' = [prBudget EXCEPT ![call.provider][call.day] = @ + 1]
           /\ prCall' = [prCall EXCEPT ![c] =
                [NoCall EXCEPT !.step = "sent", !.provider = call.provider,
                               !.row = Len(prLedger) + 1]]
    /\ UNCHANGED <<prClients, prTime, prDeaths>>

-----------------------------------------------------------------------------
(* The request and its answer *)

SetRow(c, status) == prLedger' = [prLedger EXCEPT ![prCall[c].row].status = status]

\* the row is locked and completed in a transaction of its own
MarkRequestFailed(c) ==
    /\ ~RowLocked(c, prCall[c].row)
    /\ SetRow(c, "failed")
    /\ GiveUp(c)
    /\ UNCHANGED <<prClients, prTime, prBudget, prDeaths>>

\* a timeout, a broken connection, or an answer whose body cannot be written:
\* nothing is kept of its rate window either
RequestFails(c) == At(c, "sent") /\ MarkRequestFailed(c)

\* the answer arrives and its body is written to a new file before anything
\* else is done with it
ReceiveAnswer(c) ==
    /\ At(c, "sent")
    /\ prLedger' = [prLedger EXCEPT ![prCall[c].row].stored = TRUE]
    /\ GoTo(c, "stored")
    /\ UNCHANGED <<prClients, prTime, prBudget, prDeaths>>

\* the status, the rate headers and the RawFetch row in one transaction; an
\* HTTP error is raised after it
RecordAnswer(c, ok, rate) ==
    /\ At(c, "stored")
    /\ ~RowLocked(c, prCall[c].row)
    /\ prCall[c].provider = "kickoffapi" \/ rate = Unknown
    /\ prLedger' = [prLedger EXCEPT ![prCall[c].row] =
         [@ EXCEPT !.status = IF ok THEN "succeeded" ELSE "failed",
                   !.rate = rate, !.fetch = TRUE]]
    /\ IF ok THEN GoTo(c, "recorded") ELSE GiveUp(c)
    /\ UNCHANGED <<prClients, prTime, prBudget, prDeaths>>

\* the body is no JSON, or not that of the FPL contract
InvalidPayload(c) == At(c, "recorded") /\ MarkRequestFailed(c)

\* the caller gets the payload and normalizes it
ReturnPayload(c) ==
    /\ At(c, "recorded")
    /\ GiveUp(c)
    /\ UNCHANGED <<prClients, prTime, prLedger, prBudget, prDeaths>>

-----------------------------------------------------------------------------

\* the process is killed: an open transaction is rolled back, and a row whose
\* request was sent stays as it is
Die(c) ==
    /\ ~At(c, "idle")
    /\ prDeaths < MaxDeaths /\ prDeaths' = prDeaths + 1
    /\ GiveUp(c)
    /\ UNCHANGED <<prClients, prTime, prLedger, prBudget>>

Tick ==
    /\ prTime < MaxTime /\ prTime' = prTime + 1
    /\ UNCHANGED <<prClients, prLedger, prBudget, prCall, prDeaths>>

Rates == {Unknown} \cup {[left |-> 0, reset |-> r] : r \in {prTime + 1, Never}}

ProviderRequestsStart ==
    /\ prTime = 0
    /\ prLedger = <<>>
    /\ prBudget = [p \in Providers |-> [d \in 0..(MaxTime \div Day) |-> 0]]
    /\ prCall = [c \in Clients |-> NoCall]
    /\ prDeaths = 0

ProviderRequestsInit ==
    /\ prClients \in (SUBSET Clients) \ {{}}
    /\ ProviderRequestsStart

ClientStep(c) ==
    \/ \E p \in Providers : BeginReservation(c, p)
    \/ CheckRateWindow(c)
    \/ ReserveRequestSlot(c)
    \/ CountMinute(c)
    \/ CommitReservation(c)
    \/ RequestFails(c)
    \/ ReceiveAnswer(c)
    \/ \E ok \in BOOLEAN, rate \in Rates : RecordAnswer(c, ok, rate)
    \/ InvalidPayload(c)
    \/ ReturnPayload(c)
    \/ Die(c)

ProviderRequestsNext == (\E c \in prClients : ClientStep(c)) \/ Tick

ProviderRequestsSpec == ProviderRequestsInit /\ [][ProviderRequestsNext]_requestVars

-----------------------------------------------------------------------------
(* Properties *)

\* The budget of a day counts exactly the requests reserved for it, those of
\* dead processes included and refused ones not, and never exceeds the daily
\* limit.  No request of a day is reserved while the ledger already holds a
\* full minute of that day's requests before it.
AllowanceKept ==
    /\ \A p \in Providers : \A d \in DOMAIN prBudget[p] :
         /\ prBudget[p][d] = Cardinality({i \in DOMAIN prLedger :
                                prLedger[i].provider = p /\ prLedger[i].day = d})
         /\ prBudget[p][d] <= DailyLimit
    /\ \A i \in DOMAIN prLedger : prLedger[i].provider = "kickoffapi" =>
         Cardinality({j \in 1..(i - 1) : /\ prLedger[j].provider = "kickoffapi"
                                         /\ prLedger[j].day = prLedger[i].day
                                         /\ prLedger[j].at >= prLedger[i].now - Minute})
           < MinuteLimit

\* What an answer says takes effect through the ledger alone, whatever fails or
\* is killed after it: a process that has the provider for itself never calls
\* it again in a window the provider has declared empty, and what is normalized
\* was captured, in a file that exists before the fetch that names it.
AnswersKept ==
    /\ Cardinality(prClients) = 1 =>
         \A i, j \in DOMAIN prLedger :
            /\ i < j
            /\ prLedger[i].provider = "kickoffapi" /\ prLedger[j].provider = "kickoffapi"
            /\ prLedger[i].rate.left <= 0
            => prLedger[i].rate.reset <= prLedger[j].now
    /\ \A c \in prClients : At(c, "recorded") =>
         prLedger[prCall[c].row].status = "succeeded" /\ prLedger[prCall[c].row].fetch
    /\ \A i \in DOMAIN prLedger : prLedger[i].fetch => prLedger[i].stored

=============================================================================

----------------------------- MODULE ProviderProofs -----------------------------
(***************************************************************************)
(* What the provider is asked for, and what its schedule becomes.          *)
(*                                                                         *)
(* The allowance of the provider clients, for any number of processes, any *)
(* limits and any length of the minute and the day: what the budget of a   *)
(* day counts, that it is never exceeded, and what holds of the minute.    *)
(*                                                                         *)
(* The identity of the matches, for any feed and any table of clubs: that  *)
(* a fixture is one match, and that the ingestion of a feed settles.       *)
(***************************************************************************)
EXTENDS ProviderRequests, FixtureIdentity, PlacesProofs, FiniteSetTheorems,
        SequenceTheorems, TLAPS

Step == {"idle", "waiting", "checked", "reserved", "counted", "sent", "stored", "recorded"}
Rate == [left : Int, reset : Int]
Row == [provider : Providers, at : Nat, now : Nat, day : Nat,
        status : {"reserved", "succeeded", "failed"}, rate : Rate,
        stored : BOOLEAN, fetch : BOOLEAN]
\* which row was found to be the latest does not matter here
Call(latest) == [step : Step, provider : Providers, started : Nat, now : Nat,
                 latest : {latest}, day : Nat, row : Nat]
Days == 0..(MaxTime \div Day)

Holding == {"reserved", "counted"}
Sent == {"sent", "stored", "recorded"}

CallOK(c) ==
    /\ prCall[c] \in Call(prCall[c].latest)
    /\ prCall[c].step \in Holding => prCall[c].day \in Days
    /\ prCall[c].step \in Sent => prCall[c].row \in DOMAIN prLedger

TypeInv ==
    /\ prClients \subseteq Clients
    /\ prTime \in 0..MaxTime
    /\ prLedger \in Seq(Row)
    /\ prBudget \in [Providers -> [Days -> Nat]]
    /\ prCall = [c \in Clients |-> prCall[c]]
    /\ \A c \in Clients : CallOK(c)

-----------------------------------------------------------------------------
(* What the counts are made of                                              *)

Counted(ledger, p, d) == {i \in DOMAIN ledger : ledger[i].provider = p /\ ledger[i].day = d}

Recent(ledger, n, day, now) ==
    {j \in 1..n : /\ ledger[j].provider = "kickoffapi"
                  /\ ledger[j].day = day
                  /\ ledger[j].at >= now - Minute}

\* The same requests, whatever became of them.
SameRows(old, new) ==
    /\ Len(new) = Len(old)
    /\ \A i \in DOMAIN old : /\ new[i].provider = old[i].provider
                             /\ new[i].at = old[i].at
                             /\ new[i].now = old[i].now
                             /\ new[i].day = old[i].day

LEMMA SeqFacts ==
    ASSUME NEW s \in Seq(Row)
    PROVE  Len(s) \in Nat /\ DOMAIN s = 1..Len(s) /\ \A i \in DOMAIN s : s[i] \in Row
BY LenProperties, ElementOfSeq

LEMMA SameCounts ==
    ASSUME NEW old \in Seq(Row), NEW new \in Seq(Row), SameRows(old, new)
    PROVE  /\ DOMAIN new = DOMAIN old
           /\ \A p, d : Counted(new, p, d) = Counted(old, p, d)
           /\ \A n \in 0..Len(old) : \A day, now : Recent(new, n, day, now) = Recent(old, n, day, now)
<1>1. DOMAIN new = DOMAIN old
  BY SeqFacts DEF SameRows
<1>2. ASSUME NEW p, NEW d PROVE Counted(new, p, d) = Counted(old, p, d)
  BY <1>1 DEF Counted, SameRows
<1>3. ASSUME NEW n \in 0..Len(old), NEW day, NEW now
      PROVE  Recent(new, n, day, now) = Recent(old, n, day, now)
  <2>1. 1..n \subseteq DOMAIN old
    BY SeqFacts
  <2> QED
    BY <2>1 DEF Recent, SameRows
<1> QED
  BY <1>1, <1>2, <1>3

\* A new row is counted for its provider and day, and for no other.
LEMMA OneMore ==
    ASSUME NEW old \in Seq(Row), NEW row \in Row
    PROVE  LET new == Append(old, row)
           IN  /\ new \in Seq(Row) /\ Len(new) = Len(old) + 1
               /\ \A i \in DOMAIN old : new[i] = old[i]
               /\ new[Len(old) + 1] = row
               /\ \A p, d : IsFiniteSet(Counted(old, p, d))
               /\ \A p, d : Cardinality(Counted(new, p, d)) =
                    IF p = row.provider /\ d = row.day THEN Cardinality(Counted(old, p, d)) + 1
                    ELSE Cardinality(Counted(old, p, d))
<1> DEFINE new == Append(old, row)
<1>1. /\ new \in Seq(Row) /\ Len(new) = Len(old) + 1
      /\ \A i \in DOMAIN old : new[i] = old[i]
      /\ new[Len(old) + 1] = row
  BY AppendProperties, SeqFacts
<1>2. Len(old) \in Nat /\ DOMAIN old = 1..Len(old) /\ DOMAIN new = DOMAIN old \cup {Len(old) + 1}
  BY <1>1, SeqFacts
<1>3. ASSUME NEW p, NEW d
      PROVE  /\ IsFiniteSet(Counted(old, p, d))
             /\ Cardinality(Counted(new, p, d)) =
                  IF p = row.provider /\ d = row.day THEN Cardinality(Counted(old, p, d)) + 1
                  ELSE Cardinality(Counted(old, p, d))
  <2>1. IsFiniteSet(1..Len(old))
    BY <1>2, FS_Interval
  <2>2. Counted(old, p, d) \in SUBSET (1..Len(old))
    BY <1>2 DEF Counted
  <2>3. IsFiniteSet(Counted(old, p, d)) /\ Len(old) + 1 \notin Counted(old, p, d)
    BY <2>1, <2>2, <1>2, FS_Subset
  <2>4. CASE p = row.provider /\ d = row.day
    <3>1. Counted(new, p, d) = Counted(old, p, d) \cup {Len(old) + 1}
      BY <2>4, <1>1, <1>2 DEF Counted
    <3> DEFINE S == Counted(old, p, d)
               x == Len(old) + 1
    <3>2. IsFiniteSet(S) /\ x \notin S
      BY <2>3
    <3> HIDE DEF S, x
    <3>3. Cardinality(S \cup {x}) = Cardinality(S) + 1
      BY <3>2, FS_AddElement
    <3> QED
      BY <3>1, <3>3, <2>3, <2>4 DEF S, x
  <2>5. CASE ~(p = row.provider /\ d = row.day)
    <3>1. Counted(new, p, d) = Counted(old, p, d)
      BY <2>5, <1>1, <1>2 DEF Counted
    <3> QED
      BY <3>1, <2>3, <2>5
  <2> QED
    BY <2>4, <2>5
<1> QED
  BY <1>1, <1>3

LEMMA RecentFinite ==
    ASSUME NEW ledger, NEW n \in Nat, NEW day, NEW now
    PROVE  IsFiniteSet(Recent(ledger, n, day, now))
<1>1. IsFiniteSet(1..n)
  BY FS_Interval
<1>2. Recent(ledger, n, day, now) \in SUBSET (1..n)
  BY DEF Recent
<1> QED
  BY <1>1, <1>2, FS_Subset

-----------------------------------------------------------------------------
(* The inductive invariant                                                  *)

\* the budget of a provider and day that a reservation has locked
Holder(c) == prCall[c].step \in Holding

\* The budget counts the rows, and stays within the limit.
BudgetExact ==
    \A p \in Providers, d \in Days :
        /\ prBudget[p][d] = Cardinality(Counted(prLedger, p, d))
        /\ prBudget[p][d] <= DailyLimit

\* A reservation that has passed the check of the day has room for its request,
\* and nobody else is between that check and the commit.
RoomHeld ==
    /\ \A c \in prClients : Holder(c) => prBudget[prCall[c].provider][prCall[c].day] < DailyLimit
    /\ \A c, d \in prClients : c # d /\ Holder(c) /\ Holder(d) =>
         prCall[c].provider # prCall[d].provider \/ prCall[c].day # prCall[d].day

\* One that has passed the check of the minute still does.
MinuteHeld ==
    \A c \in prClients : prCall[c].step = "counted" /\ prCall[c].provider = "kickoffapi" =>
        Cardinality(Recent(prLedger, Len(prLedger), prCall[c].day, prCall[c].now)) < MinuteLimit

MinuteKept ==
    \A i \in DOMAIN prLedger : prLedger[i].provider = "kickoffapi" =>
        Cardinality(Recent(prLedger, i - 1, prLedger[i].day, prLedger[i].now)) < MinuteLimit

Counting == BudgetExact /\ RoomHeld /\ MinuteHeld /\ MinuteKept
Sound == TypeInv /\ Counting

-----------------------------------------------------------------------------
(* Types                                                                    *)

LEMMA DayOfTime ==
    ASSUME NEW t \in 0..MaxTime
    PROVE  t \div Day \in Days
<1>1. Day \in Nat \ {0} /\ MaxTime \in Nat
  BY RequestAssumption
<1>2. t \div Day \in Nat /\ MaxTime \div Day \in Nat
  BY <1>1
<1>3. t \div Day <= MaxTime \div Day
  BY <1>1, SMTT(30)
<1> QED
  BY <1>2, <1>3 DEF Days

\* One call is replaced by a well-formed one, and no row is removed.
LEMMA CallReplaced ==
    ASSUME TypeInv, NEW c \in Clients, NEW latest, NEW call \in Call(latest),
           prCall' = [prCall EXCEPT ![c] = call],
           call.step \in Holding => call.day \in Days,
           call.step \in Sent => call.row \in DOMAIN prLedger',
           DOMAIN prLedger \subseteq DOMAIN prLedger'
    PROVE  /\ prCall' = [d \in Clients |-> prCall'[d]]
           /\ \A d \in Clients : CallOK(d)'
           /\ prCall'[c] = call
           /\ \A d \in Clients : d # c => prCall'[d] = prCall[d]
<1>1. /\ prCall' = [d \in Clients |-> prCall'[d]]
      /\ prCall'[c] = call
      /\ \A d \in Clients : d # c => prCall'[d] = prCall[d]
  BY DEF TypeInv
<1>2. call.latest = latest
  BY DEF Call
<1>3. CallOK(c)'
  BY <1>1, <1>2 DEF CallOK
<1>4. ASSUME NEW d \in Clients, d # c PROVE CallOK(d)'
  <2>1. CallOK(d) /\ prCall'[d] = prCall[d]
    BY <1>1, <1>4 DEF TypeInv
  <2> QED
    BY <2>1 DEF CallOK
<1> QED
  BY <1>1, <1>3, <1>4

LEMMA NoCallType == NoCall \in Call(0) /\ NoCall.step \notin Holding \cup Sent
BY DEF NoCall, Call, Step, Providers, Holding, Sent

\* A call that goes to another step is well-formed and otherwise the same.
LEMMA CallMoves ==
    ASSUME NEW latest, NEW call \in Call(latest), NEW step \in Step
    PROVE  LET moved == [call EXCEPT !.step = step]
           IN  /\ moved \in Call(latest) /\ moved.step = step
               /\ moved.provider = call.provider /\ moved.now = call.now
               /\ moved.day = call.day /\ moved.row = call.row
BY DEF Call

\* What becomes of a request leaves its row a row, of the same request.
LEMMA RowCompleted ==
    ASSUME NEW old \in Seq(Row), NEW i \in DOMAIN old, NEW row \in Row, NEW new,
           new = [old EXCEPT ![i] = row],
           row.provider = old[i].provider, row.at = old[i].at,
           row.now = old[i].now, row.day = old[i].day
    PROVE  new \in Seq(Row) /\ SameRows(old, new) /\ DOMAIN new = DOMAIN old
<1>1. new \in Seq(Row) /\ Len(new) = Len(old)
  BY ExceptSeq
<1>2. DOMAIN new = DOMAIN old
  OBVIOUS
<1>3. \A k \in DOMAIN old : new[k] = IF k = i THEN row ELSE old[k]
  OBVIOUS
<1> QED
  BY <1>1, <1>2, <1>3 DEF SameRows

-----------------------------------------------------------------------------
(* Steps that reserve nothing                                               *)

\* No row is added, no budget changes, and no reservation gets further.
Quiet ==
    /\ prClients' = prClients /\ prBudget' = prBudget
    /\ SameRows(prLedger, prLedger')
    /\ \A d \in prClients : Holder(d)' => Holder(d) /\ prCall'[d] = prCall[d]

LEMMA QuietCounts == Sound /\ TypeInv' /\ Quiet => Counting'
<1> SUFFICES ASSUME Sound, TypeInv', Quiet PROVE Counting'
  OBVIOUS
<1>1. prLedger \in Seq(Row) /\ prLedger' \in Seq(Row)
  BY DEF Sound, TypeInv
<1>2. /\ DOMAIN prLedger' = DOMAIN prLedger /\ Len(prLedger') = Len(prLedger)
      /\ Len(prLedger) \in Nat /\ DOMAIN prLedger = 1..Len(prLedger)
  BY <1>1, SeqFacts DEF Quiet, SameRows
<1>3. \A p, d : Counted(prLedger', p, d) = Counted(prLedger, p, d)
  BY <1>1, SameCounts DEF Quiet
<1>4. \A n \in 0..Len(prLedger) : \A day, now :
        Recent(prLedger', n, day, now) = Recent(prLedger, n, day, now)
  BY <1>1, SameCounts DEF Quiet
<1>5. BudgetExact'
  BY <1>3 DEF Quiet, Sound, Counting, BudgetExact
<1>6. RoomHeld'
  BY DEF Quiet, Sound, Counting, RoomHeld
<1>7. MinuteHeld'
  <2> SUFFICES ASSUME NEW c \in prClients',
                      prCall'[c].step = "counted", prCall'[c].provider = "kickoffapi"
               PROVE  Cardinality(Recent(prLedger', Len(prLedger'), prCall'[c].day,
                                         prCall'[c].now)) < MinuteLimit
    BY DEF MinuteHeld
  <2>1. c \in prClients /\ prCall'[c] = prCall[c]
    BY DEF Quiet, Holder, Holding
  <2>2. Cardinality(Recent(prLedger, Len(prLedger), prCall[c].day, prCall[c].now)) < MinuteLimit
    BY <2>1 DEF Sound, Counting, MinuteHeld
  <2> QED
    BY <2>1, <2>2, <1>2, <1>4
<1>8. MinuteKept'
  <2> SUFFICES ASSUME NEW i \in DOMAIN prLedger', prLedger'[i].provider = "kickoffapi"
               PROVE  Cardinality(Recent(prLedger', i - 1, prLedger'[i].day,
                                         prLedger'[i].now)) < MinuteLimit
    BY DEF MinuteKept
  <2>1. i \in DOMAIN prLedger /\ i - 1 \in 0..Len(prLedger)
    BY <1>2
  <2>2. /\ prLedger[i].provider = "kickoffapi"
        /\ prLedger'[i].day = prLedger[i].day /\ prLedger'[i].now = prLedger[i].now
    BY <2>1 DEF Quiet, SameRows
  <2>3. Cardinality(Recent(prLedger, i - 1, prLedger[i].day, prLedger[i].now)) < MinuteLimit
    BY <2>1, <2>2 DEF Sound, Counting, MinuteKept
  <2> QED
    BY <2>1, <2>2, <2>3, <1>4
<1> QED
  BY <1>5, <1>6, <1>7, <1>8 DEF Counting

LEMMA Unchanged ==
    ASSUME NEW s \in Seq(Row)
    PROVE  SameRows(s, s)
BY DEF SameRows

\* A process whose call moves on, or is given up, while the rows stay or the
\* row of its own request is completed.
LEMMA QuietStep ==
    ASSUME Sound, NEW c \in prClients, NEW latest, NEW call \in Call(latest),
           prCall' = [prCall EXCEPT ![c] = call],
           call.step \notin Holding,
           call.step \in Sent => call.row \in DOMAIN prLedger,
           UNCHANGED <<prClients, prTime, prBudget>>,
           prLedger' \in Seq(Row), SameRows(prLedger, prLedger')
    PROVE  Sound'
<1>1. c \in Clients /\ prLedger \in Seq(Row) /\ TypeInv
  BY DEF Sound, TypeInv
<1>2. DOMAIN prLedger' = DOMAIN prLedger
  BY <1>1, SameCounts
<1>3. /\ prCall' = [d \in Clients |-> prCall'[d]]
      /\ \A d \in Clients : CallOK(d)'
      /\ prCall'[c] = call
      /\ \A d \in Clients : d # c => prCall'[d] = prCall[d]
  BY <1>1, <1>2, CallReplaced
<1>4. TypeInv'
  BY <1>1, <1>3 DEF TypeInv
<1>5. Quiet
  <2>1. prClients \subseteq Clients
    BY <1>1 DEF TypeInv
  <2> QED
    BY <1>3, <2>1 DEF Quiet, Holder
<1> QED
  BY <1>4, <1>5, QuietCounts DEF Sound

\* Without a change of the rows.
LEMMA QuietMove ==
    ASSUME Sound, NEW c \in prClients, NEW latest, NEW call \in Call(latest),
           prCall' = [prCall EXCEPT ![c] = call],
           call.step \notin Holding,
           call.step \in Sent => call.row \in DOMAIN prLedger,
           UNCHANGED <<prClients, prTime, prLedger, prBudget>>
    PROVE  Sound'
<1>1. prLedger' \in Seq(Row) /\ SameRows(prLedger, prLedger')
  BY Unchanged DEF Sound, TypeInv
<1> QED
  BY <1>1, QuietStep

LEMMA QuietGiveUp ==
    ASSUME Sound, NEW c \in prClients, GiveUp(c),
           UNCHANGED <<prClients, prTime, prLedger, prBudget>>
    PROVE  Sound'
<1>1. prCall' = [prCall EXCEPT ![c] = NoCall]
  BY DEF GiveUp
<1> QED
  BY <1>1, NoCallType, QuietMove

\* The same, with the row of the request completed.
LEMMA QuietComplete ==
    ASSUME Sound, NEW c \in prClients, NEW latest, NEW call \in Call(latest),
           prCall' = [prCall EXCEPT ![c] = call],
           call.step \notin Holding,
           call.step \in Sent => call.row \in DOMAIN prLedger,
           UNCHANGED <<prClients, prTime, prBudget>>,
           NEW i \in DOMAIN prLedger, NEW row \in Row,
           prLedger' = [prLedger EXCEPT ![i] = row],
           row.provider = prLedger[i].provider, row.at = prLedger[i].at,
           row.now = prLedger[i].now, row.day = prLedger[i].day
    PROVE  Sound'
<1>1. prLedger' \in Seq(Row) /\ SameRows(prLedger, prLedger')
  BY RowCompleted DEF Sound, TypeInv
<1> QED
  BY <1>1, QuietStep

LEMMA StatusSet ==
    ASSUME NEW row \in Row
    PROVE  LET failed == [row EXCEPT !.status = "failed"]
           IN  /\ failed \in Row
               /\ failed.provider = row.provider /\ failed.at = row.at
               /\ failed.now = row.now /\ failed.day = row.day
BY Zenon DEF Row

LEMMA StoredSet ==
    ASSUME NEW row \in Row
    PROVE  LET stored == [row EXCEPT !.stored = TRUE]
           IN  /\ stored \in Row
               /\ stored.provider = row.provider /\ stored.at = row.at
               /\ stored.now = row.now /\ stored.day = row.day
BY Zenon DEF Row

Answered(row, status, rate) == [row EXCEPT !.status = status, !.rate = rate, !.fetch = TRUE]

LEMMA RateTyped ==
    ASSUME TypeInv, NEW rate \in Rates
    PROVE  rate \in Rate
<1>1. prTime + 1 \in Int /\ Never \in Int
  BY RequestAssumption DEF TypeInv, Never
<1>2. Unknown \in Rate
  BY DEF Unknown, Rate
<1>3. ASSUME NEW r \in Int PROVE [left |-> 0, reset |-> r] \in Rate
  BY DEF Rate
<1> QED
  BY <1>1, <1>2, <1>3, Zenon DEF Rates

LEMMA AnswerSet ==
    ASSUME NEW row \in Row, NEW rate \in Rate, NEW status \in {"succeeded", "failed"}
    PROVE  /\ Answered(row, status, rate) \in Row
           /\ Answered(row, status, rate).provider = row.provider
           /\ Answered(row, status, rate).at = row.at
           /\ Answered(row, status, rate).now = row.now
           /\ Answered(row, status, rate).day = row.day
BY Zenon DEF Row, Answered

LEMMA CallTyped ==
    ASSUME TypeInv, NEW c \in prClients
    PROVE  c \in Clients /\ prCall[c] \in Call(prCall[c].latest)
BY DEF TypeInv, CallOK

LEMMA BeginSound ==
    ASSUME Sound, NEW c \in prClients, NEW provider \in Providers, BeginReservation(c, provider)
    PROVE  Sound'
<1> DEFINE latest == IF provider = "kickoffapi" THEN LatestRequest ELSE 0
           call == [NoCall EXCEPT
                      !.step = IF provider = "kickoffapi" THEN "waiting" ELSE "checked",
                      !.provider = provider, !.started = prTime, !.now = prTime,
                      !.latest = latest]
<1>1. prTime \in Nat
  BY RequestAssumption DEF Sound, TypeInv
<1>2. call \in Call(latest) /\ call.step \notin Holding \cup Sent
  <2> HIDE DEF latest
  <2> QED
    BY <1>1 DEF NoCall, Call, Step, Holding, Sent
<1>3. prCall' = [prCall EXCEPT ![c] = call] /\ UNCHANGED <<prClients, prTime, prLedger, prBudget>>
  BY DEF BeginReservation
<1> HIDE DEF call, latest
<1> QED
  BY <1>2, <1>3, QuietMove

LEMMA CallChecked ==
    ASSUME NEW latest, NEW call \in Call(latest), NEW time \in Nat
    PROVE  LET checked == [call EXCEPT !.step = "checked", !.now = time]
           IN  checked \in Call(latest) /\ checked.step \notin Holding \cup Sent
BY DEF Call, Step, Holding, Sent

LEMMA CheckSound ==
    ASSUME Sound, NEW c \in prClients, CheckRateWindow(c)
    PROVE  Sound'
<1>1. UNCHANGED <<prClients, prTime, prLedger, prBudget>>
  BY DEF CheckRateWindow
<1>2. CASE GiveUp(c)
  BY <1>1, <1>2, QuietGiveUp
<1>3. CASE prCall' = [prCall EXCEPT ![c].step = "checked", ![c].now = prTime]
  <2> DEFINE call == [prCall[c] EXCEPT !.step = "checked", !.now = prTime]
  <2>1. c \in Clients /\ prCall[c] \in Call(prCall[c].latest)
    BY CallTyped DEF Sound
  <2>0. prTime \in Nat
    BY RequestAssumption DEF Sound, TypeInv
  <2>2. call \in Call(prCall[c].latest) /\ call.step \notin Holding \cup Sent
    BY <2>0, <2>1, CallChecked
  <2>3. prCall' = [prCall EXCEPT ![c] = call]
    BY <1>3, <2>1
  <2> HIDE DEF call
  <2> QED
    BY <1>1, <2>2, <2>3, QuietMove
<1> QED
  BY <1>2, <1>3 DEF CheckRateWindow

LEMMA FailSound ==
    ASSUME Sound, NEW c \in prClients, prCall[c].step \in Sent, MarkRequestFailed(c)
    PROVE  Sound'
<1> DEFINE i == prCall[c].row
           row == [prLedger[i] EXCEPT !.status = "failed"]
<1>1. i \in DOMAIN prLedger /\ prLedger \in Seq(Row)
  BY CallTyped DEF Sound, TypeInv, CallOK
<1>2. prLedger[i] \in Row
  BY <1>1, SeqFacts
<1>3. prLedger' = [prLedger EXCEPT ![i] = row]
  BY <1>1 DEF MarkRequestFailed, SetRow
<1>4. /\ row \in Row
      /\ row.provider = prLedger[i].provider /\ row.at = prLedger[i].at
      /\ row.now = prLedger[i].now /\ row.day = prLedger[i].day
  BY <1>2, StatusSet
<1>5. prCall' = [prCall EXCEPT ![c] = NoCall] /\ UNCHANGED <<prClients, prTime, prBudget>>
  BY DEF MarkRequestFailed, GiveUp
<1> HIDE DEF i, row
<1> QED
  BY <1>1, <1>3, <1>4, <1>5, NoCallType, QuietComplete

LEMMA ReceiveSound ==
    ASSUME Sound, NEW c \in prClients, ReceiveAnswer(c)
    PROVE  Sound'
<1> DEFINE i == prCall[c].row
           row == [prLedger[i] EXCEPT !.stored = TRUE]
           call == [prCall[c] EXCEPT !.step = "stored"]
<1>1. i \in DOMAIN prLedger /\ prLedger \in Seq(Row)
  BY CallTyped DEF Sound, TypeInv, CallOK, ReceiveAnswer, At, Sent
<1>2. prLedger[i] \in Row
  BY <1>1, SeqFacts
<1>3. prLedger' = [prLedger EXCEPT ![i] = row]
  BY <1>1 DEF ReceiveAnswer
<1>4. /\ row \in Row
      /\ row.provider = prLedger[i].provider /\ row.at = prLedger[i].at
      /\ row.now = prLedger[i].now /\ row.day = prLedger[i].day
  BY <1>2, StoredSet
<1>5. c \in Clients /\ prCall[c] \in Call(prCall[c].latest)
  BY CallTyped DEF Sound
<1>6. call \in Call(prCall[c].latest) /\ call.step \notin Holding /\ call.row = i
  <2>1. "stored" \in Step /\ "stored" \notin Holding
    BY DEF Step, Holding
  <2>2. /\ call \in Call(prCall[c].latest)
        /\ call.step = "stored" /\ call.row = prCall[c].row
    <3> DEFINE old == prCall[c]
               latest == old.latest
    <3>1. old \in Call(latest)
      BY <1>5
    <3>2. call = [old EXCEPT !.step = "stored"]
      OBVIOUS
    <3> HIDE DEF old, latest, call
    <3>3. call \in Call(latest) /\ call.step = "stored" /\ call.row = old.row
      BY <2>1, <3>1, <3>2, CallMoves
    <3> QED
      BY <3>3 DEF old, latest
  <2> QED
    BY <2>1, <2>2
<1>7. prCall' = [prCall EXCEPT ![c] = call] /\ UNCHANGED <<prClients, prTime, prBudget>>
  BY <1>5 DEF ReceiveAnswer, GoTo
<1> HIDE DEF i, row, call
<1> QED
  BY <1>1, <1>3, <1>4, <1>6, <1>7, QuietComplete

LEMMA RecordSound ==
    ASSUME Sound, NEW c \in prClients, NEW ok \in BOOLEAN, NEW rate \in Rates,
           RecordAnswer(c, ok, rate)
    PROVE  Sound'
<1> DEFINE i == prCall[c].row
           status == IF ok THEN "succeeded" ELSE "failed"
           row == Answered(prLedger[i], status, rate)
           moved == [prCall[c] EXCEPT !.step = "recorded"]
<1>1. i \in DOMAIN prLedger /\ prLedger \in Seq(Row)
  BY CallTyped DEF Sound, TypeInv, CallOK, RecordAnswer, At, Sent
<1>2. prLedger[i] \in Row
  BY <1>1, SeqFacts
<1>3. prLedger' = [prLedger EXCEPT ![i] = row]
  BY <1>1 DEF RecordAnswer, Answered
<1>4. rate \in Rate /\ status \in {"succeeded", "failed"}
  <2>1. TypeInv
    BY DEF Sound
  <2> QED
    BY <2>1, RateTyped
<1>5. /\ row \in Row
      /\ row.provider = prLedger[i].provider /\ row.at = prLedger[i].at
      /\ row.now = prLedger[i].now /\ row.day = prLedger[i].day
  <2> HIDE DEF status, i
  <2> QED
    BY <1>2, <1>4, AnswerSet
<1>6. c \in Clients /\ prCall[c] \in Call(prCall[c].latest)
  BY CallTyped DEF Sound
<1>7. moved \in Call(prCall[c].latest) /\ moved.step \notin Holding /\ moved.row = i
  <2>1. "recorded" \in Step /\ "recorded" \notin Holding
    BY DEF Step, Holding
  <2>2. /\ moved \in Call(prCall[c].latest)
        /\ moved.step = "recorded" /\ moved.row = prCall[c].row
    <3> DEFINE old == prCall[c]
               latest == old.latest
    <3>1. old \in Call(latest)
      BY <1>6
    <3>2. moved = [old EXCEPT !.step = "recorded"]
      OBVIOUS
    <3> HIDE DEF old, latest, moved
    <3>3. moved \in Call(latest) /\ moved.step = "recorded" /\ moved.row = old.row
      BY <2>1, <3>1, <3>2, CallMoves
    <3> QED
      BY <3>3 DEF old, latest
  <2> QED
    BY <2>1, <2>2
<1>8. UNCHANGED <<prClients, prTime, prBudget>>
  BY DEF RecordAnswer
<1>9. CASE GoTo(c, "recorded")
  <2>1. prCall' = [prCall EXCEPT ![c] = moved]
    BY <1>6, <1>9 DEF GoTo
  <2> HIDE DEF i, row, moved
  <2> QED
    BY <1>1, <1>3, <1>5, <1>7, <1>8, <2>1, QuietComplete
<1>10. CASE GiveUp(c)
  <2>1. prCall' = [prCall EXCEPT ![c] = NoCall]
    BY <1>10 DEF GiveUp
  <2> HIDE DEF i, row, moved
  <2> QED
    BY <1>1, <1>3, <1>5, <1>8, <2>1, NoCallType, QuietComplete
<1> QED
  BY <1>9, <1>10 DEF RecordAnswer

LEMMA ReturnSound ==
    ASSUME Sound, NEW c \in prClients, ReturnPayload(c)
    PROVE  Sound'
BY QuietGiveUp DEF ReturnPayload

LEMMA DieSound ==
    ASSUME Sound, NEW c \in prClients, Die(c)
    PROVE  Sound'
BY QuietGiveUp DEF Die

LEMMA TickSound ==
    ASSUME Sound, Tick
    PROVE  Sound'
<1>1. prTime' \in 0..MaxTime
  BY RequestAssumption DEF Tick, Sound, TypeInv
<1>2. TypeInv'
  BY <1>1 DEF Tick, Sound, TypeInv, CallOK
<1>3. SameRows(prLedger, prLedger')
  BY Unchanged DEF Tick, Sound, TypeInv
<1>4. Quiet
  BY <1>3 DEF Tick, Quiet, Holder
<1> QED
  BY <1>2, <1>4, QuietCounts DEF Sound

-----------------------------------------------------------------------------
(* Steps of a reservation                                                   *)

\* The call of c takes another step of its reservation; nothing else changes.
Advances(c, call) ==
    /\ prCall' = [prCall EXCEPT ![c] = call]
    /\ UNCHANGED <<prClients, prTime, prLedger, prBudget>>

LEMMA AdvanceTyped ==
    ASSUME Sound, NEW c \in prClients, NEW latest, NEW call \in Call(latest),
           Advances(c, call), call.step \in Holding, call.day \in Days
    PROVE  /\ TypeInv' /\ BudgetExact' /\ MinuteKept'
           /\ prCall'[c] = call
           /\ \A d \in prClients : d # c => prCall'[d] = prCall[d]
<1>1. c \in Clients /\ prClients \subseteq Clients /\ TypeInv
  BY DEF Sound, TypeInv
<1>2. call.step \notin Sent
  BY DEF Holding, Sent
<1>3. /\ prCall' = [d \in Clients |-> prCall'[d]]
      /\ \A d \in Clients : CallOK(d)'
      /\ prCall'[c] = call
      /\ \A d \in Clients : d # c => prCall'[d] = prCall[d]
  BY <1>1, <1>2, CallReplaced DEF Advances
<1>4. TypeInv'
  BY <1>1, <1>3 DEF TypeInv, Advances
<1>5. BudgetExact' /\ MinuteKept'
  BY DEF Advances, Sound, Counting, BudgetExact, MinuteKept
<1> QED
  BY <1>1, <1>3, <1>4, <1>5

LEMMA ReserveSound ==
    ASSUME Sound, NEW c \in prClients, ReserveRequestSlot(c)
    PROVE  Sound'
<1> DEFINE provider == prCall[c].provider
           today == prTime \div Day
           call == [prCall[c] EXCEPT !.step = "reserved", !.day = today]
<1>1. c \in Clients /\ prCall[c] \in Call(prCall[c].latest)
  BY CallTyped DEF Sound
<1>2. today \in Days
  BY DayOfTime DEF Sound, TypeInv
<1>3. UNCHANGED <<prClients, prTime, prLedger, prBudget>>
  BY DEF ReserveRequestSlot
<1>4. CASE GiveUp(c)
  BY <1>3, <1>4, QuietGiveUp
<1>5. CASE /\ ~BudgetLocked(c, provider, today)
           /\ prBudget[provider][today] < DailyLimit
           /\ prCall' = [prCall EXCEPT ![c].step = "reserved", ![c].day = today]
  <2>1. /\ call \in Call(prCall[c].latest) /\ call.step = "reserved"
        /\ call.day = today /\ call.provider = provider
    <3>1. today \in Nat
      BY <1>2 DEF Days
    <3> HIDE DEF today
    <3> QED
      BY <1>1, <3>1, Zenon DEF Call, Step
  <2>2. Advances(c, call)
    BY <1>1, <1>3, <1>5 DEF Advances
  <2> HIDE DEF call
  <2>3. call.step \in Holding
    BY <2>1 DEF Holding
  <2>4. /\ TypeInv' /\ BudgetExact' /\ MinuteKept'
        /\ prCall'[c] = call
        /\ \A d \in prClients : d # c => prCall'[d] = prCall[d]
    BY <1>2, <2>1, <2>2, <2>3, AdvanceTyped
  <2>5. prBudget[provider][today] < DailyLimit
    BY <1>5
  <2>6. \A d \in prClients \ {c} : Holder(d) =>
          prCall[d].provider # provider \/ prCall[d].day # today
    BY <1>5 DEF BudgetLocked, Holder, Holding
  <2>7. RoomHeld
    BY DEF Sound, Counting
  <2> HIDE DEF provider, today
  <2>8. RoomHeld'
    BY <1>3, <2>1, <2>4, <2>5, <2>6, <2>7 DEF RoomHeld, Holder
  <2>9. MinuteHeld'
    BY <1>3, <2>1, <2>4 DEF MinuteHeld, Sound, Counting
  <2> QED
    BY <2>4, <2>8, <2>9 DEF Sound, Counting
<1> QED
  BY <1>4, <1>5 DEF ReserveRequestSlot

\* Of the requests the minute counts, those of one day are no more than all.
LEMMA RecentFewer ==
    ASSUME TypeInv, NEW day, NEW now, ~(Cardinality(RecentRequests(now)) >= MinuteLimit)
    PROVE  Cardinality(Recent(prLedger, Len(prLedger), day, now)) < MinuteLimit
<1> DEFINE some == Recent(prLedger, Len(prLedger), day, now)
           all == RecentRequests(now)
<1>1. Len(prLedger) \in Nat /\ DOMAIN prLedger = 1..Len(prLedger)
  BY SeqFacts DEF TypeInv
<1>2. some \subseteq all
  BY <1>1 DEF Recent, RecentRequests
<1>3. IsFiniteSet(all)
  <2>1. IsFiniteSet(1..Len(prLedger))
    BY <1>1, FS_Interval
  <2>2. all \in SUBSET (1..Len(prLedger))
    BY <1>1 DEF RecentRequests
  <2> QED
    BY <2>1, <2>2, FS_Subset
<1>4. ~(Cardinality(all) >= MinuteLimit)
  OBVIOUS
<1> HIDE DEF some, all
<1>5. IsFiniteSet(some) /\ Cardinality(some) <= Cardinality(all)
  BY <1>2, <1>3, FS_Subset
<1>6. Cardinality(some) \in Nat /\ Cardinality(all) \in Nat
  BY <1>3, <1>5, FS_CardinalityType
<1>7. MinuteLimit \in Nat
  BY RequestAssumption
<1>8. Cardinality(some) < MinuteLimit
  BY <1>4, <1>5, <1>6, <1>7
<1> QED
  BY <1>8 DEF some

LEMMA CountSound ==
    ASSUME Sound, NEW c \in prClients, CountMinute(c)
    PROVE  Sound'
<1> DEFINE call == [prCall[c] EXCEPT !.step = "counted"]
<1>1. c \in Clients /\ prCall[c] \in Call(prCall[c].latest) /\ prCall[c].step = "reserved"
  BY CallTyped DEF Sound, CountMinute, At
<1>2. prCall[c].step \in Holding /\ prCall[c].day \in Days
  BY <1>1 DEF Sound, TypeInv, CallOK, Holding
<1>3. UNCHANGED <<prClients, prTime, prLedger, prBudget>>
  BY DEF CountMinute
<1>4. CASE GiveUp(c)
  BY <1>3, <1>4, QuietGiveUp
<1>5. CASE /\ ~(/\ prCall[c].provider = "kickoffapi"
                /\ Cardinality(RecentRequests(prCall[c].now)) >= MinuteLimit)
           /\ GoTo(c, "counted")
  <2>1. /\ call \in Call(prCall[c].latest) /\ call.step = "counted"
        /\ call.day = prCall[c].day /\ call.provider = prCall[c].provider
        /\ call.now = prCall[c].now
    BY <1>1, Zenon DEF Call, Step
  <2>2. Advances(c, call)
    BY <1>1, <1>3, <1>5 DEF Advances, GoTo
  <2> HIDE DEF call
  <2>3. call.step \in Holding
    BY <2>1 DEF Holding
  <2>4. /\ TypeInv' /\ BudgetExact' /\ MinuteKept'
        /\ prCall'[c] = call
        /\ \A d \in prClients : d # c => prCall'[d] = prCall[d]
    BY <1>2, <2>1, <2>2, <2>3, AdvanceTyped
  <2>5. RoomHeld
    BY DEF Sound, Counting
  <2>6. RoomHeld'
    BY <1>2, <1>3, <2>1, <2>4, <2>5 DEF RoomHeld, Holder
  <2>7. prCall[c].provider = "kickoffapi" =>
          Cardinality(Recent(prLedger, Len(prLedger), prCall[c].day, prCall[c].now)) < MinuteLimit
    BY <1>1, <1>5, RecentFewer DEF Sound
  <2>8. MinuteHeld
    BY DEF Sound, Counting
  <2>9. MinuteHeld'
    BY <1>3, <2>1, <2>4, <2>7, <2>8 DEF MinuteHeld
  <2> QED
    BY <2>4, <2>6, <2>9 DEF Sound, Counting
<1> QED
  BY <1>4, <1>5 DEF CountMinute

LEMMA ReservedType ==
    ASSUME NEW latest, NEW call \in Call(latest)
    PROVE  /\ Reserved(call) \in Row
           /\ Reserved(call).provider = call.provider
           /\ Reserved(call).day = call.day /\ Reserved(call).now = call.now
<1>1. Unknown \in Rate
  BY DEF Unknown, Rate
<1> QED
  BY <1>1, Zenon DEF Call, Row, Reserved

LEMMA SentType ==
    ASSUME NEW p \in Providers, NEW n \in Nat
    PROVE  LET call == [NoCall EXCEPT !.step = "sent", !.provider = p, !.row = n + 1]
           IN  /\ call \in Call(0) /\ call.step = "sent" /\ call.row = n + 1
               /\ call.step \notin Holding
<1> DEFINE m == n + 1
           call == [NoCall EXCEPT !.step = "sent", !.provider = p, !.row = m]
<1>1. m \in Nat
  OBVIOUS
<1> HIDE DEF m
<1>2. call \in Call(0) /\ call.step = "sent" /\ call.row = m
  BY <1>1, NoCallType, Zenon DEF Call, Step
<1>3. call.step \notin Holding
  BY <1>2 DEF Holding
<1> QED
  BY <1>2, <1>3 DEF m

LEMMA CommitSound ==
    ASSUME Sound, NEW c \in prClients, CommitReservation(c)
    PROVE  Sound'
<1> DEFINE p == prCall[c].provider
           day == prCall[c].day
           row == Reserved(prCall[c])
           old == prLedger
           n == Len(prLedger)
           call == [NoCall EXCEPT !.step = "sent", !.provider = p, !.row = n + 1]
<1>1. c \in Clients /\ prCall[c] \in Call(prCall[c].latest) /\ prCall[c].step = "counted"
  BY CallTyped DEF Sound, CommitReservation, At
<1>2. Holder(c) /\ day \in Days /\ p \in Providers
  BY <1>1 DEF Sound, TypeInv, CallOK, Holder, Holding, Call
<1>3. row \in Row /\ row.provider = p /\ row.day = day /\ row.now = prCall[c].now
  BY <1>1, ReservedType
<1>4. prLedger \in Seq(Row) /\ n \in Nat /\ DOMAIN prLedger = 1..n
  BY SeqFacts DEF Sound, TypeInv
<1>5. /\ prLedger' = Append(prLedger, row)
      /\ prBudget' = [prBudget EXCEPT ![p][day] = @ + 1]
      /\ prCall' = [prCall EXCEPT ![c] = call]
      /\ UNCHANGED <<prClients, prTime>>
  BY DEF CommitReservation
<1>6. /\ call \in Call(0) /\ call.step = "sent" /\ call.row = n + 1
      /\ call.step \notin Holding
  <2> HIDE DEF p, n
  <2> QED
    BY <1>2, <1>4, SentType
<1> HIDE DEF row, call
<1>7. /\ prLedger' \in Seq(Row) /\ Len(prLedger') = n + 1
      /\ \A i \in DOMAIN prLedger : prLedger'[i] = prLedger[i]
      /\ prLedger'[n + 1] = row
      /\ \A q, e : IsFiniteSet(Counted(prLedger, q, e))
      /\ \A q, e : Cardinality(Counted(prLedger', q, e)) =
           IF q = p /\ e = day THEN Cardinality(Counted(prLedger, q, e)) + 1
           ELSE Cardinality(Counted(prLedger, q, e))
  BY <1>3, <1>4, <1>5, OneMore
<1>8. DOMAIN prLedger' = 1..(n + 1) /\ DOMAIN prLedger \subseteq DOMAIN prLedger'
  BY <1>4, <1>7, SeqFacts
<1>9. /\ prBudget' \in [Providers -> [Days -> Nat]]
      /\ \A q \in Providers, e \in Days :
           prBudget'[q][e] = IF q = p /\ e = day THEN prBudget[q][e] + 1 ELSE prBudget[q][e]
  <2>1. prBudget \in [Providers -> [Days -> Nat]]
    BY DEF Sound, TypeInv
  <2> HIDE DEF p, day
  <2> QED
    BY <1>2, <1>5, <2>1
<1>10. /\ prCall' = [d \in Clients |-> prCall'[d]]
       /\ \A d \in Clients : CallOK(d)'
       /\ prCall'[c] = call
       /\ \A d \in Clients : d # c => prCall'[d] = prCall[d]
  <2>1. call.step \in Sent => call.row \in DOMAIN prLedger'
    BY <1>4, <1>6, <1>8
  <2> HIDE DEF p, day, n
  <2> QED
    BY <1>1, <1>5, <1>6, <1>8, <2>1, CallReplaced DEF Sound
<1>11. TypeInv'
  BY <1>5, <1>7, <1>9, <1>10 DEF Sound, TypeInv
<1>12. prClients \subseteq Clients /\ RoomHeld /\ BudgetExact /\ MinuteHeld /\ MinuteKept
  BY DEF Sound, TypeInv, Counting
<1>13. prBudget[p][day] < DailyLimit
  BY <1>2, <1>12 DEF RoomHeld
<1>14. BudgetExact'
  <2> SUFFICES ASSUME NEW q \in Providers, NEW e \in Days
               PROVE  /\ prBudget'[q][e] = Cardinality(Counted(prLedger', q, e))
                      /\ prBudget'[q][e] <= DailyLimit
    BY DEF BudgetExact
  <2>1. prBudget[q][e] = Cardinality(Counted(prLedger, q, e)) /\ prBudget[q][e] <= DailyLimit
    BY <1>12 DEF BudgetExact
  <2>2. prBudget[q][e] \in Nat /\ DailyLimit \in Nat
    BY RequestAssumption DEF Sound, TypeInv
  <2> HIDE DEF p, day
  <2> QED
    BY <1>7, <1>9, <1>13, <2>1, <2>2
<1>15. \A d \in prClients : Holder(d)' =>
         /\ d # c /\ Holder(d) /\ prCall'[d] = prCall[d]
         /\ prCall[d].provider # p \/ prCall[d].day # day
  BY <1>2, <1>6, <1>10, <1>12 DEF RoomHeld, Holder
<1>16. RoomHeld'
  <2>1. ASSUME NEW d \in prClients, Holder(d)'
        PROVE  prBudget'[prCall'[d].provider][prCall'[d].day] < DailyLimit
    <3>1. /\ Holder(d) /\ prCall'[d] = prCall[d]
          /\ prCall[d].provider # p \/ prCall[d].day # day
      BY <1>15, <2>1
    <3>2. prCall[d].provider \in Providers /\ prCall[d].day \in Days
      BY <1>12, <3>1 DEF Sound, TypeInv, CallOK, Call, Holder
    <3>3. prBudget[prCall[d].provider][prCall[d].day] < DailyLimit
      BY <1>12, <3>1 DEF RoomHeld
    <3> HIDE DEF p, day
    <3> QED
      BY <1>9, <3>1, <3>2, <3>3
  <2>2. \A d, e \in prClients : d # e /\ Holder(d)' /\ Holder(e)' =>
          prCall'[d].provider # prCall'[e].provider \/ prCall'[d].day # prCall'[e].day
    BY <1>12, <1>15 DEF RoomHeld
  <2> QED
    BY <1>5, <2>1, <2>2 DEF RoomHeld
<1>17. \A k \in 0..n : \A e, t : Recent(prLedger', k, e, t) = Recent(prLedger, k, e, t)
  BY <1>4, <1>7 DEF Recent
<1>18. MinuteHeld'
  <2> SUFFICES ASSUME NEW d \in prClients,
                      prCall'[d].step = "counted", prCall'[d].provider = "kickoffapi"
               PROVE  Cardinality(Recent(prLedger', Len(prLedger'), prCall'[d].day,
                                         prCall'[d].now)) < MinuteLimit
    BY <1>5 DEF MinuteHeld
  <2>1. /\ prCall'[d] = prCall[d]
        /\ prCall[d].provider # p \/ prCall[d].day # day
    BY <1>15 DEF Holder, Holding
  <2>2. Cardinality(Recent(prLedger, n, prCall[d].day, prCall[d].now)) < MinuteLimit
    BY <1>12, <2>1 DEF MinuteHeld
  <2>3. Recent(prLedger', n + 1, prCall[d].day, prCall[d].now) =
          Recent(prLedger', n, prCall[d].day, prCall[d].now)
    <3>1. prLedger'[n + 1].provider = "kickoffapi" => prLedger'[n + 1].day # prCall[d].day
      BY <1>3, <1>7, <2>1
    <3>2. 1..(n + 1) = (1..n) \cup {n + 1}
      BY <1>4
    <3> HIDE DEF n, p, day
    <3> QED
      BY <3>1, <3>2 DEF Recent
  <2> QED
    BY <1>4, <1>7, <1>17, <2>1, <2>2, <2>3
<1>19. MinuteKept'
  <2> SUFFICES ASSUME NEW i \in DOMAIN prLedger', prLedger'[i].provider = "kickoffapi"
               PROVE  Cardinality(Recent(prLedger', i - 1, prLedger'[i].day,
                                         prLedger'[i].now)) < MinuteLimit
    BY DEF MinuteKept
  <2>1. CASE i \in DOMAIN prLedger
    <3>1. prLedger'[i] = prLedger[i] /\ i - 1 \in 0..n
      BY <1>4, <1>7, <2>1
    <3>2. Cardinality(Recent(prLedger, i - 1, prLedger[i].day, prLedger[i].now)) < MinuteLimit
      BY <1>12, <2>1, <3>1 DEF MinuteKept
    <3> QED
      BY <1>17, <3>1, <3>2
  <2>2. CASE i = n + 1
    <3>1. prLedger'[i] = row /\ i - 1 = n
      BY <1>4, <1>7, <2>2
    <3>2. Cardinality(Recent(prLedger, n, day, prCall[c].now)) < MinuteLimit
      BY <1>1, <1>3, <1>12, <3>1 DEF MinuteHeld
    <3>3. Recent(prLedger', n, row.day, row.now) = Recent(prLedger, n, day, prCall[c].now)
      BY <1>3, <1>4, <1>17
    <3> QED
      BY <3>1, <3>2, <3>3
  <2> QED
    BY <1>4, <1>8, <2>1, <2>2
<1> QED
  BY <1>11, <1>14, <1>16, <1>18, <1>19 DEF Sound, Counting

-----------------------------------------------------------------------------
(* Every behaviour                                                          *)

LEMMA InitSound == ProviderRequestsInit => Sound
<1> SUFFICES ASSUME ProviderRequestsInit PROVE Sound
  OBVIOUS
<1>1. prLedger \in Seq(Row) /\ DOMAIN prLedger = {}
  BY EmptySeq DEF ProviderRequestsInit, ProviderRequestsStart
<1>2. prBudget = [p \in Providers |-> [d \in Days |-> 0]]
  BY DEF Days, ProviderRequestsInit, ProviderRequestsStart
<1>3. prCall = [c \in Clients |-> NoCall] /\ \A c \in Clients : prCall[c] = NoCall
  BY DEF ProviderRequestsInit, ProviderRequestsStart
<1>4. prTime \in 0..MaxTime /\ prClients \subseteq Clients
  BY RequestAssumption DEF ProviderRequestsInit, ProviderRequestsStart
<1>5. TypeInv
  <2>1. \A c \in Clients : CallOK(c)
    <3>1. NoCall \in Call(NoCall.latest)
      BY NoCallType DEF NoCall
    <3> QED
      BY <1>3, <3>1, NoCallType DEF CallOK
  <2> QED
    BY <1>1, <1>2, <1>3, <1>4, <2>1 DEF TypeInv
<1>6. BudgetExact
  <2>1. \A p, d : Counted(prLedger, p, d) = {}
    BY <1>1 DEF Counted
  <2>2. Cardinality({}) = 0
    BY FS_EmptySet
  <2>3. DailyLimit \in Nat
    BY RequestAssumption
  <2>4. ASSUME NEW p \in Providers, NEW d \in Days
        PROVE  prBudget[p][d] = Cardinality(Counted(prLedger, p, d)) /\ prBudget[p][d] <= DailyLimit
    <3>1. prBudget[p][d] = 0
      BY <1>2
    <3>2. Cardinality(Counted(prLedger, p, d)) = 0
      BY <2>1, <2>2
    <3> QED
      BY <2>3, <3>1, <3>2
  <2> QED
    BY <2>4 DEF BudgetExact
<1>7. RoomHeld /\ MinuteHeld
  BY <1>3, <1>4, NoCallType DEF RoomHeld, MinuteHeld, Holder, Holding, NoCall
<1>8. MinuteKept
  BY <1>1 DEF MinuteKept
<1> QED
  BY <1>5, <1>6, <1>7, <1>8 DEF Sound, Counting

LEMMA NextSound == Sound /\ [ProviderRequestsNext]_requestVars => Sound'
<1> SUFFICES ASSUME Sound, [ProviderRequestsNext]_requestVars PROVE Sound'
  OBVIOUS
<1>1. ASSUME NEW c \in prClients, ClientStep(c) PROVE Sound'
  <2>1. CASE \E p \in Providers : BeginReservation(c, p)
    BY <2>1, BeginSound
  <2>2. CASE CheckRateWindow(c)
    BY <2>2, CheckSound
  <2>3. CASE ReserveRequestSlot(c)
    BY <2>3, ReserveSound
  <2>4. CASE CountMinute(c)
    BY <2>4, CountSound
  <2>5. CASE CommitReservation(c)
    BY <2>5, CommitSound
  <2>6. CASE RequestFails(c)
    BY <2>6, FailSound DEF RequestFails, At, Sent
  <2>7. CASE ReceiveAnswer(c)
    BY <2>7, ReceiveSound
  <2>8. CASE \E ok \in BOOLEAN, rate \in Rates : RecordAnswer(c, ok, rate)
    BY <2>8, RecordSound
  <2>9. CASE InvalidPayload(c)
    BY <2>9, FailSound DEF InvalidPayload, At, Sent
  <2>10. CASE ReturnPayload(c)
    BY <2>10, ReturnSound
  <2>11. CASE Die(c)
    BY <2>11, DieSound
  <2> QED
    BY <1>1, <2>1, <2>2, <2>3, <2>4, <2>5, <2>6, <2>7, <2>8, <2>9, <2>10, <2>11
       DEF ClientStep
<1>2. CASE Tick
  BY <1>2, TickSound
<1>3. CASE UNCHANGED requestVars
  BY <1>3 DEF requestVars, Sound, TypeInv, CallOK, Counting, BudgetExact, RoomHeld, Holder,
              MinuteHeld, MinuteKept
<1> QED
  BY <1>1, <1>2, <1>3 DEF ProviderRequestsNext

LEMMA SoundAllowance == Sound => AllowanceKept
<1> SUFFICES ASSUME Sound PROVE AllowanceKept
  OBVIOUS
<1>1. ASSUME NEW p \in Providers, NEW d \in DOMAIN prBudget[p]
      PROVE  /\ prBudget[p][d] = Cardinality({i \in DOMAIN prLedger :
                                    prLedger[i].provider = p /\ prLedger[i].day = d})
             /\ prBudget[p][d] <= DailyLimit
  <2>1. d \in Days
    BY DEF Sound, TypeInv
  <2> QED
    BY <2>1 DEF Sound, Counting, BudgetExact, Counted
<1>2. ASSUME NEW i \in DOMAIN prLedger, prLedger[i].provider = "kickoffapi"
      PROVE  Cardinality({j \in 1..(i - 1) :
                            /\ prLedger[j].provider = "kickoffapi"
                            /\ prLedger[j].day = prLedger[i].day
                            /\ prLedger[j].at >= prLedger[i].now - Minute}) < MinuteLimit
  BY <1>2 DEF Sound, Counting, MinuteKept, Recent
<1> QED
  BY <1>1, <1>2 DEF AllowanceKept

\* However many processes reserve, fail and die, and whatever the limits: the
\* budget of each provider and day counts exactly the requests of the ledger
\* and stays within the limit (reserve_request_slot), and no request is
\* committed behind a full minute of its day (KickoffApiClient.get).
THEOREM AllowanceHeld == ProviderRequestsSpec => []AllowanceKept
<1>1. ProviderRequestsInit => Sound
  BY InitSound
<1>2. Sound /\ [ProviderRequestsNext]_requestVars => Sound'
  BY NextSound
<1>3. Sound => AllowanceKept
  BY SoundAllowance
<1> QED
  BY <1>1, <1>2, <1>3, PTL DEF ProviderRequestsSpec

-----------------------------------------------------------------------------
(* What the answers say                                                     *)

\* What a process does with its answer rests on its row.
CallFits(call, rows) ==
    /\ call.step = "stored" => rows[call.row].stored
    /\ call.step = "recorded" => rows[call.row].status = "succeeded" /\ rows[call.row].fetch

Captured(rows) == \A i \in DOMAIN rows : rows[i].fetch => rows[i].stored

\* No two processes have sent one request, so none completes another's row.
Owned ==
    /\ \A c, d \in prClients : c # d /\ prCall[c].step \in Sent /\ prCall[d].step \in Sent =>
         prCall[c].row # prCall[d].row
    /\ \A c \in prClients : CallFits(prCall[c], prLedger)
    /\ Captured(prLedger)

Requests(rows) == {i \in DOMAIN rows : rows[i].provider = "kickoffapi"}

\* Rows begin in their order, and not after now.
RowsInOrder(rows, time) ==
    /\ \A i \in DOMAIN rows : rows[i].at <= time /\ rows[i].now <= time
    /\ \A i, j \in DOMAIN rows : i < j => rows[i].at <= rows[j].at

\* At this time no window that an answer has declared empty is open.
Clear(row, time) == row.rate.left <= 0 => row.rate.reset <= time

WindowsKept(rows) ==
    \A i, j \in Requests(rows) : i < j => Clear(rows[i], rows[j].now)

\* A reservation began behind every row; it found the last request, and from
\* the check of its window on none of the windows is closed to it.
CallInOrder(call, rows, time) ==
    /\ call.step \in {"waiting", "checked", "reserved", "counted"} =>
         /\ call.started <= time /\ call.now <= time
         /\ \A i \in DOMAIN rows : rows[i].at <= call.started
    /\ call.step = "waiting" =>
         \/ call.latest = 0 /\ Requests(rows) = {}
         \/ /\ call.latest \in Requests(rows)
            /\ \A i \in Requests(rows) : i <= call.latest
    /\ call.step \in {"checked", "reserved", "counted"} /\ call.provider = "kickoffapi" =>
         \A i \in Requests(rows) : Clear(rows[i], call.now)
    /\ call.step \in Sent => call.row = Len(rows)

InOrder ==
    /\ RowsInOrder(prLedger, prTime)
    /\ WindowsKept(prLedger)
    /\ \A c \in prClients : CallInOrder(prCall[c], prLedger, prTime)

\* A process that has the provider for itself.
Lone == \A c, d \in prClients : c = d
Answering == Owned /\ (Lone => InOrder)

LEMMA Greatest ==
    ASSUME NEW n \in Nat, NEW T \in SUBSET (1..n), T # {}
    PROVE  \E i \in T : \A j \in T : j <= i
<1>1. IsFiniteSet(1..n)
  BY FS_Interval
<1>2. IsFiniteSet(T)
  BY <1>1, FS_Subset
<1>3. T \subseteq Int
  OBVIOUS
<1> QED BY <1>2, <1>3, LeastAndGreatest

\* While rows begin in their order, the request that began last is the last row.
LEMMA LatestFound ==
    ASSUME TypeInv, RowsInOrder(prLedger, prTime)
    PROVE  \/ LatestRequest = 0 /\ Requests(prLedger) = {}
           \/ /\ LatestRequest \in Requests(prLedger)
              /\ \A i \in Requests(prLedger) : i <= LatestRequest
<1> DEFINE rows == Requests(prLedger)
           Newest(i) == \A j \in rows : \/ prLedger[j].at < prLedger[i].at
                                        \/ prLedger[j].at = prLedger[i].at /\ j <= i
<1>1. /\ Len(prLedger) \in Nat /\ DOMAIN prLedger = 1..Len(prLedger)
      /\ \A i \in DOMAIN prLedger : prLedger[i].at \in Nat
  BY SeqFacts DEF TypeInv, Row
<1>2. LatestRequest = IF rows = {} THEN 0 ELSE CHOOSE i \in rows : Newest(i)
  BY DEF LatestRequest, LatestOf, Requests
<1>3. CASE rows = {}
  BY <1>2, <1>3
<1>4. CASE rows # {}
  <2>1. PICK i \in rows : \A j \in rows : j <= i
    <3>1. rows \in SUBSET (1..Len(prLedger))
      BY <1>1 DEF Requests
    <3> HIDE DEF rows
    <3> QED
      BY <1>1, <1>4, <3>1, Greatest
  <2>2. Newest(i)
    <3> SUFFICES ASSUME NEW j \in rows
                 PROVE  \/ prLedger[j].at < prLedger[i].at
                        \/ prLedger[j].at = prLedger[i].at /\ j <= i
      OBVIOUS
    <3>1. i \in DOMAIN prLedger /\ j \in DOMAIN prLedger /\ j <= i
      BY <2>1 DEF Requests
    <3>2. prLedger[j].at <= prLedger[i].at
      BY <1>1, <3>1 DEF RowsInOrder
    <3> QED
      BY <1>1, <3>1, <3>2
  <2> DEFINE latest == LatestRequest
  <2>3. latest \in rows /\ Newest(latest)
    <3> HIDE DEF rows, Newest
    <3> QED
      BY <1>2, <1>4, <2>2
  <2>4. ASSUME NEW j \in rows PROVE j <= latest
    <3>1. latest \in DOMAIN prLedger /\ j \in DOMAIN prLedger
      BY <2>3 DEF Requests
    <3>2. \/ prLedger[j].at < prLedger[latest].at
          \/ prLedger[j].at = prLedger[latest].at /\ j <= latest
      BY <2>3
    <3>3. latest < j => prLedger[latest].at <= prLedger[j].at
      BY <3>1 DEF RowsInOrder
    <3> HIDE DEF latest
    <3> QED
      BY <1>1, <3>1, <3>2, <3>3
  <2> QED
    BY <2>3, <2>4
<1> QED
  BY <1>3, <1>4

\* A process moves on with its own request, and completes no row but its own.
LEMMA OwnedStep ==
    ASSUME Sound, Owned, NEW c \in prClients, NEW call,
           prCall' = [prCall EXCEPT ![c] = call], prClients' = prClients,
           call.step \in Sent => prCall[c].step \in Sent /\ call.row = prCall[c].row,
           \A i \in DOMAIN prLedger :
              prCall[c].step \notin Sent \/ i # prCall[c].row => prLedger'[i] = prLedger[i],
           CallFits(call, prLedger'), Captured(prLedger')
    PROVE  Owned'
<1>1. /\ c \in Clients /\ prClients \subseteq Clients
      /\ prCall'[c] = call
      /\ \A d \in Clients : d # c => prCall'[d] = prCall[d]
  BY DEF Sound, TypeInv
<1>2. ASSUME NEW d \in prClients, NEW e \in prClients, d # e,
             prCall'[d].step \in Sent, prCall'[e].step \in Sent
      PROVE  prCall'[d].row # prCall'[e].row
  BY <1>1, <1>2 DEF Owned
<1>3. ASSUME NEW d \in prClients
      PROVE  CallFits(prCall'[d], prLedger')
  <2>1. CASE d = c
    BY <1>1, <2>1
  <2>2. CASE d # c /\ prCall[d].step \in Sent
    <3>1. prCall'[d] = prCall[d] /\ CallFits(prCall[d], prLedger)
      BY <1>1, <2>2 DEF Owned
    <3>2. prCall[d].row \in DOMAIN prLedger
      BY <1>1, <2>2 DEF Sound, TypeInv, CallOK
    <3>3. prLedger'[prCall[d].row] = prLedger[prCall[d].row]
      BY <2>2, <3>2 DEF Owned
    <3> QED
      BY <3>1, <3>3 DEF CallFits
  <2>3. CASE d # c /\ prCall[d].step \notin Sent
    BY <1>1, <2>3 DEF CallFits, Sent
  <2> QED
    BY <2>1, <2>2, <2>3
<1> QED
  BY <1>2, <1>3 DEF Owned

\* The lone process takes a step.
LEMMA OrderStep ==
    ASSUME Sound, Lone, NEW c \in prClients, NEW call,
           prCall' = [prCall EXCEPT ![c] = call], prClients' = prClients, prTime' = prTime,
           RowsInOrder(prLedger', prTime), WindowsKept(prLedger'),
           CallInOrder(call, prLedger', prTime)
    PROVE  InOrder'
<1>1. c \in Clients /\ prCall'[c] = call /\ \A d \in prClients : d = c
  BY DEF Sound, TypeInv, Lone
<1> QED
  BY <1>1 DEF InOrder

\* A row that is completed stays in its place, and its windows bind nobody yet
\* when it is the last.
LEMMA OrderCompleted ==
    ASSUME NEW old \in Seq(Row), NEW new \in Seq(Row), SameRows(old, new), NEW time,
           \A i \in DOMAIN old : i # Len(old) => new[i].rate = old[i].rate,
           RowsInOrder(old, time), WindowsKept(old)
    PROVE  RowsInOrder(new, time) /\ WindowsKept(new)
<1>1. /\ DOMAIN new = DOMAIN old /\ Len(old) \in Nat /\ DOMAIN old = 1..Len(old)
      /\ Requests(new) = Requests(old) /\ Requests(old) \subseteq DOMAIN old
  BY SeqFacts DEF SameRows, Requests
<1>2. RowsInOrder(new, time)
  BY <1>1 DEF SameRows, RowsInOrder
<1>3. ASSUME NEW i \in Requests(new), NEW j \in Requests(new), i < j
      PROVE  Clear(new[i], new[j].now)
  <2>1. /\ i \in DOMAIN old /\ j \in DOMAIN old /\ i # Len(old)
        /\ i \in Requests(old) /\ j \in Requests(old)
    BY <1>1, <1>3
  <2>2. Clear(old[i], old[j].now) /\ new[i].rate = old[i].rate /\ new[j].now = old[j].now
    BY <1>3, <2>1 DEF WindowsKept, SameRows
  <2> QED
    BY <2>2 DEF Clear
<1> QED
  BY <1>2, <1>3 DEF WindowsKept

\* A call that has no rows to look at, as nothing is done with it.
LEMMA IdleFits == \A rows, time : CallFits(NoCall, rows) /\ CallInOrder(NoCall, rows, time)
BY DEF NoCall, CallFits, CallInOrder, Sent

\* A step of c within its reservation, or out of it: the rows stay.
LEMMA ReservationStep ==
    ASSUME Sound, Answering, NEW c \in prClients, NEW call,
           prCall' = [prCall EXCEPT ![c] = call],
           UNCHANGED <<prClients, prTime, prLedger>>,
           call.step \notin Sent,
           Lone /\ InOrder => CallInOrder(call, prLedger, prTime)
    PROVE  Answering'
<1>1. CallFits(call, prLedger)
  BY DEF CallFits, Sent
<1>2. Owned'
  BY <1>1, OwnedStep DEF Answering, Owned
<1>3. ASSUME Lone PROVE InOrder'
  <2>1. InOrder
    BY <1>3 DEF Answering
  <2> QED
    BY <1>3, <2>1, OrderStep DEF InOrder
<1> QED
  BY <1>2, <1>3 DEF Answering, Lone

LEMMA GiveUpAnswers ==
    ASSUME Sound, Answering, NEW c \in prClients, GiveUp(c),
           UNCHANGED <<prClients, prTime, prLedger>>
    PROVE  Answering'
<1>1. prCall' = [prCall EXCEPT ![c] = NoCall]
  BY DEF GiveUp
<1> QED
  BY <1>1, IdleFits, NoCallType, ReservationStep

LEMMA BeginAnswers ==
    ASSUME Sound, Answering, NEW c \in prClients, NEW provider \in Providers,
           BeginReservation(c, provider)
    PROVE  Answering'
<1> DEFINE latest == IF provider = "kickoffapi" THEN LatestRequest ELSE 0
           step == IF provider = "kickoffapi" THEN "waiting" ELSE "checked"
           call == [NoCall EXCEPT !.step = step, !.provider = provider,
                                  !.started = prTime, !.now = prTime, !.latest = latest]
<1>1. /\ call.step = step /\ call.provider = provider /\ call.started = prTime
      /\ call.now = prTime /\ call.latest = latest
  <2> HIDE DEF step, latest
  <2> QED
    BY DEF NoCall
<1>2. prCall' = [prCall EXCEPT ![c] = call] /\ UNCHANGED <<prClients, prTime, prLedger>>
  BY DEF BeginReservation
<1>3. prTime \in Nat /\ TypeInv
  BY RequestAssumption DEF Sound, TypeInv
<1>4. ASSUME InOrder PROVE CallInOrder(call, prLedger, prTime)
  <2>1. /\ call.started <= prTime /\ call.now <= prTime
        /\ \A i \in DOMAIN prLedger : prLedger[i].at <= call.started
    BY <1>1, <1>3, <1>4 DEF InOrder, RowsInOrder
  <2>2. CASE provider = "kickoffapi"
    <3>1. \/ LatestRequest = 0 /\ Requests(prLedger) = {}
          \/ /\ LatestRequest \in Requests(prLedger)
             /\ \A i \in Requests(prLedger) : i <= LatestRequest
      BY <1>3, <1>4, LatestFound DEF InOrder
    <3>2. call.step = "waiting" /\ call.latest = LatestRequest
      BY <1>1, <2>2
    <3> HIDE DEF call
    <3> QED
      BY <2>1, <3>1, <3>2 DEF CallInOrder, Sent
  <2>3. CASE provider # "kickoffapi"
    <3>1. call.step = "checked" /\ call.provider # "kickoffapi"
      BY <1>1, <2>3
    <3> HIDE DEF call
    <3> QED
      BY <2>1, <3>1 DEF CallInOrder, Sent
  <2> QED
    BY <2>2, <2>3
<1>5. call.step \notin Sent
  BY <1>1 DEF Sent
<1> HIDE DEF call
<1> QED
  BY <1>2, <1>4, <1>5, ReservationStep

\* Nothing closes the window of the last request to the lone process, nor did
\* any earlier one to that request.
LEMMA CheckAnswers ==
    ASSUME Sound, Answering, NEW c \in prClients, CheckRateWindow(c)
    PROVE  Answering'
<1>1. UNCHANGED <<prClients, prTime, prLedger>>
  BY DEF CheckRateWindow
<1>2. CASE GiveUp(c)
  BY <1>1, <1>2, GiveUpAnswers
<1>3. CASE /\ ~WindowClosed(prCall[c].latest)
           /\ prCall' = [prCall EXCEPT ![c].step = "checked", ![c].now = prTime]
  <2> DEFINE call == [prCall[c] EXCEPT !.step = "checked", !.now = prTime]
             latest == prCall[c].latest
  <2>1. c \in Clients /\ prCall[c] \in Call(prCall[c].latest) /\ prCall[c].step = "waiting"
    BY CallTyped DEF Sound, CheckRateWindow, At
  <2>2. prTime \in Nat /\ prLedger \in Seq(Row) /\ TypeInv
    BY RequestAssumption DEF Sound, TypeInv
  <2>3. prCall' = [prCall EXCEPT ![c] = call]
    BY <1>3, <2>1
  <2>4. call.step = "checked" /\ call.now = prTime /\ call.started = prCall[c].started
    BY <2>1 DEF Call
  <2>5. ASSUME InOrder PROVE CallInOrder(call, prLedger, prTime)
    <3>1. CallInOrder(prCall[c], prLedger, prTime) /\ RowsInOrder(prLedger, prTime)
          /\ WindowsKept(prLedger)
      BY <2>5 DEF InOrder
    <3>2. ASSUME NEW i \in Requests(prLedger) PROVE Clear(prLedger[i], prTime)
      <4>1. /\ latest \in Requests(prLedger) /\ i <= latest
        BY <2>1, <3>1 DEF CallInOrder
      <4>2. /\ i \in DOMAIN prLedger /\ latest \in DOMAIN prLedger
            /\ i \in Nat /\ latest \in Nat /\ latest # 0
            /\ prLedger[i] \in Row /\ prLedger[latest] \in Row
        BY <2>2, <4>1, SeqFacts DEF Requests
      <4>3. CASE i = latest
        <5>1. ~(prLedger[latest].rate.left <= 0 /\ prLedger[latest].rate.reset > prTime)
          BY <1>3, <4>2 DEF WindowClosed
        <5>2. prLedger[latest].rate \in Rate
          BY <4>2 DEF Row
        <5> QED
          BY <2>2, <4>3, <5>1, <5>2 DEF Clear, Rate
      <4>4. CASE i # latest
        <5>1. i < latest
          BY <4>1, <4>2, <4>4
        <5>2. Clear(prLedger[i], prLedger[latest].now)
          BY <3>1, <4>1, <5>1 DEF WindowsKept
        <5>3. prLedger[latest].now <= prTime /\ prLedger[latest].now \in Nat
              /\ prLedger[i].rate \in Rate
          BY <3>1, <4>2 DEF RowsInOrder, Row
        <5> QED
          BY <2>2, <5>2, <5>3 DEF Clear, Rate
      <4> QED
        BY <4>3, <4>4
    <3>3. \A i \in DOMAIN prLedger : prLedger[i].at <= prCall[c].started
      BY <2>1, <3>1 DEF CallInOrder
    <3>4. prCall[c].started <= prTime
      BY <2>1, <3>1 DEF CallInOrder
    <3> HIDE DEF call
    <3> QED
      BY <2>2, <2>4, <3>2, <3>3, <3>4 DEF CallInOrder, Sent
  <2>6. call.step \notin Sent
    BY <2>4 DEF Sent
  <2> HIDE DEF call
  <2> QED
    BY <1>1, <2>3, <2>5, <2>6, ReservationStep
<1> QED
  BY <1>2, <1>3 DEF CheckRateWindow

\* A reservation that only moves on keeps its times.
LEMMA AdvanceAnswers ==
    ASSUME Sound, Answering, NEW c \in prClients, NEW call,
           prCall[c].step \in {"checked", "reserved"},
           Advances(c, call), call.step \in {"reserved", "counted"},
           call.provider = prCall[c].provider,
           call.started = prCall[c].started, call.now = prCall[c].now
    PROVE  Answering'
<1>1. ASSUME InOrder PROVE CallInOrder(call, prLedger, prTime)
  <2>1. CallInOrder(prCall[c], prLedger, prTime)
    BY <1>1 DEF InOrder
  <2> QED
    BY <2>1 DEF CallInOrder, Sent
<1>2. call.step \notin Sent
  BY DEF Sent
<1> QED
  BY <1>1, <1>2, ReservationStep DEF Advances

LEMMA ReserveAnswers ==
    ASSUME Sound, Answering, NEW c \in prClients, ReserveRequestSlot(c)
    PROVE  Answering'
<1> DEFINE today == prTime \div Day
           call == [prCall[c] EXCEPT !.step = "reserved", !.day = today]
<1>1. c \in Clients /\ prCall[c] \in Call(prCall[c].latest) /\ prCall[c].step = "checked"
  BY CallTyped DEF Sound, ReserveRequestSlot, At
<1>2. UNCHANGED <<prClients, prTime, prLedger, prBudget>>
  BY DEF ReserveRequestSlot
<1>3. CASE GiveUp(c)
  BY <1>2, <1>3, GiveUpAnswers
<1>4. CASE prCall' = [prCall EXCEPT ![c].step = "reserved", ![c].day = today]
  <2> HIDE DEF today
  <2>1. /\ call.step = "reserved" /\ call.provider = prCall[c].provider
        /\ call.started = prCall[c].started /\ call.now = prCall[c].now
    BY <1>1 DEF Call
  <2>2. Advances(c, call)
    BY <1>1, <1>2, <1>4 DEF Advances
  <2> HIDE DEF call
  <2> QED
    BY <1>1, <2>1, <2>2, AdvanceAnswers
<1> QED
  BY <1>3, <1>4 DEF ReserveRequestSlot

LEMMA CountAnswers ==
    ASSUME Sound, Answering, NEW c \in prClients, CountMinute(c)
    PROVE  Answering'
<1> DEFINE call == [prCall[c] EXCEPT !.step = "counted"]
<1>1. c \in Clients /\ prCall[c] \in Call(prCall[c].latest) /\ prCall[c].step = "reserved"
  BY CallTyped DEF Sound, CountMinute, At
<1>2. UNCHANGED <<prClients, prTime, prLedger, prBudget>>
  BY DEF CountMinute
<1>3. CASE GiveUp(c)
  BY <1>2, <1>3, GiveUpAnswers
<1>4. CASE GoTo(c, "counted")
  <2>1. /\ call.step = "counted" /\ call.provider = prCall[c].provider
        /\ call.started = prCall[c].started /\ call.now = prCall[c].now
    BY <1>1 DEF Call
  <2>2. Advances(c, call)
    BY <1>1, <1>2, <1>4 DEF Advances, GoTo
  <2> HIDE DEF call
  <2> QED
    BY <1>1, <2>1, <2>2, AdvanceAnswers
<1> QED
  BY <1>3, <1>4 DEF CountMinute

LEMMA ReservedNew ==
    ASSUME NEW latest, NEW call \in Call(latest)
    PROVE  /\ Reserved(call).at = call.started /\ Reserved(call).rate = Unknown
           /\ ~Reserved(call).fetch
BY DEF Reserved

LEMMA CommitAnswers ==
    ASSUME Sound, Answering, NEW c \in prClients, CommitReservation(c)
    PROVE  Answering'
<1> DEFINE p == prCall[c].provider
           row == Reserved(prCall[c])
           n == Len(prLedger)
           call == [NoCall EXCEPT !.step = "sent", !.provider = p, !.row = n + 1]
<1>1. /\ c \in Clients /\ prClients \subseteq Clients
      /\ prCall[c] \in Call(prCall[c].latest) /\ prCall[c].step = "counted"
      /\ prCall[c].step \notin Sent
  BY CallTyped DEF Sound, TypeInv, CommitReservation, At, Sent
<1>2. p \in Providers /\ prCall[c].now \in Nat /\ prCall[c].started \in Nat
  BY <1>1 DEF Call
<1>3. row \in Row /\ row.provider = p /\ row.now = prCall[c].now
  BY <1>1, ReservedType
<1>4. row.at = prCall[c].started /\ row.rate = Unknown /\ ~row.fetch
  BY <1>1, ReservedNew
<1>5. prLedger \in Seq(Row) /\ n \in Nat /\ DOMAIN prLedger = 1..n
  BY SeqFacts DEF Sound, TypeInv
<1>6. /\ prLedger' = Append(prLedger, row)
      /\ prCall' = [prCall EXCEPT ![c] = call]
      /\ UNCHANGED <<prClients, prTime>>
  BY DEF CommitReservation
<1>7. /\ call \in Call(0) /\ call.step = "sent" /\ call.row = n + 1
  <2> HIDE DEF p, n
  <2> QED
    BY <1>2, <1>5, SentType
<1> HIDE DEF row, call
<1>8. /\ prLedger' \in Seq(Row) /\ Len(prLedger') = n + 1
      /\ \A i \in DOMAIN prLedger : prLedger'[i] = prLedger[i]
      /\ prLedger'[n + 1] = row
  BY <1>3, <1>5, <1>6, OneMore
<1>9. DOMAIN prLedger' = 1..(n + 1) /\ DOMAIN prLedger' = DOMAIN prLedger \cup {n + 1}
  BY <1>5, <1>8, SeqFacts
<1>10. /\ prCall'[c] = call
       /\ \A d \in Clients : d # c => prCall'[d] = prCall[d]
  <2>1. prCall = [d \in Clients |-> prCall[d]]
    BY DEF Sound, TypeInv
  <2> QED
    BY <1>1, <1>6, <2>1
<1>11. \A d \in prClients : prCall[d].step \in Sent => prCall[d].row \in 1..n
  BY <1>1, <1>5 DEF Sound, TypeInv, CallOK
<1>12. Owned'
  <2>1. Owned
    BY DEF Answering
  <2>2. ASSUME NEW d \in prClients, NEW e \in prClients, d # e,
               prCall'[d].step \in Sent, prCall'[e].step \in Sent
        PROVE  prCall'[d].row # prCall'[e].row
    <3>1. \A f \in prClients : f # c => prCall'[f] = prCall[f]
      BY <1>1, <1>10
    <3>2. CASE d # c /\ e # c
      BY <2>1, <2>2, <3>1, <3>2 DEF Owned
    <3>3. CASE d = c
      BY <1>5, <1>7, <1>10, <1>11, <2>2, <3>1, <3>3
    <3>4. CASE e = c
      BY <1>5, <1>7, <1>10, <1>11, <2>2, <3>1, <3>4
    <3> QED
      BY <3>2, <3>3, <3>4
  <2>3. ASSUME NEW d \in prClients
        PROVE  CallFits(prCall'[d], prLedger')
    <3>1. CASE d = c
      BY <1>7, <1>10, <3>1 DEF CallFits
    <3>2. CASE d # c /\ prCall[d].step \in Sent
      <4>1. prCall'[d] = prCall[d] /\ CallFits(prCall[d], prLedger)
        BY <1>1, <1>10, <2>1, <3>2 DEF Owned
      <4>2. prLedger'[prCall[d].row] = prLedger[prCall[d].row]
        BY <1>5, <1>8, <1>11, <3>2
      <4> QED
        BY <4>1, <4>2 DEF CallFits
    <3>3. CASE d # c /\ prCall[d].step \notin Sent
      BY <1>1, <1>10, <3>3 DEF CallFits, Sent
    <3> QED
      BY <3>1, <3>2, <3>3
  <2>4. Captured(prLedger')
    <3> SUFFICES ASSUME NEW i \in DOMAIN prLedger', prLedger'[i].fetch
                 PROVE  prLedger'[i].stored
      BY DEF Captured
    <3>1. CASE i \in DOMAIN prLedger
      BY <1>8, <2>1, <3>1 DEF Owned, Captured
    <3>2. CASE i = n + 1
      BY <1>4, <1>8, <3>2
    <3> QED
      BY <1>9, <3>1, <3>2
  <2> QED
    BY <1>6, <2>2, <2>3, <2>4 DEF Owned
<1>13. ASSUME Lone PROVE InOrder'
  <2>1. /\ RowsInOrder(prLedger, prTime) /\ WindowsKept(prLedger)
        /\ CallInOrder(prCall[c], prLedger, prTime)
    BY <1>13 DEF Answering, InOrder
  <2>2. /\ row.at <= prTime /\ row.now <= prTime
        /\ \A i \in DOMAIN prLedger : prLedger[i].at <= row.at
    BY <1>1, <1>3, <1>4, <2>1 DEF CallInOrder
  <2>3. RowsInOrder(prLedger', prTime)
    <3>1. ASSUME NEW i \in DOMAIN prLedger'
          PROVE  prLedger'[i].at <= prTime /\ prLedger'[i].now <= prTime
      BY <1>8, <1>9, <2>1, <2>2 DEF RowsInOrder
    <3>2. ASSUME NEW i \in DOMAIN prLedger', NEW j \in DOMAIN prLedger', i < j
          PROVE  prLedger'[i].at <= prLedger'[j].at
      <4>1. i \in DOMAIN prLedger
        BY <1>5, <1>9, <3>2
      <4>2. CASE j \in DOMAIN prLedger
        BY <1>8, <2>1, <3>2, <4>1, <4>2 DEF RowsInOrder
      <4>3. CASE j = n + 1
        BY <1>8, <2>2, <4>1, <4>3
      <4> QED
        BY <1>9, <4>2, <4>3
    <3> QED
      BY <3>1, <3>2 DEF RowsInOrder
  <2>4. WindowsKept(prLedger')
    <3> SUFFICES ASSUME NEW i \in Requests(prLedger'), NEW j \in Requests(prLedger'), i < j
                 PROVE  Clear(prLedger'[i], prLedger'[j].now)
      BY DEF WindowsKept
    <3>1. i \in DOMAIN prLedger /\ j \in DOMAIN prLedger' /\ prLedger'[i] = prLedger[i]
      BY <1>5, <1>8, <1>9 DEF Requests
    <3>2. i \in Requests(prLedger)
      BY <3>1 DEF Requests
    <3>3. CASE j \in DOMAIN prLedger
      <4>1. prLedger'[j] = prLedger[j] /\ j \in Requests(prLedger)
        BY <1>8, <3>3 DEF Requests
      <4> QED
        BY <2>1, <3>1, <3>2, <4>1 DEF WindowsKept
    <3>4. CASE j = n + 1
      <4>1. p = "kickoffapi" /\ prLedger'[j].now = prCall[c].now
        BY <1>3, <1>8, <3>4 DEF Requests
      <4>2. Clear(prLedger[i], prCall[c].now)
        BY <1>1, <2>1, <3>2, <4>1 DEF CallInOrder
      <4> QED
        BY <3>1, <4>1, <4>2
    <3> QED
      BY <1>9, <3>1, <3>3, <3>4
  <2>5. CallInOrder(call, prLedger', prTime)
    BY <1>7, <1>8 DEF CallInOrder
  <2> QED
    BY <1>6, <1>13, <2>3, <2>4, <2>5, OrderStep
<1> QED
  BY <1>6, <1>12, <1>13 DEF Answering, Lone

\* A process completes the row of its own request, which is the last if it is
\* alone.
LEMMA CompleteAnswers ==
    ASSUME Sound, Answering, NEW c \in prClients, prCall[c].step \in Sent,
           NEW i, i = prCall[c].row, NEW call, NEW row \in Row,
           prCall' = [prCall EXCEPT ![c] = call], UNCHANGED <<prClients, prTime>>,
           prLedger' = [prLedger EXCEPT ![i] = row],
           row.provider = prLedger[i].provider, row.at = prLedger[i].at,
           row.now = prLedger[i].now, row.day = prLedger[i].day,
           row.fetch => row.stored,
           call.step = "idle" \/ (call.step \in Sent /\ call.row = i),
           call.step = "stored" => row.stored,
           call.step = "recorded" => row.status = "succeeded" /\ row.fetch
    PROVE  Answering'
<1>1. prLedger \in Seq(Row) /\ i \in DOMAIN prLedger
  BY CallTyped DEF Sound, TypeInv, CallOK
<1>2. /\ prLedger' \in Seq(Row) /\ SameRows(prLedger, prLedger')
      /\ DOMAIN prLedger' = DOMAIN prLedger
  BY <1>1, RowCompleted
<1>3. prLedger'[i] = row /\ \A k \in DOMAIN prLedger : k # i => prLedger'[k] = prLedger[k]
  BY <1>1
<1>4. Owned'
  <2>1. CallFits(call, prLedger')
    BY <1>3 DEF CallFits, Sent
  <2>2. Captured(prLedger')
    <3>1. Captured(prLedger)
      BY DEF Answering, Owned
    <3> SUFFICES ASSUME NEW k \in DOMAIN prLedger', prLedger'[k].fetch
                 PROVE  prLedger'[k].stored
      BY DEF Captured
    <3>2. CASE k = i
      BY <1>3, <3>2
    <3>3. CASE k # i
      BY <1>2, <1>3, <3>1, <3>3 DEF Captured
    <3> QED
      BY <3>2, <3>3
  <2>3. call.step \in Sent => call.row = prCall[c].row
    BY DEF Sent
  <2>4. Owned
    BY DEF Answering
  <2> QED
    BY <1>3, <2>1, <2>2, <2>3, <2>4, OwnedStep
<1>5. ASSUME Lone PROVE InOrder'
  <2>1. /\ RowsInOrder(prLedger, prTime) /\ WindowsKept(prLedger)
        /\ CallInOrder(prCall[c], prLedger, prTime)
    BY <1>5 DEF Answering, InOrder
  <2>2. i = Len(prLedger) /\ Len(prLedger') = Len(prLedger)
    BY <1>2, <2>1 DEF CallInOrder, SameRows
  <2>3. \A k \in DOMAIN prLedger : k # Len(prLedger) => prLedger'[k].rate = prLedger[k].rate
    BY <1>3, <2>2
  <2>4. RowsInOrder(prLedger', prTime) /\ WindowsKept(prLedger')
    BY <1>1, <1>2, <2>1, <2>3, OrderCompleted
  <2>5. CallInOrder(call, prLedger', prTime)
    BY <2>2 DEF CallInOrder, Sent
  <2> QED
    BY <1>5, <2>4, <2>5, OrderStep
<1> QED
  BY <1>4, <1>5 DEF Answering, Lone

LEMMA FailAnswers ==
    ASSUME Sound, Answering, NEW c \in prClients, prCall[c].step \in Sent,
           MarkRequestFailed(c)
    PROVE  Answering'
<1> DEFINE i == prCall[c].row
           row == [prLedger[i] EXCEPT !.status = "failed"]
<1>1. i \in DOMAIN prLedger /\ prLedger \in Seq(Row)
  BY CallTyped DEF Sound, TypeInv, CallOK
<1>2. prLedger[i] \in Row
  BY <1>1, SeqFacts
<1>3. prLedger' = [prLedger EXCEPT ![i] = row]
  BY <1>1 DEF MarkRequestFailed, SetRow
<1>4. /\ row \in Row
      /\ row.provider = prLedger[i].provider /\ row.at = prLedger[i].at
      /\ row.now = prLedger[i].now /\ row.day = prLedger[i].day
  BY <1>2, StatusSet
<1>5. row.fetch => row.stored
  <2>1. prLedger[i].fetch => prLedger[i].stored
    BY <1>1 DEF Answering, Owned, Captured
  <2>2. row.fetch = prLedger[i].fetch /\ row.stored = prLedger[i].stored
    BY <1>2 DEF Row
  <2> QED
    BY <2>1, <2>2
<1>6. prCall' = [prCall EXCEPT ![c] = NoCall] /\ UNCHANGED <<prClients, prTime>>
  BY DEF MarkRequestFailed, GiveUp
<1>7. NoCall.step = "idle"
  BY DEF NoCall
<1> HIDE DEF i, row
<1>8. i = prCall[c].row
  BY DEF i
<1> QED
  BY <1>3, <1>4, <1>5, <1>6, <1>7, <1>8, CompleteAnswers

LEMMA ReceiveAnswers ==
    ASSUME Sound, Answering, NEW c \in prClients, ReceiveAnswer(c)
    PROVE  Answering'
<1> DEFINE i == prCall[c].row
           row == [prLedger[i] EXCEPT !.stored = TRUE]
           call == [prCall[c] EXCEPT !.step = "stored"]
<1>1. i \in DOMAIN prLedger /\ prLedger \in Seq(Row) /\ prCall[c].step \in Sent
  BY CallTyped DEF Sound, TypeInv, CallOK, ReceiveAnswer, At, Sent
<1>2. prLedger[i] \in Row
  BY <1>1, SeqFacts
<1>3. prLedger' = [prLedger EXCEPT ![i] = row]
  BY <1>1 DEF ReceiveAnswer
<1>4. /\ row \in Row
      /\ row.provider = prLedger[i].provider /\ row.at = prLedger[i].at
      /\ row.now = prLedger[i].now /\ row.day = prLedger[i].day
  BY <1>2, StoredSet
<1>5. row.stored
  BY <1>2 DEF Row
<1>6. c \in Clients /\ prCall[c] \in Call(prCall[c].latest)
  BY CallTyped DEF Sound
<1>7. call.step = "stored" /\ call.row = i
  BY <1>6, CallMoves DEF Step
<1>8. prCall' = [prCall EXCEPT ![c] = call] /\ UNCHANGED <<prClients, prTime>>
  BY <1>6 DEF ReceiveAnswer, GoTo
<1>9. i = prCall[c].row
  OBVIOUS
<1> HIDE DEF i, row, call
<1>10. call.step \in Sent /\ call.step # "recorded"
  BY <1>7 DEF Sent
<1> QED
  BY <1>1, <1>3, <1>4, <1>5, <1>7, <1>8, <1>9, <1>10, CompleteAnswers

LEMMA RecordAnswers ==
    ASSUME Sound, Answering, NEW c \in prClients, NEW ok \in BOOLEAN, NEW rate \in Rates,
           RecordAnswer(c, ok, rate)
    PROVE  Answering'
<1> DEFINE i == prCall[c].row
           status == IF ok THEN "succeeded" ELSE "failed"
           row == Answered(prLedger[i], status, rate)
           moved == [prCall[c] EXCEPT !.step = "recorded"]
<1>1. /\ i \in DOMAIN prLedger /\ prLedger \in Seq(Row)
      /\ prCall[c].step = "stored" /\ prCall[c].step \in Sent
  BY CallTyped DEF Sound, TypeInv, CallOK, RecordAnswer, At, Sent
<1>2. prLedger[i] \in Row
  BY <1>1, SeqFacts
<1>3. prLedger' = [prLedger EXCEPT ![i] = row]
  BY <1>1 DEF RecordAnswer, Answered
<1>4. rate \in Rate /\ status \in {"succeeded", "failed"}
  <2>1. TypeInv
    BY DEF Sound
  <2> QED
    BY <2>1, RateTyped
<1>5. /\ row \in Row
      /\ row.provider = prLedger[i].provider /\ row.at = prLedger[i].at
      /\ row.now = prLedger[i].now /\ row.day = prLedger[i].day
  <2> HIDE DEF status, i
  <2> QED
    BY <1>2, <1>4, AnswerSet
<1>6. row.status = status /\ row.fetch /\ row.stored = prLedger[i].stored
  <2> HIDE DEF status, i
  <2> QED
    BY <1>2 DEF Row, Answered
<1>7. prLedger[i].stored
  BY <1>1 DEF Answering, Owned, CallFits
<1>8. row.stored
  BY <1>6, <1>7
<1>9. c \in Clients /\ prCall[c] \in Call(prCall[c].latest)
  BY CallTyped DEF Sound
<1>10. moved.step = "recorded" /\ moved.row = i
  BY <1>9, CallMoves DEF Step
<1>11. UNCHANGED <<prClients, prTime>> /\ i = prCall[c].row
  BY DEF RecordAnswer
<1>12. CASE ok /\ GoTo(c, "recorded")
  <2>1. prCall' = [prCall EXCEPT ![c] = moved] /\ status = "succeeded"
    BY <1>9, <1>12 DEF GoTo
  <2> HIDE DEF i, row, moved, status
  <2>2. moved.step \in Sent /\ moved.step # "stored"
    BY <1>10 DEF Sent
  <2> QED
    BY <1>1, <1>3, <1>5, <1>6, <1>8, <1>10, <1>11, <2>1, <2>2, CompleteAnswers
<1>13. CASE ~ok /\ GiveUp(c)
  <2>1. prCall' = [prCall EXCEPT ![c] = NoCall] /\ NoCall.step = "idle"
    BY <1>13 DEF GiveUp, NoCall
  <2> HIDE DEF i, row, moved, status
  <2> QED
    BY <1>1, <1>3, <1>5, <1>8, <1>11, <2>1, CompleteAnswers
<1> QED
  BY <1>12, <1>13 DEF RecordAnswer

LEMMA TickAnswers ==
    ASSUME Sound, Answering, Tick
    PROVE  Answering'
<1>1. /\ UNCHANGED <<prClients, prLedger, prCall>>
      /\ prTime \in Nat /\ prTime' = prTime + 1
  BY RequestAssumption DEF Tick, Sound, TypeInv
<1>2. Owned'
  BY <1>1 DEF Answering, Owned
<1>3. ASSUME InOrder PROVE InOrder'
  <2>1. RowsInOrder(prLedger', prTime')
    <3>1. \A i \in DOMAIN prLedger : prLedger[i].at \in Nat /\ prLedger[i].now \in Nat
      BY SeqFacts DEF Sound, TypeInv, Row
    <3> QED
      BY <1>1, <1>3, <3>1 DEF InOrder, RowsInOrder
  <2>2. WindowsKept(prLedger')
    BY <1>1, <1>3 DEF InOrder
  <2>3. ASSUME NEW c \in prClients
        PROVE  CallInOrder(prCall'[c], prLedger', prTime')
    <3>1. prCall[c].started \in Nat /\ prCall[c].now \in Nat
      BY CallTyped DEF Sound, Call
    <3>2. CallInOrder(prCall[c], prLedger, prTime)
      BY <1>3 DEF InOrder
    <3>3. prCall[c].step \in {"waiting", "checked", "reserved", "counted"} =>
            /\ prCall[c].started <= prTime' /\ prCall[c].now <= prTime'
            /\ \A i \in DOMAIN prLedger : prLedger[i].at <= prCall[c].started
      BY <1>1, <3>1, <3>2 DEF CallInOrder
    <3> QED
      BY <1>1, <3>2, <3>3 DEF CallInOrder
  <2> QED
    BY <1>1, <2>1, <2>2, <2>3 DEF InOrder
<1> QED
  BY <1>1, <1>2, <1>3 DEF Answering, Lone

LEMMA InitAnswers == ProviderRequestsInit => Answering
<1> SUFFICES ASSUME ProviderRequestsInit PROVE Answering
  OBVIOUS
<1>1. DOMAIN prLedger = {}
  BY EmptySeq DEF ProviderRequestsInit, ProviderRequestsStart
<1>2. \A c \in prClients : prCall[c] = NoCall
  BY DEF ProviderRequestsInit, ProviderRequestsStart
<1>3. NoCall.step = "idle" /\ NoCall.step \notin Sent
  BY DEF NoCall, Sent
<1>4. Owned
  BY <1>1, <1>2, <1>3, IdleFits DEF Owned, Captured
<1>5. InOrder
  BY <1>1, <1>2, IdleFits DEF InOrder, RowsInOrder, WindowsKept, Requests
<1> QED
  BY <1>4, <1>5 DEF Answering

LEMMA NextAnswers ==
    Sound /\ Answering /\ [ProviderRequestsNext]_requestVars => Answering'
<1> SUFFICES ASSUME Sound, Answering, [ProviderRequestsNext]_requestVars PROVE Answering'
  OBVIOUS
<1>1. ASSUME NEW c \in prClients, ClientStep(c) PROVE Answering'
  <2>1. CASE \E p \in Providers : BeginReservation(c, p)
    BY <2>1, BeginAnswers
  <2>2. CASE CheckRateWindow(c)
    BY <2>2, CheckAnswers
  <2>3. CASE ReserveRequestSlot(c)
    BY <2>3, ReserveAnswers
  <2>4. CASE CountMinute(c)
    BY <2>4, CountAnswers
  <2>5. CASE CommitReservation(c)
    BY <2>5, CommitAnswers
  <2>6. CASE RequestFails(c)
    BY <2>6, FailAnswers DEF RequestFails, At, Sent
  <2>7. CASE ReceiveAnswer(c)
    BY <2>7, ReceiveAnswers
  <2>8. CASE \E ok \in BOOLEAN, rate \in Rates : RecordAnswer(c, ok, rate)
    BY <2>8, RecordAnswers
  <2>9. CASE InvalidPayload(c)
    BY <2>9, FailAnswers DEF InvalidPayload, At, Sent
  <2>10. CASE ReturnPayload(c)
    BY <2>10, GiveUpAnswers DEF ReturnPayload
  <2>11. CASE Die(c)
    BY <2>11, GiveUpAnswers DEF Die
  <2> QED
    BY <1>1, <2>1, <2>2, <2>3, <2>4, <2>5, <2>6, <2>7, <2>8, <2>9, <2>10, <2>11
       DEF ClientStep
<1>2. CASE Tick
  BY <1>2, TickAnswers
<1>3. CASE UNCHANGED requestVars
  BY <1>3 DEF requestVars, Answering, Owned, Lone, InOrder
<1> QED
  BY <1>1, <1>2, <1>3 DEF ProviderRequestsNext

LEMMA AnsweringKept == Sound /\ Answering => AnswersKept
<1> SUFFICES ASSUME Sound, Answering PROVE AnswersKept
  OBVIOUS
<1>1. ASSUME Cardinality(prClients) = 1,
             NEW i \in DOMAIN prLedger, NEW j \in DOMAIN prLedger, i < j,
             prLedger[i].provider = "kickoffapi", prLedger[j].provider = "kickoffapi",
             prLedger[i].rate.left <= 0
      PROVE  prLedger[i].rate.reset <= prLedger[j].now
  <2>1. IsFiniteSet(prClients)
    <3>1. IsFiniteSet(Clients) /\ prClients \in SUBSET Clients
      BY RequestAssumption DEF Sound, TypeInv
    <3> QED
      BY <3>1, FS_Subset
  <2>2. \E c : prClients = {c}
    BY <1>1, <2>1, FS_Singleton
  <2>3. WindowsKept(prLedger)
    BY <2>2 DEF Answering, Lone, InOrder
  <2>4. i \in Requests(prLedger) /\ j \in Requests(prLedger)
    BY <1>1 DEF Requests
  <2> QED
    BY <1>1, <2>3, <2>4 DEF WindowsKept, Clear
<1>2. ASSUME NEW c \in prClients, At(c, "recorded")
      PROVE  prLedger[prCall[c].row].status = "succeeded" /\ prLedger[prCall[c].row].fetch
  BY <1>2 DEF Answering, Owned, CallFits, At
<1>3. ASSUME NEW i \in DOMAIN prLedger, prLedger[i].fetch
      PROVE  prLedger[i].stored
  BY <1>3 DEF Answering, Owned, Captured
<1> QED
  BY <1>1, <1>2, <1>3 DEF AnswersKept

\* Whatever fails or is killed: a process that has KickoffAPI for itself is
\* never reserved a request in a window that any of the provider's answers
\* declared empty (KickoffApiClient.get looks at the newest request only); and
\* with any number of processes a payload is handed out and a fetch recorded
\* only for a file that was written (the file is stored before both).
THEOREM AnswersRespected == ProviderRequestsSpec => []AnswersKept
<1>1. ProviderRequestsInit => Sound /\ Answering
  BY InitSound, InitAnswers
<1>2. Sound /\ Answering /\ [ProviderRequestsNext]_requestVars => (Sound /\ Answering)'
  BY NextSound, NextAnswers
<1>3. Sound /\ Answering => AnswersKept
  BY AnsweringKept
<1> QED
  BY <1>1, <1>2, <1>3, PTL DEF ProviderRequestsSpec

-----------------------------------------------------------------------------
(* Which match a row is: what the ingestions keep true of the tables         *)

Teams == DOMAIN TeamName
Names == DOMAIN ClubIdentity
ClubReference == [id : Teams, club : Nat \ {0}]
MatchReference == [id : Int, match : Nat \ {0}]
StoredMatch ==
    [home : Nat \ {0}, away : Nat \ {0}, kickoff : Int, status : STRING, revisions : Nat]

Typed(db) ==
    /\ db = [clubs |-> db.clubs, clubRefs |-> db.clubRefs, matches |-> db.matches,
             refs |-> db.refs, reviews |-> db.reviews]
    /\ db.clubs \in Seq(Names) /\ db.clubRefs \subseteq ClubReference
    /\ db.matches \in Seq(StoredMatch) /\ db.refs \subseteq MatchReference

SpellingOf(db, c) == ClubIdentity[db.clubs[c]]
Namesakes(db, c, d) == c # d /\ SpellingOf(db, c) = SpellingOf(db, d)
FixtureOf(db, m) ==
    <<SpellingOf(db, db.matches[m].home), SpellingOf(db, db.matches[m].away)>>

\* A team is referred to a club of its identity, never to one of two; and what
\* is under review has two.
ClubsHold(db) ==
    /\ \A ref \in db.clubRefs :
         ref.club \in DOMAIN db.clubs /\ SpellingOf(db, ref.club) = IdentityOf(ref.id)
    /\ \A c, d \in DOMAIN db.clubs : Namesakes(db, c, d) =>
         /\ \A team \in Teams : TeamName[team] # db.clubs[c]
         /\ \A ref \in db.clubRefs : ref.club # c
    /\ \A team \in Teams : <<"club", team>> \in db.reviews =>
         \E c, d \in DOMAIN db.clubs :
           Namesakes(db, c, d) /\ SpellingOf(db, c) = IdentityOf(team)

\* All rows of a fixture share an identifier or a date.
Near(rows, fixture) ==
    \A s, t \in rows : Fixture(s) = fixture /\ Fixture(t) = fixture =>
        s.id = t.id \/ Within(s.date, t.date, Tolerance)

\* A match stands where one of its rows put it, every identifier is that of a row
\* of its match, and a fixture whose rows are near each other has one match.
MatchesHold(seen, db) ==
    /\ \A m \in DOMAIN db.matches :
         /\ \E ref \in db.clubRefs : ref.club = db.matches[m].home
         /\ \E ref \in db.clubRefs : ref.club = db.matches[m].away
    /\ \A m \in DOMAIN db.matches : \E s \in seen, ref \in db.refs :
         /\ Fixture(s) = FixtureOf(db, m) /\ s.date = db.matches[m].kickoff
         /\ ref.id = s.id /\ ref.match = m
    /\ \A ref \in db.refs :
         /\ ref.match \in DOMAIN db.matches
         /\ \E s \in seen : s.id = ref.id /\ Fixture(s) = FixtureOf(db, ref.match)
    /\ \A x, y \in db.refs : x.id = y.id => x = y
    /\ \A m, n \in DOMAIN db.matches :
         FixtureOf(db, m) = FixtureOf(db, n) /\ Near(seen, FixtureOf(db, m)) => m = n

\* An identifier is of one fixture.
RowsSeen(seen) ==
    /\ seen \subseteq ProviderRow
    /\ \A r, s \in seen : r.id = s.id => Fixture(r) = Fixture(s)

Consistent(seen, db) == Typed(db) /\ ClubsHold(db) /\ MatchesHold(seen, db)

\* What an ingestion never takes back.
Later(db, new) ==
    /\ \A c \in DOMAIN db.clubs : c \in DOMAIN new.clubs /\ new.clubs[c] = db.clubs[c]
    /\ db.clubRefs \subseteq new.clubRefs /\ db.reviews \subseteq new.reviews

Known(db, team) == ClubOf(db, team) # 0 \/ <<"club", team>> \in db.reviews

-----------------------------------------------------------------------------

LEMMA Members ==
    ASSUME NEW S, IsFiniteSet(S)
    PROVE  /\ Cardinality(S) > 1 => \E x, y \in S : x # y
           /\ ~(Cardinality(S) > 1) => \A x, y \in S : x = y
<1>1. Cardinality(S) \in Nat
  BY FS_CardinalityType
<1>2. ASSUME Cardinality(S) > 1 PROVE \E x, y \in S : x # y
  <2>1. S # {}
    BY <1>2, FS_EmptySet
  <2>2. PICK x \in S : TRUE
    BY <2>1
  <2>3. S # {x}
    BY <1>2, FS_Singleton
  <2> QED BY <2>2, <2>3
<1>3. ASSUME ~(Cardinality(S) > 1), NEW x \in S, NEW y \in S PROVE x = y
  <2>1. Cardinality(S) # 0
    BY FS_EmptySet
  <2>2. Cardinality(S) = 1
    BY <1>1, <1>3, <2>1
  <2>3. PICK z : S = {z}
    BY <2>2, FS_Singleton
  <2> QED BY <2>3
<1> QED BY <1>2, <1>3

LEMMA Positions ==
    ASSUME NEW S, NEW s \in Seq(S)
    PROVE  /\ Len(s) \in Nat /\ DOMAIN s = 1..Len(s) /\ IsFiniteSet(DOMAIN s)
           /\ \A T \in SUBSET DOMAIN s : IsFiniteSet(T)
           /\ \A i \in DOMAIN s : s[i] \in S /\ i \in Nat \ {0}
<1>1. Len(s) \in Nat /\ DOMAIN s = 1..Len(s) /\ \A i \in DOMAIN s : s[i] \in S
  BY LenProperties, ElementOfSeq
<1>2. IsFiniteSet(DOMAIN s)
  BY <1>1, FS_Interval
<1> QED BY <1>1, <1>2, FS_Subset

LEMMA Appended ==
    ASSUME NEW S, NEW s \in Seq(S), NEW x \in S
    PROVE  /\ Append(s, x) \in Seq(S) /\ DOMAIN Append(s, x) = DOMAIN s \cup {Len(s) + 1}
           /\ \A i \in DOMAIN s : Append(s, x)[i] = s[i]
           /\ Append(s, x)[Len(s) + 1] = x
           /\ Len(s) + 1 \in Nat \ {0} /\ Len(s) + 1 \notin DOMAIN s
<1>1. /\ Len(s) \in Nat /\ DOMAIN s = 1..Len(s)
      /\ Append(s, x) \in Seq(S) /\ Len(Append(s, x)) = Len(s) + 1
      /\ \A i \in 1..Len(s) : Append(s, x)[i] = s[i]
      /\ Append(s, x)[Len(s) + 1] = x
  BY LenProperties, AppendProperties
<1>2. DOMAIN Append(s, x) = 1..(Len(s) + 1)
  BY <1>1, LenProperties
<1> QED BY <1>1, <1>2

\* The identity of a club that a team is referred to is that of this club alone.
LEMMA OneClub ==
    ASSUME NEW db, ClubsHold(db), NEW x \in db.clubRefs, NEW c \in DOMAIN db.clubs,
           SpellingOf(db, x.club) = SpellingOf(db, c)
    PROVE  x.club = c
  BY Zenon DEF ClubsHold, Namesakes

LEMMA ClubFound ==
    ASSUME NEW db, Typed(db), ClubsHold(db), NEW team \in Teams
    PROVE  /\ ClubOf(db, team) = 0 <=> ~\E ref \in db.clubRefs : ref.id = team
           /\ ClubOf(db, team) # 0 =>
                /\ \E ref \in db.clubRefs : ref.id = team /\ ref.club = ClubOf(db, team)
                /\ ClubOf(db, team) \in DOMAIN db.clubs
                /\ SpellingOf(db, ClubOf(db, team)) = IdentityOf(team)
           /\ \A ref \in db.clubRefs : ref.id = team => ref.club = ClubOf(db, team)
<1>1. CASE ~\E ref \in db.clubRefs : ref.id = team
  BY <1>1 DEF ClubOf
<1>2. CASE \E ref \in db.clubRefs : ref.id = team
  <2>1. PICK ref : ref = CHOOSE x \in db.clubRefs : x.id = team
    OBVIOUS
  <2>2. ref \in db.clubRefs /\ ref.id = team
    BY <1>2, <2>1
  <2>3. ClubOf(db, team) = ref.club
    BY <1>2, <2>1 DEF ClubOf
  <2>4. ref.club # 0
    BY <2>2 DEF Typed, ClubReference
  <2>5. ref.club \in DOMAIN db.clubs /\ SpellingOf(db, ref.club) = IdentityOf(team)
    BY <2>2 DEF ClubsHold
  <2>6. ASSUME NEW x \in db.clubRefs, x.id = team PROVE x.club = ref.club
    <3>1. x.club \in DOMAIN db.clubs /\ SpellingOf(db, x.club) = IdentityOf(team)
      BY <2>6 DEF ClubsHold
    <3> QED BY <2>5, <3>1, OneClub
  <2> QED BY <1>2, <2>2, <2>3, <2>4, <2>5, <2>6
<1> QED BY <1>1, <1>2

\* What is under review stays so.
LEMMA UnderReview ==
    ASSUME NEW db, Typed(db), ClubsHold(db), NEW team \in Teams,
           <<"club", team>> \in db.reviews
    PROVE  /\ ClubOf(db, team) = 0
           /\ ResolveClub(db, team) = db
           /\ \A ref \in db.clubRefs : SpellingOf(db, ref.club) # IdentityOf(team)
<1>1. PICK c \in DOMAIN db.clubs, d \in DOMAIN db.clubs :
        Namesakes(db, c, d) /\ SpellingOf(db, c) = IdentityOf(team)
  BY DEF ClubsHold
<1>2. ASSUME NEW e \in DOMAIN db.clubs, SpellingOf(db, e) = IdentityOf(team)
      PROVE  /\ \A t \in Teams : TeamName[t] # db.clubs[e]
             /\ \A ref \in db.clubRefs : ref.club # e
  <2>1. Namesakes(db, e, c) \/ Namesakes(db, e, d)
    BY <1>1, <1>2 DEF Namesakes
  <2> QED BY <2>1 DEF ClubsHold
<1>3. \A ref \in db.clubRefs : SpellingOf(db, ref.club) # IdentityOf(team)
  BY <1>2 DEF ClubsHold
<1>4. ClubOf(db, team) = 0
  <2>1. ~\E ref \in db.clubRefs : ref.id = team
    BY <1>3 DEF ClubsHold
  <2> QED BY <2>1, ClubFound
<1>5. Cardinality(ClubCandidates(db, team)) > 1
  <2>1. \A e \in DOMAIN db.clubs : db.clubs[e] # TeamName[team]
    BY <1>2 DEF SpellingOf, IdentityOf
  <2>2. ClubCandidates(db, team) = {e \in DOMAIN db.clubs : SpellingOf(db, e) = IdentityOf(team)}
    BY <2>1 DEF ClubCandidates, SpellingOf
  <2>3. IsFiniteSet(ClubCandidates(db, team))
    <3>1. ClubCandidates(db, team) \in SUBSET DOMAIN db.clubs
      BY <2>2
    <3> QED BY <3>1, Positions DEF Typed
  <2>4. c \in ClubCandidates(db, team) /\ d \in ClubCandidates(db, team) /\ c # d
    BY <1>1, <2>2 DEF Namesakes
  <2> QED BY <2>3, <2>4, Members
<1>6. QueueReview(db, "club", team) = db
  <2>1. db.reviews \cup {<<"club", team>>} = db.reviews
    OBVIOUS
  <2> QED BY <2>1 DEF QueueReview, Typed
<1>7. ResolveClub(db, team) = db
  BY <1>4, <1>5, <1>6 DEF ResolveClub
<1> QED BY <1>3, <1>4, <1>7

\* A club that is referred to is found again.
LEMMA ClubStays ==
    ASSUME NEW db, Typed(db), ClubsHold(db), NEW new, Typed(new), ClubsHold(new),
           Later(db, new), NEW team \in Teams, Known(db, team)
    PROVE  Known(new, team) /\ ClubOf(new, team) = ClubOf(db, team)
<1>1. CASE ClubOf(db, team) # 0
  <2>1. PICK ref \in db.clubRefs : ref.id = team /\ ref.club = ClubOf(db, team)
    BY <1>1, ClubFound
  <2>2. ref \in new.clubRefs
    BY DEF Later
  <2>3. ref.club = ClubOf(new, team)
    BY <2>1, <2>2, ClubFound
  <2> QED BY <1>1, <2>1, <2>3 DEF Known
<1>2. CASE ClubOf(db, team) = 0
  <2>1. <<"club", team>> \in new.reviews
    BY <1>2 DEF Known, Later
  <2>2. ClubOf(new, team) = 0
    BY <2>1, UnderReview
  <2> QED BY <1>2, <2>1, <2>2 DEF Known
<1> QED BY <1>1, <1>2

LEMMA ClubNamed ==
    ASSUME NEW db, Typed(db), ClubsHold(db), NEW ref \in db.clubRefs, NEW team \in Teams,
           ref.id = team
    PROVE  Known(db, team)
  BY ClubFound DEF Known

\* A reference to the one club of an identity.
LEMMA ClubReferred ==
    ASSUME NEW db, Typed(db), ClubsHold(db), NEW team \in Teams,
           NEW c \in DOMAIN db.clubs, SpellingOf(db, c) = IdentityOf(team),
           \A d \in DOMAIN db.clubs : ~Namesakes(db, c, d) /\ ~Namesakes(db, d, c),
           NEW new, new = [db EXCEPT !.clubRefs = @ \cup {[id |-> team, club |-> c]}]
    PROVE  /\ Typed(new) /\ ClubsHold(new) /\ Later(db, new) /\ Known(new, team)
           /\ new.matches = db.matches /\ new.refs = db.refs
           /\ \A x : x \in new.reviews => x \in db.reviews
<1>1. /\ new.clubs = db.clubs /\ new.clubRefs = db.clubRefs \cup {[id |-> team, club |-> c]}
      /\ new.matches = db.matches /\ new.refs = db.refs /\ new.reviews = db.reviews
      /\ new = [clubs |-> new.clubs, clubRefs |-> new.clubRefs, matches |-> new.matches,
                refs |-> new.refs, reviews |-> new.reviews]
  BY DEF Typed
<1>2. PICK ref : ref = [id |-> team, club |-> c]
  OBVIOUS
<1>3. ref \in ClubReference
  <2>1. c \in Nat \ {0}
    BY Positions DEF Typed
  <2> QED BY <1>2, <2>1 DEF ClubReference
<1>4. Typed(new)
  BY <1>1, <1>2, <1>3 DEF Typed
<1>5. ClubsHold(new)
  <2>1. ref.id = team /\ ref.club = c
    BY <1>2
  <2>2. new.clubRefs = db.clubRefs \cup {ref}
    BY <1>1, <1>2
  <2>3. \A d, e : SpellingOf(new, d) = SpellingOf(db, d) /\ (Namesakes(new, d, e) <=> Namesakes(db, d, e))
    BY <1>1 DEF SpellingOf, Namesakes
  <2>4. ASSUME NEW x \in new.clubRefs
        PROVE  x.club \in DOMAIN new.clubs /\ SpellingOf(new, x.club) = IdentityOf(x.id)
    <3>1. x.club \in DOMAIN db.clubs /\ SpellingOf(db, x.club) = IdentityOf(x.id)
      <4>1. CASE x \in db.clubRefs
        BY <4>1 DEF ClubsHold
      <4>2. CASE x = ref
        BY <2>1, <4>2
      <4> QED BY <2>2, <4>1, <4>2
    <3> QED BY <1>1, <2>3, <3>1
  <2>5. ASSUME NEW d \in DOMAIN new.clubs, NEW e \in DOMAIN new.clubs, Namesakes(new, d, e)
        PROVE  /\ \A t \in Teams : TeamName[t] # new.clubs[d]
               /\ \A x \in new.clubRefs : x.club # d
    <3>1. Namesakes(db, d, e) /\ d \in DOMAIN db.clubs /\ e \in DOMAIN db.clubs
      BY <1>1, <2>3, <2>5
    <3>2. /\ \A t \in Teams : TeamName[t] # db.clubs[d]
          /\ \A x \in db.clubRefs : x.club # d
      BY <3>1, Zenon DEF ClubsHold
    <3>3. ref.club # d
      BY <2>1, <3>1
    <3> QED BY <1>1, <2>2, <3>2, <3>3
  <2>6. ASSUME NEW t \in Teams, <<"club", t>> \in new.reviews
        PROVE  \E d, e \in DOMAIN new.clubs :
                 Namesakes(new, d, e) /\ SpellingOf(new, d) = IdentityOf(t)
    BY <1>1, <2>3, <2>6 DEF ClubsHold
  <2> QED BY <2>4, <2>5, <2>6 DEF ClubsHold
<1>6. Later(db, new)
  <2>1. \A k \in DOMAIN db.clubs : k \in DOMAIN new.clubs /\ new.clubs[k] = db.clubs[k]
    BY <1>1
  <2>2. db.clubRefs \subseteq new.clubRefs /\ db.reviews \subseteq new.reviews
    BY <1>1
  <2> QED BY <2>1, <2>2 DEF Later
<1>7. Known(new, team)
  <2>1. ref \in new.clubRefs /\ ref.id = team
    BY <1>1, <1>2
  <2> QED BY <1>4, <1>5, <2>1, ClubNamed, Zenon
<1> QED BY <1>1, <1>4, <1>5, <1>6, <1>7

\* A club of a new identity.
LEMMA ClubAdded ==
    ASSUME NEW db, Typed(db), ClubsHold(db), NEW team \in Teams,
           \A c \in DOMAIN db.clubs : SpellingOf(db, c) # IdentityOf(team),
           NEW new, new = [db EXCEPT !.clubs = Append(@, TeamName[team])]
    PROVE  /\ Typed(new) /\ ClubsHold(new) /\ Later(db, new)
           /\ new.matches = db.matches /\ new.refs = db.refs /\ new.reviews = db.reviews
           /\ Len(db.clubs) + 1 \in DOMAIN new.clubs
           /\ SpellingOf(new, Len(db.clubs) + 1) = IdentityOf(team)
           /\ \A d \in DOMAIN new.clubs :
                /\ ~Namesakes(new, Len(db.clubs) + 1, d)
                /\ ~Namesakes(new, d, Len(db.clubs) + 1)
<1>1. /\ new.clubs = Append(db.clubs, TeamName[team]) /\ new.clubRefs = db.clubRefs
      /\ new.matches = db.matches /\ new.refs = db.refs /\ new.reviews = db.reviews
      /\ new = [clubs |-> new.clubs, clubRefs |-> new.clubRefs, matches |-> new.matches,
                refs |-> new.refs, reviews |-> new.reviews]
  BY DEF Typed
<1>2. PICK last : last = Len(db.clubs) + 1
  OBVIOUS
<1>3. /\ new.clubs \in Seq(Names) /\ DOMAIN new.clubs = DOMAIN db.clubs \cup {last}
      /\ \A c \in DOMAIN db.clubs : new.clubs[c] = db.clubs[c]
      /\ new.clubs[last] = TeamName[team] /\ last \notin DOMAIN db.clubs
  <2>1. TeamName[team] \in Names /\ db.clubs \in Seq(Names)
    BY ClubsAssumption DEF Names, Teams, Typed
  <2> QED BY <1>1, <1>2, <2>1, Appended
<1>4. /\ \A c \in DOMAIN db.clubs : SpellingOf(new, c) = SpellingOf(db, c)
      /\ SpellingOf(new, last) = IdentityOf(team)
  BY <1>3 DEF SpellingOf, IdentityOf
<1>5. \A d \in DOMAIN new.clubs : ~Namesakes(new, last, d) /\ ~Namesakes(new, d, last)
  BY <1>3, <1>4 DEF Namesakes
<1>6. ASSUME NEW c \in DOMAIN new.clubs, NEW d \in DOMAIN new.clubs, Namesakes(new, c, d)
      PROVE  c \in DOMAIN db.clubs /\ d \in DOMAIN db.clubs /\ Namesakes(db, c, d)
  <2>1. c \in DOMAIN db.clubs /\ d \in DOMAIN db.clubs
    BY <1>3, <1>5, <1>6
  <2> QED BY <1>4, <1>6, <2>1 DEF Namesakes
<1>7. ClubsHold(new)
  <2>1. ASSUME NEW x \in new.clubRefs
        PROVE  x.club \in DOMAIN new.clubs /\ SpellingOf(new, x.club) = IdentityOf(x.id)
    BY <1>1, <1>3, <1>4 DEF ClubsHold
  <2>2. ASSUME NEW d \in DOMAIN new.clubs, NEW e \in DOMAIN new.clubs, Namesakes(new, d, e)
        PROVE  /\ \A t \in Teams : TeamName[t] # new.clubs[d]
               /\ \A x \in new.clubRefs : x.club # d
    <3>1. Namesakes(db, d, e) /\ d \in DOMAIN db.clubs /\ e \in DOMAIN db.clubs
      BY <1>6, <2>2
    <3>2. /\ \A t \in Teams : TeamName[t] # db.clubs[d]
          /\ \A x \in db.clubRefs : x.club # d
      BY <3>1, Zenon DEF ClubsHold
    <3> QED BY <1>1, <1>3, <3>1, <3>2
  <2>3. ASSUME NEW t \in Teams, <<"club", t>> \in new.reviews
        PROVE  \E d, e \in DOMAIN new.clubs :
                 Namesakes(new, d, e) /\ SpellingOf(new, d) = IdentityOf(t)
    <3>1. PICK d \in DOMAIN db.clubs, e \in DOMAIN db.clubs :
            Namesakes(db, d, e) /\ SpellingOf(db, d) = IdentityOf(t)
      BY <1>1, <2>3 DEF ClubsHold
    <3> QED BY <1>3, <1>4, <3>1 DEF Namesakes
  <2> QED BY <2>1, <2>2, <2>3 DEF ClubsHold
<1>8. Typed(new)
  BY <1>1, <1>3 DEF Typed
<1>9. Later(db, new)
  BY <1>1, <1>3 DEF Later
<1> QED BY <1>1, <1>2, <1>3, <1>4, <1>5, <1>7, <1>8, <1>9

\* Resolving a team leaves it with a club or under review.
LEMMA ClubResolved ==
    ASSUME NEW db, Typed(db), ClubsHold(db), NEW team \in Teams,
           NEW new, new = ResolveClub(db, team)
    PROVE  /\ Typed(new) /\ ClubsHold(new) /\ Later(db, new) /\ Known(new, team)
           /\ new.matches = db.matches /\ new.refs = db.refs
<1> DEFINE found == ClubCandidates(db, team)
           exact == {c \in DOMAIN db.clubs : db.clubs[c] = TeamName[team]}
           alike == {c \in DOMAIN db.clubs : SpellingOf(db, c) = IdentityOf(team)}
<1>1. /\ exact # {} => found = exact
      /\ exact = {} => found = alike
      /\ exact \subseteq alike /\ found \subseteq alike
  BY DEF ClubCandidates, SpellingOf, IdentityOf
<1>2. IsFiniteSet(found)
  <2>1. found \in SUBSET DOMAIN db.clubs
    BY <1>1
  <2> QED BY <2>1, Positions DEF Typed
<1>3. CASE ClubOf(db, team) # 0
  <2>1. new = db
    BY <1>3 DEF ResolveClub
  <2> QED BY <1>3, <2>1 DEF Later, Known
<1>4. CASE ClubOf(db, team) = 0 /\ Cardinality(found) > 1
  <2>1. new = [db EXCEPT !.reviews = @ \cup {<<"club", team>>}]
    BY <1>4 DEF ResolveClub, QueueReview
  <2>2. /\ new.clubs = db.clubs /\ new.clubRefs = db.clubRefs /\ new.matches = db.matches
        /\ new.refs = db.refs /\ new.reviews = db.reviews \cup {<<"club", team>>}
        /\ new = [clubs |-> new.clubs, clubRefs |-> new.clubRefs, matches |-> new.matches,
                  refs |-> new.refs, reviews |-> new.reviews]
    BY <2>1 DEF Typed
  <2>3. PICK c \in found, d \in found : c # d
    BY <1>2, <1>4, Members
  <2>4. /\ c \in DOMAIN db.clubs /\ d \in DOMAIN db.clubs
        /\ Namesakes(db, c, d) /\ SpellingOf(db, c) = IdentityOf(team)
    BY <1>1, <2>3 DEF Namesakes
  <2>5. \A x, y : SpellingOf(new, x) = SpellingOf(db, x) /\ (Namesakes(new, x, y) <=> Namesakes(db, x, y))
    BY <2>2 DEF SpellingOf, Namesakes
  <2>6. ASSUME NEW t \in Teams, <<"club", t>> \in new.reviews
        PROVE  \E x, y \in DOMAIN db.clubs :
                 Namesakes(db, x, y) /\ SpellingOf(db, x) = IdentityOf(t)
    <3>1. CASE <<"club", t>> \in db.reviews
      BY <3>1 DEF ClubsHold
    <3>2. CASE <<"club", t>> \notin db.reviews
      <4>1. t = team
        BY <2>2, <2>6, <3>2
      <4> QED BY <2>4, <4>1
    <3> QED BY <3>1, <3>2
  <2>7. ClubsHold(new)
    <3>1. \A x \in new.clubRefs :
            x.club \in DOMAIN new.clubs /\ SpellingOf(new, x.club) = IdentityOf(x.id)
      BY <2>2, <2>5 DEF ClubsHold
    <3>2. \A x, y \in DOMAIN new.clubs : Namesakes(new, x, y) =>
            /\ \A t \in Teams : TeamName[t] # new.clubs[x]
            /\ \A ref \in new.clubRefs : ref.club # x
      BY <2>2, <2>5 DEF ClubsHold
    <3>3. \A t \in Teams : <<"club", t>> \in new.reviews =>
            \E x, y \in DOMAIN new.clubs :
              Namesakes(new, x, y) /\ SpellingOf(new, x) = IdentityOf(t)
      BY <2>2, <2>5, <2>6
    <3> QED BY <3>1, <3>2, <3>3 DEF ClubsHold
  <2>8. Typed(new) /\ Later(db, new) /\ Known(new, team)
    BY <2>2 DEF Typed, Later, Known
  <2> QED BY <2>2, <2>7, <2>8
<1>5. CASE ClubOf(db, team) = 0 /\ ~(Cardinality(found) > 1) /\ found # {}
  <2>1. PICK c \in found : c = CHOOSE x \in found : TRUE
    BY <1>5
  <2>2. new = [db EXCEPT !.clubRefs = @ \cup {[id |-> team, club |-> c]}]
    BY <1>5, <2>1 DEF ResolveClub
  <2>3. c \in DOMAIN db.clubs /\ SpellingOf(db, c) = IdentityOf(team)
    BY <1>1
  <2>4. ASSUME NEW d \in DOMAIN db.clubs PROVE ~Namesakes(db, c, d) /\ ~Namesakes(db, d, c)
    <3>1. CASE exact # {}
      <4>1. TeamName[team] = db.clubs[c]
        BY <1>1, <3>1
      <4>2. ~Namesakes(db, c, d)
        BY <2>3, <4>1 DEF ClubsHold
      <4> QED BY <4>2 DEF Namesakes
    <3>2. CASE exact = {}
      <4>1. \A x, y \in found : x = y
        BY <1>2, <1>5, Members
      <4>2. d \in found => d = c
        BY <4>1
      <4> HIDE DEF found
      <4>3. SpellingOf(db, d) = IdentityOf(team) => d \in found
        BY <1>1, <3>2
      <4> QED BY <2>3, <4>2, <4>3 DEF Namesakes
    <3> QED BY <3>1, <3>2
  <2> HIDE DEF found
  <2> QED BY <2>2, <2>3, <2>4, ClubReferred
<1>6. CASE ClubOf(db, team) = 0 /\ ~(Cardinality(found) > 1) /\ found = {}
  <2> DEFINE added == [db EXCEPT !.clubs = Append(@, TeamName[team])]
             last == Len(db.clubs) + 1
  <2>1. new = [added EXCEPT !.clubRefs = @ \cup {[id |-> team, club |-> last]}]
    BY <1>6 DEF ResolveClub
  <2>2. \A c \in DOMAIN db.clubs : SpellingOf(db, c) # IdentityOf(team)
    BY <1>1, <1>6
  <2>3. PICK d : d = added
    OBVIOUS
  <2>4. /\ Typed(d) /\ ClubsHold(d) /\ Later(db, d)
        /\ d.matches = db.matches /\ d.refs = db.refs
        /\ last \in DOMAIN d.clubs /\ SpellingOf(d, last) = IdentityOf(team)
        /\ \A c \in DOMAIN d.clubs : ~Namesakes(d, last, c) /\ ~Namesakes(d, c, last)
    BY <2>2, <2>3, ClubAdded
  <2> HIDE DEF added, last
  <2>5. /\ Typed(new) /\ ClubsHold(new) /\ Later(d, new) /\ Known(new, team)
        /\ new.matches = d.matches /\ new.refs = d.refs
    BY <2>1, <2>3, <2>4, ClubReferred
  <2>6. Later(db, new)
    BY <2>4, <2>5 DEF Later
  <2> QED BY <2>4, <2>5, <2>6
<1> QED BY <1>3, <1>4, <1>5, <1>6

\* The clubs of a match are known and keep their names.
LEMMA FixtureStays ==
    ASSUME NEW seen, NEW db, Consistent(seen, db), NEW new, Later(db, new),
           NEW m \in DOMAIN db.matches
    PROVE  /\ db.matches[m].home \in DOMAIN db.clubs /\ db.matches[m].away \in DOMAIN db.clubs
           /\ SpellingOf(new, db.matches[m].home) = SpellingOf(db, db.matches[m].home)
           /\ SpellingOf(new, db.matches[m].away) = SpellingOf(db, db.matches[m].away)
<1>1. PICK h \in db.clubRefs, a \in db.clubRefs :
        h.club = db.matches[m].home /\ a.club = db.matches[m].away
  <2>1. /\ \E ref \in db.clubRefs : ref.club = db.matches[m].home
        /\ \E ref \in db.clubRefs : ref.club = db.matches[m].away
    BY DEF Consistent, MatchesHold
  <2> QED BY <2>1
<1>2. h.club \in DOMAIN db.clubs /\ a.club \in DOMAIN db.clubs
  BY DEF Consistent, ClubsHold
<1>3. new.clubs[h.club] = db.clubs[h.club] /\ new.clubs[a.club] = db.clubs[a.club]
  BY <1>2 DEF Later
<1> QED BY <1>1, <1>2, <1>3 DEF SpellingOf

\* Clubs that are added or referred to disturb no match.
LEMMA MatchesSurvive ==
    ASSUME NEW seen, NEW db, Consistent(seen, db), NEW new, Later(db, new),
           Typed(new), ClubsHold(new), new.matches = db.matches, new.refs = db.refs
    PROVE  Consistent(seen, new)
<1>1. \A m \in DOMAIN db.matches : FixtureOf(new, m) = FixtureOf(db, m)
  BY FixtureStays DEF FixtureOf
<1>2. ASSUME NEW m \in DOMAIN new.matches
      PROVE  /\ \E ref \in new.clubRefs : ref.club = new.matches[m].home
             /\ \E ref \in new.clubRefs : ref.club = new.matches[m].away
  <2>1. /\ \E ref \in db.clubRefs : ref.club = db.matches[m].home
        /\ \E ref \in db.clubRefs : ref.club = db.matches[m].away
    BY DEF Consistent, MatchesHold
  <2> QED BY <2>1 DEF Later
<1>3. ASSUME NEW m \in DOMAIN new.matches
      PROVE  \E s \in seen, ref \in new.refs :
               /\ Fixture(s) = FixtureOf(new, m) /\ s.date = new.matches[m].kickoff
               /\ ref.id = s.id /\ ref.match = m
  BY <1>1 DEF Consistent, MatchesHold
<1>4. ASSUME NEW ref \in new.refs
      PROVE  /\ ref.match \in DOMAIN new.matches
             /\ \E s \in seen : s.id = ref.id /\ Fixture(s) = FixtureOf(new, ref.match)
  BY <1>1 DEF Consistent, MatchesHold
<1>5. \A x, y \in new.refs : x.id = y.id => x = y
  BY DEF Consistent, MatchesHold
<1>6. \A m, n \in DOMAIN new.matches :
        FixtureOf(new, m) = FixtureOf(new, n) /\ Near(seen, FixtureOf(new, m)) => m = n
  BY <1>1 DEF Consistent, MatchesHold
<1> QED BY <1>2, <1>3, <1>4, <1>5, <1>6 DEF Consistent, MatchesHold

\* Both clubs of a row.
LEMMA RowResolved ==
    ASSUME NEW seen, NEW db, Consistent(seen, db), RowsSeen(seen), NEW row \in seen,
           NEW new, new = ResolveClub(ResolveClub(db, row.home), row.away)
    PROVE  /\ Consistent(seen, new) /\ Later(db, new)
           /\ Known(new, row.home) /\ Known(new, row.away)
           /\ new.matches = db.matches /\ new.refs = db.refs
<1>1. row.home \in Teams /\ row.away \in Teams
  BY DEF RowsSeen, ProviderRow, Teams
<1>2. PICK d : d = ResolveClub(db, row.home)
  OBVIOUS
<1>3. /\ Typed(d) /\ ClubsHold(d) /\ Later(db, d) /\ Known(d, row.home)
      /\ d.matches = db.matches /\ d.refs = db.refs
  BY <1>1, <1>2, ClubResolved DEF Consistent
<1>4. /\ Typed(new) /\ ClubsHold(new) /\ Later(d, new) /\ Known(new, row.away)
      /\ new.matches = d.matches /\ new.refs = d.refs
  BY <1>1, <1>2, <1>3, ClubResolved
<1>5. Known(new, row.home)
  BY <1>1, <1>3, <1>4, ClubStays
<1>6. Later(db, new)
  BY <1>3, <1>4 DEF Later
<1>7. Consistent(seen, new)
  BY <1>3, <1>4, <1>6, MatchesSurvive
<1> QED BY <1>3, <1>4, <1>5, <1>6, <1>7

\* The matches of a fixture are those of the clubs of its rows.
LEMMA RowsMatch ==
    ASSUME NEW seen, NEW db, Consistent(seen, db), RowsSeen(seen), NEW row \in seen,
           NEW m \in DOMAIN db.matches, ClubOf(db, row.home) # 0, ClubOf(db, row.away) # 0
    PROVE  FixtureOf(db, m) = Fixture(row) <=>
             /\ db.matches[m].home = ClubOf(db, row.home)
             /\ db.matches[m].away = ClubOf(db, row.away)
<1>1. row.home \in Teams /\ row.away \in Teams
  BY DEF RowsSeen, ProviderRow, Teams
<1>2. PICK h, a : h = ClubOf(db, row.home) /\ a = ClubOf(db, row.away)
  OBVIOUS
<1>3. /\ h \in DOMAIN db.clubs /\ SpellingOf(db, h) = IdentityOf(row.home)
      /\ a \in DOMAIN db.clubs /\ SpellingOf(db, a) = IdentityOf(row.away)
  BY <1>1, <1>2, ClubFound DEF Consistent
<1>4. PICK x \in db.clubRefs, y \in db.clubRefs :
        x.club = db.matches[m].home /\ y.club = db.matches[m].away
  <2>1. /\ \E ref \in db.clubRefs : ref.club = db.matches[m].home
        /\ \E ref \in db.clubRefs : ref.club = db.matches[m].away
    BY DEF Consistent, MatchesHold
  <2> QED BY <2>1
<1>5. /\ SpellingOf(db, x.club) = SpellingOf(db, h) => x.club = h
      /\ SpellingOf(db, y.club) = SpellingOf(db, a) => y.club = a
  BY <1>3, OneClub DEF Consistent
<1> QED BY <1>2, <1>3, <1>4, <1>5 DEF FixtureOf, Fixture

\* What a row may change: its own fixture, and its own identifier.
Touches(db, new, row) ==
    /\ Later(db, new)
    /\ db.refs \subseteq new.refs
    /\ \A ref \in new.refs : ref \in db.refs \/ ref.id = row.id
    /\ \A m \in DOMAIN db.matches :
         /\ m \in DOMAIN new.matches
         /\ new.matches[m].home = db.matches[m].home
         /\ new.matches[m].away = db.matches[m].away
    /\ \A m \in DOMAIN new.matches :
         FixtureOf(new, m) # Fixture(row) =>
           m \in DOMAIN db.matches /\ new.matches[m] = db.matches[m]

\* Matches and their reviews disturb no club.
LEMMA SameClubs ==
    ASSUME NEW db, ClubsHold(db), NEW new, new.clubs = db.clubs, new.clubRefs = db.clubRefs,
           \A team \in Teams : <<"club", team>> \in new.reviews => <<"club", team>> \in db.reviews
    PROVE  /\ ClubsHold(new)
           /\ \A c : SpellingOf(new, c) = SpellingOf(db, c)
<1>1. \A c, d : SpellingOf(new, c) = SpellingOf(db, c) /\ (Namesakes(new, c, d) <=> Namesakes(db, c, d))
  BY DEF SpellingOf, Namesakes
<1>2. \A x \in new.clubRefs :
        x.club \in DOMAIN new.clubs /\ SpellingOf(new, x.club) = IdentityOf(x.id)
  BY <1>1 DEF ClubsHold
<1>3. \A x, y \in DOMAIN new.clubs : Namesakes(new, x, y) =>
        /\ \A t \in Teams : TeamName[t] # new.clubs[x]
        /\ \A r \in new.clubRefs : r.club # x
  BY <1>1 DEF ClubsHold
<1>4. \A t \in Teams : <<"club", t>> \in new.reviews =>
        \E x, y \in DOMAIN new.clubs :
          Namesakes(new, x, y) /\ SpellingOf(new, x) = IdentityOf(t)
  BY <1>1 DEF ClubsHold
<1> QED BY <1>1, <1>2, <1>3, <1>4 DEF ClubsHold

\* A match that was known under another identifier.
LEMMA MatchReferred ==
    ASSUME NEW seen, NEW db, Consistent(seen, db), RowsSeen(seen), NEW row \in seen,
           NEW m \in DOMAIN db.matches, FixtureOf(db, m) = Fixture(row),
           \A ref \in db.refs : ref.id # row.id,
           NEW new, new = ReferMatch(db, row, m)
    PROVE  /\ Consistent(seen, new) /\ Touches(db, new, row)
           /\ \E ref \in new.refs : ref.id = row.id
<1>1. /\ new.clubs = db.clubs /\ new.clubRefs = db.clubRefs /\ new.matches = db.matches
      /\ new.refs = db.refs \cup {[id |-> row.id, match |-> m]} /\ new.reviews = db.reviews
      /\ new = [clubs |-> new.clubs, clubRefs |-> new.clubRefs, matches |-> new.matches,
                refs |-> new.refs, reviews |-> new.reviews]
  BY DEF Consistent, Typed, ReferMatch
<1>2. PICK ref : ref = [id |-> row.id, match |-> m]
  OBVIOUS
<1>3. ref.id = row.id /\ ref.match = m /\ new.refs = db.refs \cup {ref}
  BY <1>1, <1>2
<1>4. ref \in MatchReference
  <2>1. m \in Nat \ {0}
    BY Positions DEF Consistent, Typed
  <2>2. row.id \in Int
    BY DEF RowsSeen, ProviderRow
  <2> QED BY <1>2, <2>1, <2>2 DEF MatchReference
<1>5. Typed(new)
  BY <1>1, <1>3, <1>4 DEF Consistent, Typed
<1>6. ClubsHold(new) /\ \A c : SpellingOf(new, c) = SpellingOf(db, c)
  BY <1>1, SameClubs DEF Consistent
<1>7. \A n : FixtureOf(new, n) = FixtureOf(db, n)
  BY <1>1, <1>6 DEF FixtureOf
<1>8. MatchesHold(seen, new)
  <2>1. ASSUME NEW n \in DOMAIN new.matches
        PROVE  /\ \E x \in new.clubRefs : x.club = new.matches[n].home
               /\ \E x \in new.clubRefs : x.club = new.matches[n].away
    BY <1>1 DEF Consistent, MatchesHold
  <2>2. ASSUME NEW n \in DOMAIN new.matches
        PROVE  \E s \in seen, x \in new.refs :
                 /\ Fixture(s) = FixtureOf(new, n) /\ s.date = new.matches[n].kickoff
                 /\ x.id = s.id /\ x.match = n
    BY <1>1, <1>3, <1>7 DEF Consistent, MatchesHold
  <2>3. ASSUME NEW x \in new.refs
        PROVE  /\ x.match \in DOMAIN new.matches
               /\ \E s \in seen : s.id = x.id /\ Fixture(s) = FixtureOf(new, x.match)
    <3>1. CASE x \in db.refs
      BY <1>1, <1>7, <3>1 DEF Consistent, MatchesHold
    <3>2. CASE x = ref
      BY <1>1, <1>3, <1>7, <3>2
    <3> QED BY <1>3, <3>1, <3>2
  <2>4. ASSUME NEW x \in new.refs, NEW y \in new.refs, x.id = y.id PROVE x = y
    <3>1. CASE x \in db.refs /\ y \in db.refs
      BY <2>4, <3>1 DEF Consistent, MatchesHold
    <3>2. CASE ~(x \in db.refs /\ y \in db.refs)
      BY <1>3, <2>4, <3>2
    <3> QED BY <3>1, <3>2
  <2>5. \A n, k \in DOMAIN new.matches :
          FixtureOf(new, n) = FixtureOf(new, k) /\ Near(seen, FixtureOf(new, n)) => n = k
    BY <1>1, <1>7 DEF Consistent, MatchesHold
  <2> QED BY <2>1, <2>2, <2>3, <2>4, <2>5 DEF MatchesHold
<1>9. Touches(db, new, row)
  <2>1. Later(db, new)
    BY <1>1 DEF Later
  <2>2. db.refs \subseteq new.refs /\ \A x \in new.refs : x \in db.refs \/ x.id = row.id
    BY <1>3
  <2> QED BY <1>1, <2>1, <2>2 DEF Touches
<1> QED BY <1>3, <1>5, <1>6, <1>8, <1>9 DEF Consistent

\* The tables with other matches and references to them.
WithMatches(db, matches, refs) == [db EXCEPT !.matches = matches, !.refs = refs]

LEMMA MatchesReplaced ==
    ASSUME NEW db, Typed(db), NEW matches \in Seq(StoredMatch), NEW refs \in SUBSET MatchReference,
           NEW new, new = WithMatches(db, matches, refs)
    PROVE  /\ new.clubs = db.clubs /\ new.clubRefs = db.clubRefs /\ new.matches = matches
           /\ new.refs = refs /\ new.reviews = db.reviews
           /\ Typed(new)
BY DEF Typed, WithMatches

\* One more match, as the row has it, for a row that none was found for.
Adds(db, row, last, ref, new) ==
    /\ ClubOf(db, row.home) # 0 /\ ClubOf(db, row.away) # 0
    /\ MatchCandidates(db, row) = {} /\ \A x \in db.refs : x.id # row.id
    /\ new.clubs = db.clubs /\ new.clubRefs = db.clubRefs /\ new.reviews = db.reviews
    /\ DOMAIN new.matches = DOMAIN db.matches \cup {last} /\ last \notin DOMAIN db.matches
    /\ \A m \in DOMAIN db.matches : new.matches[m] = db.matches[m]
    /\ new.matches[last].home = ClubOf(db, row.home)
    /\ new.matches[last].away = ClubOf(db, row.away)
    /\ new.matches[last].kickoff = row.date
    /\ new.refs = db.refs \cup {ref} /\ ref.id = row.id /\ ref.match = last
    /\ Typed(new)

LEMMA MatchAdded ==
    ASSUME NEW seen, NEW db, Consistent(seen, db), RowsSeen(seen), NEW row \in seen,
           NEW last, NEW ref, NEW new, Adds(db, row, last, ref, new)
    PROVE  /\ Consistent(seen, new) /\ Touches(db, new, row)
           /\ \E x \in new.refs : x.id = row.id
<1>1. /\ row.id \in Int /\ row.date \in Int /\ row.status \in STRING
      /\ row.home \in Teams /\ row.away \in Teams
  BY DEF RowsSeen, ProviderRow, Teams
<1>2. /\ ClubOf(db, row.home) # 0 /\ ClubOf(db, row.away) # 0
      /\ MatchCandidates(db, row) = {} /\ \A x \in db.refs : x.id # row.id
  BY DEF Adds
<1>3. PICK h \in db.clubRefs, a \in db.clubRefs :
        h.club = ClubOf(db, row.home) /\ a.club = ClubOf(db, row.away)
  <2>1. /\ \E x \in db.clubRefs : x.club = ClubOf(db, row.home)
        /\ \E x \in db.clubRefs : x.club = ClubOf(db, row.away)
    BY <1>2, <1>1, ClubFound DEF Consistent
  <2> QED BY <2>1
<1>4. ref.id = row.id /\ ref.match = last
  BY DEF Adds
<1>5. /\ new.clubs = db.clubs /\ new.clubRefs = db.clubRefs /\ new.reviews = db.reviews
      /\ new.refs = db.refs \cup {ref} /\ Typed(new)
  BY DEF Adds
<1>6. /\ DOMAIN new.matches = DOMAIN db.matches \cup {last} /\ last \notin DOMAIN db.matches
      /\ \A m \in DOMAIN db.matches : new.matches[m] = db.matches[m]
  BY DEF Adds
<1>7. /\ new.matches[last].home = h.club /\ new.matches[last].away = a.club
      /\ new.matches[last].kickoff = row.date
  BY <1>3 DEF Adds
<1>8. ClubsHold(new) /\ \A c : SpellingOf(new, c) = SpellingOf(db, c)
  BY <1>5, SameClubs DEF Consistent
<1>9. /\ \A m \in DOMAIN db.matches : FixtureOf(new, m) = FixtureOf(db, m)
      /\ FixtureOf(new, last) = Fixture(row)
  <2>1. /\ SpellingOf(db, h.club) = IdentityOf(row.home)
        /\ SpellingOf(db, a.club) = IdentityOf(row.away)
    BY <1>2, <1>1, <1>3, ClubFound DEF Consistent
  <2>4. FixtureOf(new, last) = Fixture(row)
    BY <1>7, <1>8, <2>1 DEF FixtureOf, Fixture
  <2>3. \A m \in DOMAIN db.matches : FixtureOf(new, m) = FixtureOf(db, m)
    BY <1>6, <1>8 DEF FixtureOf
  <2> QED BY <2>3, <2>4
<1>10. ASSUME NEW m \in DOMAIN db.matches, FixtureOf(db, m) = Fixture(row),
              Near(seen, Fixture(row))
       PROVE  FALSE
  <2>1. PICK s \in seen, x \in db.refs :
          /\ Fixture(s) = FixtureOf(db, m) /\ s.date = db.matches[m].kickoff
          /\ x.id = s.id
    BY DEF Consistent, MatchesHold
  <2>7. s.id # row.id
    BY <1>2, <2>1
  <2>2. Within(s.date, row.date, Tolerance)
    BY <1>10, <2>1, <2>7 DEF Near
  <2>3. s.date \in Int /\ Tolerance \in Int
    BY IdentityAssumption DEF RowsSeen, ProviderRow
  <2>4. Within(row.date, db.matches[m].kickoff, Tolerance)
    BY <1>1, <2>1, <2>2, <2>3 DEF Within
  <2>5. /\ db.matches[m].home = ClubOf(db, row.home)
        /\ db.matches[m].away = ClubOf(db, row.away)
    BY <1>2, <1>10, RowsMatch
  <2>6. m \in MatchCandidates(db, row)
    BY <2>4, <2>5 DEF MatchCandidates
  <2> QED BY <1>2, <2>6
<1>11. MatchesHold(seen, new)
  <2>1. ASSUME NEW n \in DOMAIN new.matches
        PROVE  /\ \E x \in new.clubRefs : x.club = new.matches[n].home
               /\ \E x \in new.clubRefs : x.club = new.matches[n].away
    <3>1. CASE n \in DOMAIN db.matches
      <4>1. /\ \E x \in db.clubRefs : x.club = db.matches[n].home
            /\ \E x \in db.clubRefs : x.club = db.matches[n].away
        BY <3>1 DEF Consistent, MatchesHold
      <4> QED BY <1>5, <1>6, <3>1, <4>1
    <3>2. CASE n = last
      BY <1>5, <1>7, <1>6, <3>2
    <3> QED BY <1>6, <3>1, <3>2
  <2>2. ASSUME NEW n \in DOMAIN new.matches
        PROVE  \E s \in seen, x \in new.refs :
                 /\ Fixture(s) = FixtureOf(new, n) /\ s.date = new.matches[n].kickoff
                 /\ x.id = s.id /\ x.match = n
    <3>1. CASE n \in DOMAIN db.matches
      <4>1. PICK s \in seen, x \in db.refs :
              /\ Fixture(s) = FixtureOf(db, n) /\ s.date = db.matches[n].kickoff
              /\ x.id = s.id /\ x.match = n
        BY <3>1 DEF Consistent, MatchesHold
      <4> QED BY <1>5, <1>6, <1>9, <3>1, <4>1
    <3>2. CASE n = last
      <4>1. ref \in new.refs
        BY <1>5
      <4>2. Fixture(row) = FixtureOf(new, n)
        BY <1>9, <3>2, Zenon
      <4>3. row.date = new.matches[n].kickoff /\ ref.id = row.id /\ ref.match = n
        BY <1>7, <1>4, <3>2
      <4> QED BY <4>1, <4>2, <4>3
    <3> QED BY <1>6, <3>1, <3>2
  <2>3. ASSUME NEW x \in new.refs
        PROVE  /\ x.match \in DOMAIN new.matches
               /\ \E s \in seen : s.id = x.id /\ Fixture(s) = FixtureOf(new, x.match)
    <3>1. CASE x \in db.refs
      <4>1. /\ x.match \in DOMAIN db.matches
            /\ \E s \in seen : s.id = x.id /\ Fixture(s) = FixtureOf(db, x.match)
        BY <3>1 DEF Consistent, MatchesHold
      <4> QED BY <1>6, <1>9, <4>1
    <3>2. CASE x = ref
      <4>1. x.id = row.id /\ x.match = last
        BY <1>4, <3>2
      <4>2. last \in DOMAIN new.matches
        BY <1>6
      <4>3. Fixture(row) = FixtureOf(new, x.match)
        BY <1>9, <4>1, Zenon
      <4> QED BY <4>1, <4>2, <4>3
    <3> QED BY <1>5, <3>1, <3>2
  <2>4. ASSUME NEW x \in new.refs, NEW y \in new.refs, x.id = y.id PROVE x = y
    <3>1. CASE x \in db.refs /\ y \in db.refs
      BY <2>4, <3>1 DEF Consistent, MatchesHold
    <3>2. CASE ~(x \in db.refs /\ y \in db.refs)
      BY <1>2, <1>4, <1>5, <2>4, <3>2
    <3> QED BY <3>1, <3>2
  <2>5. \A m, n \in DOMAIN new.matches :
          FixtureOf(new, m) = FixtureOf(new, n) /\ Near(seen, FixtureOf(new, m)) => m = n
    <3> SUFFICES ASSUME NEW m \in DOMAIN new.matches, NEW n \in DOMAIN new.matches,
                        FixtureOf(new, m) = FixtureOf(new, n), Near(seen, FixtureOf(new, m))
                 PROVE  m = n
      OBVIOUS
    <3>1. CASE m \in DOMAIN db.matches /\ n \in DOMAIN db.matches
      <4>1. FixtureOf(db, m) = FixtureOf(db, n) /\ Near(seen, FixtureOf(db, m))
        BY <1>9, <3>1
      <4> QED BY <3>1, <4>1 DEF Consistent, MatchesHold
    <3>2. CASE m = last \/ n = last
      <4>1. FixtureOf(new, m) = Fixture(row) /\ FixtureOf(new, n) = Fixture(row)
        <5>1. CASE m = last
          BY <1>9, <5>1, Zenon
        <5>2. CASE n = last
          BY <1>9, <5>2, Zenon
        <5> QED BY <3>2, <5>1, <5>2
      <4>2. ASSUME NEW k \in DOMAIN db.matches, FixtureOf(new, k) = Fixture(row) PROVE FALSE
        <5>1. FixtureOf(db, k) = Fixture(row)
          BY <1>9, <4>2
        <5> QED BY <1>10, <4>1, <5>1
      <4> QED BY <1>6, <4>1, <4>2
    <3> QED BY <1>6, <3>1, <3>2
  <2>7. \A x, y \in new.refs : x.id = y.id => x = y
    BY <2>4, Zenon
  <2> QED BY <2>1, <2>2, <2>3, <2>5, <2>7, Zenon DEF MatchesHold
<1>12. Touches(db, new, row)
  <2>1. Later(db, new)
    BY <1>5 DEF Later
  <2>2. db.refs \subseteq new.refs /\ \A x \in new.refs : x \in db.refs \/ x.id = row.id
    BY <1>5, <1>4
  <2>3. ASSUME NEW m \in DOMAIN db.matches
        PROVE  /\ m \in DOMAIN new.matches
               /\ new.matches[m].home = db.matches[m].home
               /\ new.matches[m].away = db.matches[m].away
    BY <1>6
  <2>4. ASSUME NEW m \in DOMAIN new.matches, FixtureOf(new, m) # Fixture(row)
        PROVE  m \in DOMAIN db.matches /\ new.matches[m] = db.matches[m]
    <3>1. m # last
      BY <1>9, <2>4, Zenon
    <3> QED BY <1>6, <3>1
  <2> QED BY <2>1, <2>2, <2>3, <2>4, Zenon DEF Touches
<1>13. ref \in new.refs /\ ref.id = row.id
  BY <1>5, <1>4
<1> QED BY <1>5, <1>8, <1>11, <1>12, <1>13 DEF Consistent

LEMMA MatchCreated ==
    ASSUME NEW seen, NEW db, Consistent(seen, db), RowsSeen(seen), NEW row \in seen,
           ClubOf(db, row.home) # 0, ClubOf(db, row.away) # 0,
           MatchCandidates(db, row) = {}, \A x \in db.refs : x.id # row.id,
           NEW new, new = MatchByIdentity(db, row)
    PROVE  /\ Consistent(seen, new) /\ Touches(db, new, row)
           /\ \E x \in new.refs : x.id = row.id
<1> DEFINE match == [home |-> ClubOf(db, row.home), away |-> ClubOf(db, row.away),
                     kickoff |-> row.date, status |-> row.status, revisions |-> 1]
           last == Len(db.matches) + 1
           ref == [id |-> row.id, match |-> last]
           matches == Append(db.matches, match)
<1>1. new = WithMatches(db, matches, db.refs \cup {ref})
  <2>1. ~(Cardinality(MatchCandidates(db, row)) > 1)
    BY FS_EmptySet
  <2>2. new = ReferMatch([db EXCEPT !.matches = Append(@, match)], row, last)
    BY <2>1 DEF MatchByIdentity
  <2> HIDE DEF match
  <2> QED BY <2>2 DEF ReferMatch, WithMatches, Consistent, Typed
<1>2. match \in StoredMatch
  <2>1. /\ row.date \in Int /\ row.status \in STRING
        /\ row.home \in Teams /\ row.away \in Teams
    BY DEF RowsSeen, ProviderRow, Teams
  <2>2. ClubOf(db, row.home) \in DOMAIN db.clubs /\ ClubOf(db, row.away) \in DOMAIN db.clubs
    BY <2>1, ClubFound DEF Consistent
  <2>3. ClubOf(db, row.home) \in Nat \ {0} /\ ClubOf(db, row.away) \in Nat \ {0}
    BY <2>2, Positions DEF Consistent, Typed
  <2> QED BY <2>1, <2>3 DEF StoredMatch
<1>3. /\ match.home = ClubOf(db, row.home) /\ match.away = ClubOf(db, row.away)
      /\ match.kickoff = row.date
  OBVIOUS
<1> HIDE DEF match
<1>4. /\ matches \in Seq(StoredMatch) /\ DOMAIN matches = DOMAIN db.matches \cup {last}
      /\ \A m \in DOMAIN db.matches : matches[m] = db.matches[m]
      /\ matches[last] = match /\ last \in Nat \ {0} /\ last \notin DOMAIN db.matches
  BY <1>2, Appended DEF Consistent, Typed
<1> HIDE DEF matches, last
<1>5. ref.id = row.id /\ ref.match = last /\ ref \in MatchReference
  BY <1>4 DEF MatchReference, RowsSeen, ProviderRow
<1> HIDE DEF ref
<1>6. /\ new.clubs = db.clubs /\ new.clubRefs = db.clubRefs /\ new.matches = matches
      /\ new.refs = db.refs \cup {ref} /\ new.reviews = db.reviews /\ Typed(new)
  <2>1. db.refs \cup {ref} \in SUBSET MatchReference
    BY <1>5 DEF Consistent, Typed
  <2> QED BY <1>1, <1>4, <2>1, MatchesReplaced DEF Consistent
<1>7. Adds(db, row, last, ref, new)
  BY <1>3, <1>4, <1>5, <1>6 DEF Adds
<1> QED BY <1>7, MatchAdded

\* The match as the row has it.
AsRow(match, row) ==
    /\ row.status = match.status
    /\ row.status \in {"postponed", "cancelled"} \/ row.date = match.kickoff

LEMMA Updated ==
    ASSUME NEW match \in StoredMatch, NEW row, row.date \in Int, row.status \in STRING,
           NEW new, new = UpdateMatch(match, row)
    PROVE  /\ new \in StoredMatch /\ new.home = match.home /\ new.away = match.away
           /\ new.kickoff = match.kickoff \/ new.kickoff = row.date
           /\ AsRow(new, row)
           /\ AsRow(match, row) => new = match
<1>1. match.revisions + 1 \in Nat
  BY DEF StoredMatch
<1>2. match.status \in STRING /\ match.kickoff \in Int
  BY DEF StoredMatch
<1>3. CASE AsRow(match, row)
  BY <1>3 DEF AsRow, UpdateMatch
<1>4. CASE ~AsRow(match, row) /\ row.status \in {"postponed", "cancelled"}
  <2>1. new = [match EXCEPT !.status = row.status, !.revisions = @ + 1]
    BY <1>4 DEF AsRow, UpdateMatch
  <2> QED BY <1>1, <1>4, <2>1 DEF AsRow, StoredMatch
<1>5. CASE ~AsRow(match, row) /\ row.status \notin {"postponed", "cancelled"} /\ row.date # match.kickoff
  <2>1. new = [match EXCEPT !.kickoff = row.date, !.status = row.status, !.revisions = @ + 1]
    BY <1>5 DEF AsRow, UpdateMatch
  <2> QED BY <1>1, <1>5, <2>1 DEF AsRow, StoredMatch
<1>6. CASE ~AsRow(match, row) /\ row.status \notin {"postponed", "cancelled"} /\ row.date = match.kickoff
  <2>1. new = [match EXCEPT !.status = row.status]
    BY <1>6 DEF AsRow, UpdateMatch
  <2> QED BY <1>6, <2>1 DEF AsRow, StoredMatch
<1> QED BY <1>3, <1>4, <1>5, <1>6

\* A row of a known identifier.
LEMMA MatchUpdated ==
    ASSUME NEW seen, NEW db, Consistent(seen, db), RowsSeen(seen), NEW row \in seen,
           NEW ref \in db.refs, ref.id = row.id,
           NEW match, match = UpdateMatch(db.matches[ref.match], row),
           NEW new, new = WithMatches(db, [db.matches EXCEPT ![ref.match] = match], db.refs)
    PROVE  /\ Consistent(seen, new) /\ Touches(db, new, row) /\ new.refs = db.refs
           /\ AsRow(new.matches[ref.match], row)
           /\ AsRow(db.matches[ref.match], row) => new = db
<1>1. PICK k, old, matches :
        k = ref.match /\ old = db.matches[k] /\ matches = [db.matches EXCEPT ![k] = match]
  OBVIOUS
<1>2. /\ k \in DOMAIN db.matches /\ FixtureOf(db, k) = Fixture(row)
      /\ db.matches \in Seq(StoredMatch) /\ old \in StoredMatch
  <2>1. k \in DOMAIN db.matches /\ \E s \in seen : s.id = ref.id /\ Fixture(s) = FixtureOf(db, k)
    BY <1>1 DEF Consistent, MatchesHold
  <2>2. FixtureOf(db, k) = Fixture(row)
    BY <2>1 DEF RowsSeen
  <2>3. db.matches \in Seq(StoredMatch)
    BY DEF Consistent, Typed
  <2> QED BY <1>1, <2>1, <2>2, <2>3, Positions
<1>3. /\ match \in StoredMatch /\ match.home = old.home /\ match.away = old.away
      /\ match.kickoff = old.kickoff \/ match.kickoff = row.date
      /\ AsRow(match, row) /\ (AsRow(old, row) => match = old)
  <2>1. row.date \in Int /\ row.status \in STRING
    BY DEF RowsSeen, ProviderRow
  <2> QED BY <1>1, <1>2, <2>1, Updated
<1>4. /\ matches \in Seq(StoredMatch) /\ DOMAIN matches = DOMAIN db.matches
      /\ matches[k] = match /\ \A m \in DOMAIN db.matches : m # k => matches[m] = db.matches[m]
  <2>1. k \in 1..Len(db.matches)
    BY <1>2, LenProperties
  <2>2. matches \in Seq(StoredMatch)
    BY <1>1, <1>2, <1>3, <2>1, ExceptSeq
  <2> QED BY <1>1, <1>2, <2>2
<1>5. /\ new.clubs = db.clubs /\ new.clubRefs = db.clubRefs /\ new.matches = matches
      /\ new.refs = db.refs /\ new.reviews = db.reviews /\ Typed(new)
  <2>1. db.refs \in SUBSET MatchReference /\ Typed(db)
    BY DEF Consistent, Typed
  <2>2. new = WithMatches(db, matches, db.refs)
    BY <1>1
  <2> QED BY <1>4, <2>1, <2>2, MatchesReplaced
<1>6. /\ DOMAIN new.matches = DOMAIN db.matches /\ new.matches[k] = match
      /\ \A m \in DOMAIN db.matches : m # k => new.matches[m] = db.matches[m]
  BY <1>4, <1>5
<1>7. ClubsHold(new) /\ \A c : SpellingOf(new, c) = SpellingOf(db, c)
  BY <1>5, SameClubs DEF Consistent
<1>8. /\ \A m \in DOMAIN db.matches : /\ new.matches[m].home = db.matches[m].home
                                      /\ new.matches[m].away = db.matches[m].away
      /\ \A m \in DOMAIN db.matches : FixtureOf(new, m) = FixtureOf(db, m)
  <2>1. ASSUME NEW m \in DOMAIN db.matches
        PROVE  new.matches[m].home = db.matches[m].home /\ new.matches[m].away = db.matches[m].away
    BY <1>1, <1>3, <1>6
  <2> QED BY <1>7, <2>1 DEF FixtureOf
<1>9. MatchesHold(seen, new)
  <2>1. ASSUME NEW n \in DOMAIN new.matches
        PROVE  /\ \E x \in new.clubRefs : x.club = new.matches[n].home
               /\ \E x \in new.clubRefs : x.club = new.matches[n].away
    <3>1. /\ \E x \in db.clubRefs : x.club = db.matches[n].home
          /\ \E x \in db.clubRefs : x.club = db.matches[n].away
      BY <1>6 DEF Consistent, MatchesHold
    <3> QED BY <1>5, <1>6, <1>8, <3>1
  <2>2. ASSUME NEW n \in DOMAIN new.matches
        PROVE  \E s \in seen, x \in new.refs :
                 /\ Fixture(s) = FixtureOf(new, n) /\ s.date = new.matches[n].kickoff
                 /\ x.id = s.id /\ x.match = n
    <3>1. PICK s \in seen, x \in db.refs :
            /\ Fixture(s) = FixtureOf(db, n) /\ s.date = db.matches[n].kickoff
            /\ x.id = s.id /\ x.match = n
      BY <1>6 DEF Consistent, MatchesHold
    <3>4. n \in DOMAIN db.matches /\ FixtureOf(new, n) = FixtureOf(db, n)
      BY <1>6, <1>8
    <3>2. CASE new.matches[n].kickoff = db.matches[n].kickoff
      <4>1. Fixture(s) = FixtureOf(new, n) /\ s.date = new.matches[n].kickoff /\ x \in new.refs
        BY <1>5, <3>1, <3>2, <3>4
      <4> QED BY <3>1, <4>1, Zenon
    <3>3. CASE n = k /\ match.kickoff = row.date
      <4>1. Fixture(row) = FixtureOf(new, n) /\ row.date = new.matches[n].kickoff
        BY <1>2, <1>6, <3>3, <3>4
      <4>2. ref \in new.refs /\ ref.match = n
        BY <1>1, <1>5, <3>3
      <4> QED BY <4>1, <4>2, Zenon
    <3> QED BY <1>1, <1>3, <1>6, <3>2, <3>3
  <2>3. ASSUME NEW x \in new.refs
        PROVE  /\ x.match \in DOMAIN new.matches
               /\ \E s \in seen : s.id = x.id /\ Fixture(s) = FixtureOf(new, x.match)
    <3>1. /\ x.match \in DOMAIN db.matches
          /\ \E s \in seen : s.id = x.id /\ Fixture(s) = FixtureOf(db, x.match)
      BY <1>5 DEF Consistent, MatchesHold
    <3> QED BY <1>6, <1>8, <3>1
  <2>4. \A x, y \in new.refs : x.id = y.id => x = y
    BY <1>5 DEF Consistent, MatchesHold
  <2>6. \A m, n \in DOMAIN new.matches :
          FixtureOf(new, m) = FixtureOf(new, n) /\ Near(seen, FixtureOf(new, m)) => m = n
    <3> SUFFICES ASSUME NEW m \in DOMAIN new.matches, NEW n \in DOMAIN new.matches,
                        FixtureOf(new, m) = FixtureOf(new, n), Near(seen, FixtureOf(new, m))
                 PROVE  m = n
      OBVIOUS
    <3>1. m \in DOMAIN db.matches /\ n \in DOMAIN db.matches
      BY <1>6
    <3>2. FixtureOf(db, m) = FixtureOf(db, n) /\ Near(seen, FixtureOf(db, m))
      BY <1>8, <3>1
    <3> QED BY <3>1, <3>2 DEF Consistent, MatchesHold
  <2>7. \A x, y \in new.refs : x.id = y.id => x = y
    BY <2>4, Zenon
  <2> QED BY <2>1, <2>2, <2>3, <2>6, <2>7, Zenon DEF MatchesHold
<1>10. Touches(db, new, row)
  <2>1. Later(db, new)
    BY <1>5 DEF Later
  <2>2. \A m \in DOMAIN new.matches : FixtureOf(new, m) # Fixture(row) =>
          m \in DOMAIN db.matches /\ new.matches[m] = db.matches[m]
    BY <1>2, <1>6, <1>8
  <2> QED BY <1>5, <1>6, <1>8, <2>1, <2>2 DEF Touches
<1>11. ASSUME AsRow(db.matches[ref.match], row) PROVE new = db
  <2>1. match = old
    BY <1>1, <1>3, <1>11
  <2>2. new.matches = db.matches
    BY <1>1, <1>2, <1>5, <2>1
  <2> QED BY <1>5, <2>2 DEF Consistent, Typed
<1> QED BY <1>1, <1>3, <1>5, <1>6, <1>7, <1>9, <1>10, <1>11 DEF Consistent

-----------------------------------------------------------------------------
(* The first, the second and the third time that a row is ingested *)

\* A row that has been ingested: its clubs are referred to or under review, and
\* its match is, or is one of several.
Met(db, row) ==
    /\ Known(db, row.home) /\ Known(db, row.away)
    /\ ClubOf(db, row.home) # 0 /\ ClubOf(db, row.away) # 0 =>
         \/ \E ref \in db.refs : ref.id = row.id
         \/ /\ Cardinality(MatchCandidates(db, row)) > 1
            /\ <<"match", row.id>> \in db.reviews

\* And its match is as it says.
Settled(db, row) ==
    /\ Met(db, row)
    /\ \A ref \in db.refs : ref.id = row.id => AsRow(db.matches[ref.match], row)

LEMMA KnownResolved ==
    ASSUME NEW db, Typed(db), ClubsHold(db), NEW team \in Teams, Known(db, team)
    PROVE  ResolveClub(db, team) = db
<1>1. CASE ClubOf(db, team) # 0
  BY <1>1 DEF ResolveClub
<1>2. CASE <<"club", team>> \in db.reviews
  BY <1>2, UnderReview
<1> QED BY <1>1, <1>2 DEF Known

\* Nothing of a fixture is stored while a club is under review.
LEMMA NothingUnderReview ==
    ASSUME NEW seen, NEW db, Consistent(seen, db), RowsSeen(seen), NEW row \in seen,
           NEW team \in {row.home, row.away}, <<"club", team>> \in db.reviews,
           NEW ref \in db.refs
    PROVE  ref.id # row.id
<1> SUFFICES ASSUME ref.id = row.id PROVE FALSE
  OBVIOUS
<1>1. row.home \in Teams /\ row.away \in Teams
  BY DEF RowsSeen, ProviderRow, Teams
<1>2. /\ ref.match \in DOMAIN db.matches
      /\ \E s \in seen : s.id = ref.id /\ Fixture(s) = FixtureOf(db, ref.match)
  BY DEF Consistent, MatchesHold
<1>3. FixtureOf(db, ref.match) = Fixture(row)
  BY <1>2 DEF RowsSeen
<1>4. PICK h \in db.clubRefs, a \in db.clubRefs :
        h.club = db.matches[ref.match].home /\ a.club = db.matches[ref.match].away
  <2>1. /\ \E x \in db.clubRefs : x.club = db.matches[ref.match].home
        /\ \E x \in db.clubRefs : x.club = db.matches[ref.match].away
    BY <1>2 DEF Consistent, MatchesHold
  <2> QED BY <2>1
<1>5. SpellingOf(db, h.club) = IdentityOf(row.home) /\ SpellingOf(db, a.club) = IdentityOf(row.away)
  BY <1>3, <1>4 DEF FixtureOf, Fixture
<1>6. \A x \in db.clubRefs : SpellingOf(db, x.club) # IdentityOf(team)
  BY <1>1, UnderReview DEF Consistent
<1> QED BY <1>5, <1>6

\* A match that is found is one of the row's fixture.
LEMMA ReviewQueued ==
    ASSUME NEW seen, NEW db, Consistent(seen, db), RowsSeen(seen), NEW row \in seen,
           NEW new, new = QueueReview(db, "match", row.id)
    PROVE  /\ Consistent(seen, new) /\ Touches(db, new, row)
           /\ MatchCandidates(new, row) = MatchCandidates(db, row)
           /\ ClubOf(new, row.home) = ClubOf(db, row.home)
           /\ ClubOf(new, row.away) = ClubOf(db, row.away)
           /\ <<"match", row.id>> \in new.reviews
           /\ <<"match", row.id>> \in db.reviews => new = db
<1>1. /\ new.clubs = db.clubs /\ new.clubRefs = db.clubRefs /\ new.matches = db.matches
      /\ new.refs = db.refs /\ new.reviews = db.reviews \cup {<<"match", row.id>>}
      /\ new = [clubs |-> new.clubs, clubRefs |-> new.clubRefs, matches |-> new.matches,
                refs |-> new.refs, reviews |-> new.reviews]
  BY DEF Consistent, Typed, QueueReview
<1>2. Typed(new)
  BY <1>1 DEF Consistent, Typed
<1>3. ClubsHold(new)
  <2>1. \A team \in Teams : <<"club", team>> \in new.reviews => <<"club", team>> \in db.reviews
    BY <1>1
  <2> QED BY <1>1, <2>1, SameClubs DEF Consistent
<1>4. Later(db, new)
  BY <1>1 DEF Later
<1>5. Consistent(seen, new)
  BY <1>1, <1>2, <1>3, <1>4, MatchesSurvive
<1>6. Touches(db, new, row)
  BY <1>1, <1>4 DEF Touches
<1>7. \A team : ClubOf(new, team) = ClubOf(db, team)
  BY <1>1 DEF ClubOf
<1>8. MatchCandidates(new, row) = MatchCandidates(db, row)
  BY <1>1, <1>7 DEF MatchCandidates
<1>9. <<"match", row.id>> \in db.reviews => new = db
  <2> SUFFICES ASSUME <<"match", row.id>> \in db.reviews PROVE new = db
    OBVIOUS
  <2>1. new.reviews = db.reviews
    BY <1>1
  <2> QED BY <1>1, <2>1 DEF Consistent, Typed
<1> QED BY <1>1, <1>5, <1>6, <1>7, <1>8, <1>9

LEMMA CandidatesFinite ==
    ASSUME NEW db, Typed(db), NEW row
    PROVE  MatchCandidates(db, row) \in SUBSET DOMAIN db.matches /\ IsFiniteSet(MatchCandidates(db, row))
<1>1. MatchCandidates(db, row) \in SUBSET DOMAIN db.matches
  BY DEF MatchCandidates
<1> QED BY <1>1, Positions DEF Typed

\* An unknown identifier of known clubs.
LEMMA Identified ==
    ASSUME NEW seen, NEW db, Consistent(seen, db), RowsSeen(seen), NEW row \in seen,
           ClubOf(db, row.home) # 0, ClubOf(db, row.away) # 0,
           \A x \in db.refs : x.id # row.id,
           NEW new, new = MatchByIdentity(db, row)
    PROVE  /\ Consistent(seen, new) /\ Touches(db, new, row)
           /\ \/ \E ref \in new.refs : ref.id = row.id
              \/ Cardinality(MatchCandidates(new, row)) > 1 /\ <<"match", row.id>> \in new.reviews
           /\ Cardinality(MatchCandidates(db, row)) > 1 /\ <<"match", row.id>> \in db.reviews
                => new = db
<1>1. CASE Cardinality(MatchCandidates(db, row)) > 1
  <2>1. new = QueueReview(db, "match", row.id)
    BY <1>1 DEF MatchByIdentity
  <2>2. /\ Consistent(seen, new) /\ Touches(db, new, row)
        /\ MatchCandidates(new, row) = MatchCandidates(db, row)
        /\ <<"match", row.id>> \in new.reviews
        /\ <<"match", row.id>> \in db.reviews => new = db
    BY <2>1, ReviewQueued
  <2> QED BY <1>1, <2>2
<1>2. CASE ~(Cardinality(MatchCandidates(db, row)) > 1) /\ MatchCandidates(db, row) # {}
  <2>1. PICK m \in MatchCandidates(db, row) : m = CHOOSE n \in MatchCandidates(db, row) : TRUE
    BY <1>2
  <2>2. new = ReferMatch(db, row, m)
    BY <1>2, <2>1 DEF MatchByIdentity
  <2>3. /\ m \in DOMAIN db.matches /\ db.matches[m].home = ClubOf(db, row.home)
        /\ db.matches[m].away = ClubOf(db, row.away)
    BY DEF MatchCandidates
  <2>4. FixtureOf(db, m) = Fixture(row)
    BY <2>3, RowsMatch
  <2>5. /\ Consistent(seen, new) /\ Touches(db, new, row)
        /\ \E x \in new.refs : x.id = row.id
    BY <2>2, <2>3, <2>4, MatchReferred
  <2> QED BY <1>2, <2>5
<1>3. CASE MatchCandidates(db, row) = {}
  <2>1. /\ Consistent(seen, new) /\ Touches(db, new, row)
        /\ \E x \in new.refs : x.id = row.id
    BY <1>3, MatchCreated
  <2>2. ~(Cardinality(MatchCandidates(db, row)) > 1)
    BY <1>3, FS_EmptySet
  <2> QED BY <2>1, <2>2
<1> QED BY <1>1, <1>2, <1>3

\* What the resolution of clubs leaves to the row.
LEMMA TouchesAfter ==
    ASSUME NEW db, NEW d, NEW new, NEW row, Later(db, d), Touches(d, new, row),
           d.matches = db.matches, d.refs = db.refs
    PROVE  Touches(db, new, row)
<1>1. Later(db, new)
  BY DEF Touches, Later
<1> QED BY <1>1 DEF Touches

LEMMA TouchesNothing ==
    ASSUME NEW db, NEW new, NEW row, Later(db, new), new.matches = db.matches, new.refs = db.refs
    PROVE  Touches(db, new, row)
  BY DEF Touches

\* A row of a known identifier, as the ingestion finds it.
LEMMA RowUpdated ==
    ASSUME NEW seen, NEW db, Consistent(seen, db), RowsSeen(seen), NEW row \in seen,
           Known(db, row.home), Known(db, row.away),
           NEW ref \in db.refs, ref.id = row.id,
           NEW match, match = UpdateMatch(db.matches[ref.match], row),
           NEW new, new = WithMatches(db, [db.matches EXCEPT ![ref.match] = match], db.refs)
    PROVE  /\ Consistent(seen, new) /\ Touches(db, new, row) /\ Settled(new, row)
           /\ Settled(db, row) => new = db
<1>1. /\ Consistent(seen, new) /\ Touches(db, new, row) /\ new.refs = db.refs
      /\ AsRow(new.matches[ref.match], row)
      /\ AsRow(db.matches[ref.match], row) => new = db
  BY MatchUpdated
<1>2. Known(new, row.home) /\ Known(new, row.away)
  <2>1. row.home \in Teams /\ row.away \in Teams
    BY DEF RowsSeen, ProviderRow, Teams
  <2>2. Later(db, new)
    BY <1>1 DEF Touches
  <2> QED BY <1>1, <2>1, <2>2, ClubStays DEF Consistent
<1>3. \A x \in new.refs : x.id = row.id => x = ref
  <2>1. \A x, y \in db.refs : x.id = y.id => x = y
    BY DEF Consistent, MatchesHold
  <2> QED BY <1>1, <2>1, Zenon
<1>4. Settled(new, row)
  <2>1. \E x \in new.refs : x.id = row.id
    BY <1>1, Zenon
  <2>2. Met(new, row)
    BY <1>2, <2>1, Zenon DEF Met
  <2>3. \A x \in new.refs : x.id = row.id => AsRow(new.matches[x.match], row)
    BY <1>1, <1>3, Zenon
  <2> QED BY <2>2, <2>3, Zenon DEF Settled
<1>5. Settled(db, row) => new = db
  BY <1>1, Zenon DEF Settled
<1> QED BY <1>1, <1>4, <1>5

LEMMA UpdateFound ==
    ASSUME NEW db, Typed(db), NEW row, NEW ref,
           NEW new, new = [db EXCEPT !.matches[ref.match] = UpdateMatch(@, row)]
    PROVE  new = WithMatches(db, [db.matches EXCEPT ![ref.match] =
                                    UpdateMatch(db.matches[ref.match], row)], db.refs)
<1>1. PICK matches : matches = [db.matches EXCEPT ![ref.match] = UpdateMatch(@, row)]
  OBVIOUS
<1>2. new = [db EXCEPT !.matches = matches]
  BY <1>1
<1>3. [db EXCEPT !.matches = matches] = WithMatches(db, matches, db.refs)
  BY DEF WithMatches, Typed
<1> QED BY <1>1, <1>2, <1>3

LEMMA RowIngested ==
    ASSUME NEW seen, NEW db, Consistent(seen, db), RowsSeen(seen), NEW row \in seen,
           NEW new, new = IngestFixture(db, row)
    PROVE  /\ Consistent(seen, new) /\ Touches(db, new, row) /\ Met(new, row)
           /\ Met(db, row) => Settled(new, row)
           /\ Settled(db, row) => new = db
<1> DEFINE d == ResolveClub(ResolveClub(db, row.home), row.away)
           known == {ref \in db.refs : ref.id = row.id}
           m == (CHOOSE ref \in known : TRUE).match
<1>1. row.home \in Teams /\ row.away \in Teams
  BY DEF RowsSeen, ProviderRow, Teams
<1>2. /\ Consistent(seen, d) /\ Later(db, d) /\ Known(d, row.home) /\ Known(d, row.away)
      /\ d.matches = db.matches /\ d.refs = db.refs
  BY RowResolved
<1>3. Met(db, row) => d = db
  <2> SUFFICES ASSUME Met(db, row) PROVE d = db
    OBVIOUS
  <2>1. ResolveClub(db, row.home) = db /\ ResolveClub(db, row.away) = db
    BY <1>1, KnownResolved DEF Met, Consistent
  <2> QED BY <2>1
<1>4. IngestFixture(db, row) =
        IF ClubOf(d, row.home) = 0 \/ ClubOf(d, row.away) = 0 THEN d
        ELSE IF known = {} THEN MatchByIdentity(d, row)
        ELSE [d EXCEPT !.matches[m] = UpdateMatch(@, row)]
  BY Zenon DEF IngestFixture
<1> HIDE DEF d
<1>5. CASE ClubOf(d, row.home) = 0 \/ ClubOf(d, row.away) = 0
  <2>1. new = d
    BY <1>4, <1>5
  <2>2. Met(new, row)
    BY <1>2, <1>5, <2>1 DEF Met
  <2>3. ASSUME NEW ref \in d.refs PROVE ref.id # row.id
    <3>1. <<"club", row.home>> \in d.reviews \/ <<"club", row.away>> \in d.reviews
      BY <1>2, <1>5 DEF Known
    <3> QED BY <1>2, <3>1, NothingUnderReview
  <2>4. Settled(new, row)
    BY <2>1, <2>2, <2>3 DEF Settled
  <2>5. Touches(db, new, row)
    BY <1>2, <2>1, TouchesNothing
  <2>6. Settled(db, row) => new = db
    BY <1>3, <2>1 DEF Settled
  <2> QED BY <1>2, <2>1, <2>2, <2>4, <2>5, <2>6
<1>6. CASE ClubOf(d, row.home) # 0 /\ ClubOf(d, row.away) # 0 /\ known = {}
  <2>1. new = MatchByIdentity(d, row)
    BY <1>4, <1>6
  <2>2. \A x \in d.refs : x.id # row.id
    BY <1>2, <1>6
  <2>3. /\ Consistent(seen, new) /\ Touches(d, new, row)
        /\ \/ \E ref \in new.refs : ref.id = row.id
           \/ Cardinality(MatchCandidates(new, row)) > 1 /\ <<"match", row.id>> \in new.reviews
        /\ Cardinality(MatchCandidates(d, row)) > 1 /\ <<"match", row.id>> \in d.reviews
             => new = d
    BY <1>2, <1>6, <2>1, <2>2, Identified
  <2>4. Known(new, row.home) /\ Known(new, row.away)
    <3>1. Later(d, new)
      BY <2>3 DEF Touches
    <3> QED BY <1>1, <1>2, <2>3, <3>1, ClubStays DEF Consistent
  <2>5. Met(new, row)
    BY <2>3, <2>4 DEF Met
  <2>6. Touches(db, new, row)
    BY <1>2, <2>3, TouchesAfter
  <2>7. ASSUME Met(db, row) PROVE new = db /\ Settled(new, row)
    <3>1. d = db
      BY <1>3, <2>7
    <3>2. Cardinality(MatchCandidates(d, row)) > 1 /\ <<"match", row.id>> \in d.reviews
      BY <1>6, <2>2, <2>7, <3>1 DEF Met
    <3>3. new = d
      BY <2>3, <3>2
    <3> QED BY <2>2, <2>7, <3>1, <3>3 DEF Settled
  <2>8. Settled(db, row) => Met(db, row)
    BY DEF Settled
  <2> QED BY <2>3, <2>5, <2>6, <2>7, <2>8
<1>7. CASE ClubOf(d, row.home) # 0 /\ ClubOf(d, row.away) # 0 /\ known # {}
  <2>1. new = [d EXCEPT !.matches[m] = UpdateMatch(@, row)]
    BY <1>4, <1>7
  <2>2. PICK ref : ref = CHOOSE x \in known : TRUE
    OBVIOUS
  <2>3. ref \in known
    BY <1>7, <2>2
  <2>7. new = [d EXCEPT !.matches[ref.match] = UpdateMatch(@, row)]
    BY <2>1, <2>2
  <2>8. ref \in d.refs /\ ref.id = row.id /\ Typed(d)
    BY <1>2, <2>3 DEF Consistent
  <2> HIDE DEF known, m
  <2>9. PICK match : match = UpdateMatch(d.matches[ref.match], row)
    OBVIOUS
  <2>10. new = WithMatches(d, [d.matches EXCEPT ![ref.match] = match], d.refs)
    BY <2>7, <2>8, <2>9, UpdateFound
  <2>4. /\ Consistent(seen, new) /\ Touches(d, new, row) /\ Settled(new, row)
        /\ Settled(d, row) => new = d
    BY <1>2, <2>8, <2>9, <2>10, RowUpdated
  <2>5. Touches(db, new, row)
    BY <1>2, <2>4, TouchesAfter
  <2>6. Settled(db, row) => new = db
    BY <1>3, <2>4 DEF Settled
  <2> QED BY <2>4, <2>5, <2>6 DEF Settled
<1> QED BY <1>5, <1>6, <1>7

\* A row of another fixture changes nothing for this one.
LEMMA Undisturbed ==
    ASSUME NEW seen, RowsSeen(seen), NEW db, Consistent(seen, db), NEW new, Consistent(seen, new),
           NEW row \in seen, Touches(db, new, row), NEW x \in seen, Fixture(x) # Fixture(row)
    PROVE  /\ Met(db, x) => Met(new, x)
           /\ Settled(db, x) => Settled(new, x)
<1>1. x.home \in Teams /\ x.away \in Teams
  BY DEF RowsSeen, ProviderRow, Teams
<1>2. Later(db, new)
  BY DEF Touches
<1>3. ASSUME Met(db, x) PROVE Met(new, x)
  <2>1. /\ Known(new, x.home) /\ ClubOf(new, x.home) = ClubOf(db, x.home)
        /\ Known(new, x.away) /\ ClubOf(new, x.away) = ClubOf(db, x.away)
    BY <1>1, <1>2, <1>3, ClubStays DEF Met, Consistent
  <2>2. ASSUME ClubOf(new, x.home) # 0, ClubOf(new, x.away) # 0,
               ~\E ref \in new.refs : ref.id = x.id
        PROVE  Cardinality(MatchCandidates(new, x)) > 1 /\ <<"match", x.id>> \in new.reviews
    <3>1. ~\E ref \in db.refs : ref.id = x.id
      BY <2>2 DEF Touches
    <3>2. Cardinality(MatchCandidates(db, x)) > 1 /\ <<"match", x.id>> \in db.reviews
      BY <1>3, <2>1, <2>2, <3>1 DEF Met
    <3>3. ASSUME NEW m \in MatchCandidates(new, x) PROVE m \in MatchCandidates(db, x)
      <4>1. m \in DOMAIN new.matches /\ FixtureOf(new, m) = Fixture(x)
        BY <2>2, RowsMatch DEF MatchCandidates
      <4>2. m \in DOMAIN db.matches /\ new.matches[m] = db.matches[m]
        BY <4>1 DEF Touches
      <4> QED BY <2>1, <4>2 DEF MatchCandidates
    <3>4. ASSUME NEW m \in MatchCandidates(db, x) PROVE m \in MatchCandidates(new, x)
      <4>1. /\ m \in DOMAIN db.matches /\ m \in DOMAIN new.matches
            /\ new.matches[m].home = db.matches[m].home
            /\ new.matches[m].away = db.matches[m].away
        BY DEF MatchCandidates, Touches
      <4>2. FixtureOf(new, m) = Fixture(x)
        <5>1. db.matches[m].home = ClubOf(db, x.home) /\ db.matches[m].away = ClubOf(db, x.away)
          BY DEF MatchCandidates
        <5> QED BY <2>1, <2>2, <4>1, <5>1, RowsMatch
      <4>3. new.matches[m] = db.matches[m]
        BY <4>1, <4>2 DEF Touches
      <4> QED BY <2>1, <4>1, <4>3 DEF MatchCandidates
    <3>5. MatchCandidates(new, x) = MatchCandidates(db, x)
      BY <3>3, <3>4
    <3> QED BY <1>2, <3>2, <3>5 DEF Later
  <2> QED BY <2>1, <2>2 DEF Met
<1>4. ASSUME Settled(db, x) PROVE Settled(new, x)
  <2>1. ASSUME NEW ref \in new.refs, ref.id = x.id
        PROVE  AsRow(new.matches[ref.match], x)
    <3>1. ref.id # row.id
      BY <2>1 DEF RowsSeen
    <3>2. ref \in db.refs
      BY <3>1 DEF Touches
    <3>3. /\ ref.match \in DOMAIN new.matches
          /\ \E s \in seen : s.id = ref.id /\ Fixture(s) = FixtureOf(new, ref.match)
      BY DEF Consistent, MatchesHold
    <3>4. FixtureOf(new, ref.match) = Fixture(x)
      BY <2>1, <3>3 DEF RowsSeen
    <3>5. new.matches[ref.match] = db.matches[ref.match]
      BY <3>3, <3>4 DEF Touches
    <3> QED BY <1>4, <2>1, <3>2, <3>5 DEF Settled
  <2>2. Met(new, x)
    BY <1>3, <1>4 DEF Settled
  <2> QED BY <2>1, <2>2 DEF Settled
<1> QED BY <1>3, <1>4

-----------------------------------------------------------------------------
(* Which row stands for a fixture *)

LEMMA CompletenessType == \A row : Completeness(row) \in Int
BY DEF Completeness

LEMMA RanksTotal ==
    ASSUME NEW a \in ProviderRow, NEW b \in ProviderRow
    PROVE  Outranks(a, a) /\ (Outranks(a, b) \/ Outranks(b, a))
<1>1. a.date \in Int /\ a.id \in Int /\ b.date \in Int /\ b.id \in Int
  BY DEF ProviderRow
<1>2. a.mirror \in BOOLEAN /\ b.mirror \in BOOLEAN
  BY DEF ProviderRow
<1>3. Outranks(a, a)
  <2>1. a.id >= a.id
    BY <1>1
  <2> QED BY <2>1, Zenon DEF Outranks
<1>4. Outranks(a, b) \/ Outranks(b, a)
  <2>1. \/ a.date < b.date \/ b.date < a.date
        \/ a.date = b.date /\ a.id >= b.id
        \/ a.date = b.date /\ b.id >= a.id
    BY <1>1
  <2>2. \/ Completeness(a) > Completeness(b) \/ Completeness(b) > Completeness(a)
        \/ Completeness(a) = Completeness(b)
    BY CompletenessType
  <2> QED BY <1>2, <2>1, <2>2, Zenon DEF Outranks
<1> QED BY <1>3, <1>4

LEMMA RanksTransitive ==
    ASSUME NEW a \in ProviderRow, NEW b \in ProviderRow, NEW c \in ProviderRow,
           Outranks(a, b), Outranks(b, c)
    PROVE  Outranks(a, c)
<1>1. /\ a.date \in Int /\ a.id \in Int /\ b.date \in Int /\ b.id \in Int
      /\ c.date \in Int /\ c.id \in Int
      /\ a.mirror \in {TRUE, FALSE} /\ b.mirror \in {TRUE, FALSE} /\ c.mirror \in {TRUE, FALSE}
  BY DEF ProviderRow
<1>2. Completeness(a) \in Int /\ Completeness(b) \in Int /\ Completeness(c) \in Int
  BY CompletenessType
<1> QED BY <1>1, <1>2 DEF Outranks

LEMMA HighestExists ==
    ASSUME NEW rows \in Seq(ProviderRow), NEW A \in SUBSET DOMAIN rows, A # {}
    PROVE  \E j \in A : \A k \in A : Outranks(rows[j], rows[k])
<1> DEFINE B(m) == {k \in A : k <= m}
           Best(m) == \E j \in B(m) : \A k \in B(m) : Outranks(rows[j], rows[k])
           T == {m \in DOMAIN rows : B(m) # {} /\ ~Best(m)}
<1>1. /\ Len(rows) \in Nat /\ DOMAIN rows = 1..Len(rows) /\ IsFiniteSet(DOMAIN rows)
      /\ \A i \in DOMAIN rows : rows[i] \in ProviderRow
  BY Positions
<1>2. T = {}
  <2> SUFFICES ASSUME T # {} PROVE FALSE
    OBVIOUS
  <2>1. IsFiniteSet(T) /\ T \subseteq Int
    BY <1>1, FS_Subset
  <2>2. PICK m \in T : \A n \in T : m <= n
    <3> HIDE DEF T
    <3> QED BY <2>1, LeastAndGreatest
  <2>3. m \in DOMAIN rows /\ B(m) # {} /\ ~Best(m)
    BY <2>2
  <2>7. m \in Nat /\ \A k \in A : k \in Nat
    <3> HIDE DEF T, B, Best
    <3>1. m \in 1..Len(rows) /\ \A k \in A : k \in 1..Len(rows)
      BY <1>1, <2>3
    <3> QED BY <1>1, <3>1
  <2>4. m - 1 \notin T
    <3> HIDE DEF T
    <3> QED BY <2>2, <2>7
  <2>8. m - 1 \in DOMAIN rows /\ B(m - 1) # {} => Best(m - 1)
    BY <2>4
  <2>9. \A k \in A : k \in B(m) <=> (k = m \/ k \in B(m - 1))
    <3> HIDE DEF T, Best
    <3> QED BY <2>7
  <2>10. B(m - 1) # {} => m - 1 \in DOMAIN rows
    <3> SUFFICES ASSUME NEW k \in B(m - 1) PROVE m - 1 \in DOMAIN rows
      OBVIOUS
    <3> HIDE DEF T, Best
    <3>1. k \in A /\ k <= m - 1
      OBVIOUS
    <3> HIDE DEF B
    <3>2. k \in 1..Len(rows) /\ m \in 1..Len(rows)
      BY <1>1, <2>3, <3>1
    <3> QED BY <1>1, <3>1, <3>2
  <2>5. CASE m \notin A
    <3>1. B(m) = B(m - 1)
      <4>1. B(m - 1) \subseteq A /\ B(m) \subseteq A
        OBVIOUS
      <4> HIDE DEF B
      <4> QED BY <2>5, <2>9, <4>1
    <3>2. Best(m - 1) <=> Best(m)
      <4> HIDE DEF B
      <4> QED BY <3>1
    <3> HIDE DEF Best, B
    <3> QED BY <2>3, <2>8, <2>10, <3>1, <3>2
  <2>6. CASE m \in A
    <3>1. B(m) = B(m - 1) \cup {m}
      <4>1. B(m - 1) \subseteq A /\ B(m) \subseteq A
        OBVIOUS
      <4> HIDE DEF B
      <4> QED BY <2>6, <2>9, <4>1
    <3>2. CASE B(m - 1) = {}
      <4>1. Outranks(rows[m], rows[m])
        BY <1>1, <2>3, RanksTotal
      <4> QED BY <2>3, <3>1, <3>2, <4>1
    <3>3. CASE B(m - 1) # {}
      <4>2. PICK j \in B(m - 1) : \A k \in B(m - 1) : Outranks(rows[j], rows[k])
        BY <2>8, <2>10, <3>3
      <4>3. CASE Outranks(rows[j], rows[m])
        <5>1. \A k \in B(m) : Outranks(rows[j], rows[k])
          BY <3>1, <4>2, <4>3
        <5>2. j \in B(m)
          BY <3>1
        <5> QED BY <2>3, <5>1, <5>2
      <4>4. CASE Outranks(rows[m], rows[j])
        <5>1. ASSUME NEW k \in B(m) PROVE Outranks(rows[m], rows[k])
          <6>1. rows[k] \in ProviderRow /\ rows[j] \in ProviderRow /\ rows[m] \in ProviderRow
            BY <1>1, <2>3
          <6>2. CASE k = m
            BY <6>1, <6>2, RanksTotal
          <6>3. CASE k \in B(m - 1)
            <7>1. Outranks(rows[j], rows[k])
              BY <4>2, <6>3
            <7> HIDE DEF B
            <7> QED BY <4>4, <6>1, <7>1, RanksTransitive
          <6> QED BY <3>1, <6>2, <6>3
        <5>2. m \in B(m)
          BY <3>1
        <5> QED BY <2>3, <5>1, <5>2
      <4>5. rows[j] \in ProviderRow /\ rows[m] \in ProviderRow
        BY <1>1, <2>3
      <4>6. Outranks(rows[j], rows[m]) \/ Outranks(rows[m], rows[j])
        BY <4>5, RanksTotal
      <4> QED BY <4>3, <4>4, <4>6
    <3> QED BY <3>2, <3>3
  <2> QED BY <2>5, <2>6
<1>3. A = B(Len(rows)) /\ Len(rows) \in DOMAIN rows
  BY <1>1
<1>4. Best(Len(rows))
  BY <1>2, <1>3
<1> QED BY <1>3, <1>4

\* The row that stands for a position, and the first position of its identity.
Standing(rows, i) ==
    rows[CHOOSE j \in Highest(rows, i) : \A k \in Highest(rows, i) : j <= k]
Firsts(rows) == {i \in DOMAIN rows : \A j \in Aliases(rows, i) : i <= j}

LEMMA StandingFound ==
    ASSUME NEW rows \in Seq(ProviderRow), NEW i \in DOMAIN rows
    PROVE  \E j \in Aliases(rows, i) :
             /\ Standing(rows, i) = rows[j]
             /\ \A k \in Aliases(rows, i) : Outranks(rows[j], rows[k])
<1>1. Aliases(rows, i) \in SUBSET DOMAIN rows /\ i \in Aliases(rows, i)
  BY DEF Aliases
<1>2. \E j \in Aliases(rows, i) : \A k \in Aliases(rows, i) : Outranks(rows[j], rows[k])
  BY <1>1, HighestExists
<1>3. Highest(rows, i) # {} /\ Highest(rows, i) \in SUBSET DOMAIN rows
  BY <1>1, <1>2 DEF Highest
<1>4. IsFiniteSet(Highest(rows, i)) /\ Highest(rows, i) \subseteq Int
  BY <1>3, Positions
<1>5. \E j \in Highest(rows, i) : \A k \in Highest(rows, i) : j <= k
  BY <1>3, <1>4, LeastAndGreatest
<1>6. PICK j : j = CHOOSE n \in Highest(rows, i) : \A k \in Highest(rows, i) : n <= k
  OBVIOUS
<1>7. j \in Highest(rows, i)
  BY <1>5, <1>6
<1>8. Standing(rows, i) = rows[j]
  BY <1>6 DEF Standing
<1> QED BY <1>7, <1>8 DEF Highest

LEMMA FirstFound ==
    ASSUME NEW rows \in Seq(ProviderRow), NEW i \in DOMAIN rows
    PROVE  \E j \in Firsts(rows) : j \in Aliases(rows, i)
<1>1. Aliases(rows, i) \in SUBSET DOMAIN rows /\ i \in Aliases(rows, i)
  BY DEF Aliases
<1>2. IsFiniteSet(Aliases(rows, i)) /\ Aliases(rows, i) \subseteq Int
  BY <1>1, Positions
<1>3. PICK j \in Aliases(rows, i) : \A k \in Aliases(rows, i) : j <= k
  BY <1>1, <1>2, LeastAndGreatest
<1>4. Aliases(rows, j) = Aliases(rows, i)
  BY DEF Aliases
<1> QED BY <1>1, <1>3, <1>4 DEF Firsts

\* The canonical rows, in order of their first positions.
LEMMA CanonicalRows ==
    ASSUME NEW rows \in Seq(ProviderRow), NEW q, q = SelectCanonical(rows)
    PROVE  \E n \in Nat : \E at \in [1..n -> Firsts(rows)] :
             /\ DOMAIN q = 1..n /\ \A k \in 1..n : q[k] = Standing(rows, at[k])
             /\ \A k, l \in 1..n : at[k] = at[l] => k = l
             /\ \A i \in Firsts(rows) : \E k \in 1..n : at[k] = i
<1> DEFINE F == Firsts(rows)
           below == [i \in F |-> {j \in F : j < i}]
           at == InPlaces(F, below)
           n == Cardinality(F)
           list == [i \in DOMAIN rows |-> Standing(rows, i)]
<1>1. F \in SUBSET DOMAIN rows /\ IsFiniteSet(F) /\ F \subseteq Int
  <2>1. F \in SUBSET DOMAIN rows
    BY DEF Firsts
  <2> QED BY <2>1, Positions
<1>2. q = Picked(list, F)
  <2>1. SelectCanonical(rows) = Picked(list, F)
    BY Zenon DEF SelectCanonical, Standing, Firsts
  <2> QED BY <2>1
<1>3. DOMAIN q = 1..n /\ \A k \in 1..n : q[k] = list[at[k]]
  BY <1>2, Zenon DEF Picked
<1> HIDE DEF F
<1>4. /\ below \in [F -> SUBSET F]
      /\ \A x \in F : x \notin below[x]
      /\ \A x, y \in F : x \in below[y] => below[x] \subseteq below[y]
      /\ \A x, y \in F : x # y => x \in below[y] \/ y \in below[x]
  BY <1>1
<1>5. \A x, y \in F : x \in below[y] => x < y
  OBVIOUS
<1> HIDE DEF below
<1>6. /\ at \in Seq(F) /\ Len(at) \in Nat
      /\ \A x \in F : \E i \in 1..Len(at) : at[i] = x
      /\ \A i \in 1..Len(at) : at[i] \in F
      /\ \A i, j \in 1..Len(at) : i < j => at[i] \in below[at[j]]
  BY <1>1, <1>4, PlacesInOrder
<1>7. n \in Nat /\ DOMAIN at = 1..n
  BY <1>1, FS_CardinalityType DEF InPlaces
<1>8. Len(at) = n /\ at \in [1..n -> F]
  <2> HIDE DEF at, n
  <2>1. Len(at) = n
    BY <1>6, <1>7
  <2> QED BY <1>6, <2>1
<1> HIDE DEF at, n
<1>9. ASSUME NEW k \in 1..n, NEW l \in 1..n, at[k] = at[l] PROVE k = l
  <2>1. at[k] \in F /\ at[k] \in Int
    BY <1>1, <1>8
  <2>2. ~(k < l) /\ ~(l < k)
    BY <1>5, <1>6, <1>8, <1>9, <2>1
  <2> QED BY <1>7, <2>2
<1>10. \A k \in 1..n : q[k] = Standing(rows, at[k])
  BY <1>1, <1>3, <1>8
<1> QED BY <1>3, <1>6, <1>7, <1>8, <1>9, <1>10 DEF F

\* A row that stands for its fixture among these.
Stands(rows, x) ==
    x \in rows /\ \A s \in rows : Fixture(s) = Fixture(x) => Outranks(x, s)

\* No two of these rows are of one fixture.
Apart(rows) ==
    \A i, j \in DOMAIN rows : Fixture(rows[i]) = Fixture(rows[j]) => i = j

LEMMA CanonicalSeen ==
    ASSUME NEW rows \in Seq(ProviderRow), NEW q, q = SelectCanonical(rows)
    PROVE  \E n \in Nat : DOMAIN q = 1..n /\ \A k \in 1..n : q[k] \in ToSet(rows)
<1>1. PICK n \in Nat : \E at \in [1..n -> Firsts(rows)] :
        /\ DOMAIN q = 1..n /\ \A k \in 1..n : q[k] = Standing(rows, at[k])
  BY CanonicalRows
<1>2. PICK at \in [1..n -> Firsts(rows)] :
        /\ DOMAIN q = 1..n /\ \A k \in 1..n : q[k] = Standing(rows, at[k])
  BY <1>1
<1>3. ASSUME NEW k \in 1..n PROVE q[k] \in ToSet(rows)
  <2>1. at[k] \in DOMAIN rows /\ q[k] = Standing(rows, at[k])
    BY <1>2 DEF Firsts
  <2>2. PICK j \in Aliases(rows, at[k]) : Standing(rows, at[k]) = rows[j]
    BY <2>1, StandingFound
  <2> QED BY <2>1, <2>2 DEF Aliases, ToSet
<1> QED BY <1>2, <1>3

\* One row of every fixture, the highest.
LEMMA CanonicalStands ==
    ASSUME NEW rows \in Seq(ProviderRow), OneRound(ToSet(rows)),
           NEW q, q = SelectCanonical(rows)
    PROVE  /\ Apart(q)
           /\ \A k \in DOMAIN q : Stands(ToSet(rows), q[k])
           /\ \A x \in ToSet(rows) : \E k \in DOMAIN q : Fixture(q[k]) = Fixture(x)
<1>1. PICK n \in Nat : \E at \in [1..n -> Firsts(rows)] :
        /\ DOMAIN q = 1..n /\ \A k \in 1..n : q[k] = Standing(rows, at[k])
        /\ \A k, l \in 1..n : at[k] = at[l] => k = l
        /\ \A i \in Firsts(rows) : \E k \in 1..n : at[k] = i
  BY CanonicalRows
<1>2. PICK at \in [1..n -> Firsts(rows)] :
        /\ DOMAIN q = 1..n /\ \A k \in 1..n : q[k] = Standing(rows, at[k])
        /\ \A k, l \in 1..n : at[k] = at[l] => k = l
        /\ \A i \in Firsts(rows) : \E k \in 1..n : at[k] = i
  BY <1>1
<1>3. ASSUME NEW i \in DOMAIN rows, NEW j \in DOMAIN rows
      PROVE  j \in Aliases(rows, i) <=> Fixture(rows[j]) = Fixture(rows[i])
  <2>1. rows[i] \in ToSet(rows) /\ rows[j] \in ToSet(rows)
    BY DEF ToSet
  <2>2. Fixture(rows[j]) = Fixture(rows[i]) => rows[j].round = rows[i].round
    BY <2>1 DEF OneRound
  <2> QED BY <2>2 DEF Aliases, ProviderFixtureIdentity, Fixture
<1>4. ASSUME NEW k \in 1..n
      PROVE  /\ at[k] \in DOMAIN rows /\ Fixture(q[k]) = Fixture(rows[at[k]])
             /\ Stands(ToSet(rows), q[k])
             /\ \A j \in DOMAIN rows : Fixture(rows[j]) = Fixture(q[k]) => at[k] <= j
  <2>1. at[k] \in DOMAIN rows /\ \A j \in Aliases(rows, at[k]) : at[k] <= j
    BY DEF Firsts
  <2>2. PICK j \in Aliases(rows, at[k]) :
          /\ Standing(rows, at[k]) = rows[j]
          /\ \A i \in Aliases(rows, at[k]) : Outranks(rows[j], rows[i])
    BY <2>1, StandingFound
  <2>3. j \in DOMAIN rows /\ q[k] = rows[j] /\ Fixture(rows[j]) = Fixture(rows[at[k]])
    BY <1>2, <1>3, <2>1, <2>2 DEF Aliases
  <2>4. ASSUME NEW s \in ToSet(rows), Fixture(s) = Fixture(q[k]) PROVE Outranks(q[k], s)
    <3>1. PICK i \in DOMAIN rows : s = rows[i]
      BY DEF ToSet
    <3>2. i \in Aliases(rows, at[k])
      BY <1>3, <2>1, <2>3, <2>4, <3>1
    <3> QED BY <2>2, <2>3, <3>1, <3>2
  <2>5. q[k] \in ToSet(rows)
    BY <2>3 DEF ToSet
  <2>6. \A i \in DOMAIN rows : Fixture(rows[i]) = Fixture(q[k]) => at[k] <= i
    BY <1>3, <2>1, <2>3
  <2>7. Stands(ToSet(rows), q[k])
    BY <2>4, <2>5 DEF Stands
  <2> QED BY <2>1, <2>3, <2>6, <2>7
<1>5. ASSUME NEW k \in 1..n, NEW l \in 1..n, Fixture(q[k]) = Fixture(q[l]) PROVE k = l
  <2>1. /\ at[k] \in DOMAIN rows /\ at[l] \in DOMAIN rows
        /\ at[k] <= at[l] /\ at[l] <= at[k]
    BY <1>4, <1>5
  <2>2. at[k] \in Int /\ at[l] \in Int
    BY <2>1, Positions
  <2>3. at[k] = at[l]
    BY <2>1, <2>2
  <2> QED BY <1>2, <2>3
<1>6. ASSUME NEW x \in ToSet(rows) PROVE \E k \in 1..n : Fixture(q[k]) = Fixture(x)
  <2>1. PICK i \in DOMAIN rows : x = rows[i]
    BY DEF ToSet
  <2>2. PICK j \in Firsts(rows) : j \in Aliases(rows, i)
    BY FirstFound
  <2>3. PICK k \in 1..n : at[k] = j
    BY <1>2, <2>2
  <2>4. Fixture(rows[j]) = Fixture(rows[i])
    BY <1>3, <2>2 DEF Aliases
  <2> QED BY <1>4, <2>1, <2>3, <2>4
<1>7. Apart(q)
  BY <1>2, <1>5 DEF Apart
<1> QED BY <1>2, <1>4, <1>6, <1>7

-----------------------------------------------------------------------------
(* One ingestion *)

IdentityStep(a, b, db, row) == IngestFixture(db, row)

\* After the first k of these rows: the tables are consistent, these rows are met,
\* they have settled when all were met before, and nothing changes when all had.
Outcome(seen, rows, base, k, db) ==
    /\ Consistent(seen, db)
    /\ Apart(rows) => \A i \in DOMAIN rows : i <= k => Met(db, rows[i])
    /\ Apart(rows) /\ (\A i \in DOMAIN rows : Met(base, rows[i])) =>
         \A i \in DOMAIN rows : Met(db, rows[i]) /\ (i <= k => Settled(db, rows[i]))
    /\ (\A i \in DOMAIN rows : Settled(base, rows[i])) => db = base

RowsMeet(g, k, db) == Outcome(g[1], g[2], g[3], k, db)

ScheduleRows == INSTANCE Folding WITH Step <- IdentityStep, Keeps <- RowsMeet

LEMMA OutcomeStep ==
    ASSUME NEW seen, RowsSeen(seen), NEW rows, NEW n \in Nat, DOMAIN rows = 1..n,
           \A i \in 1..n : rows[i] \in seen,
           NEW base, NEW k \in 1..n, NEW db, Outcome(seen, rows, base, k - 1, db),
           NEW new, new = IngestFixture(db, rows[k])
    PROVE  Outcome(seen, rows, base, k, new)
<1>1. Consistent(seen, db) /\ rows[k] \in seen
  BY DEF Outcome
<1>2. /\ Consistent(seen, new) /\ Touches(db, new, rows[k]) /\ Met(new, rows[k])
      /\ Met(db, rows[k]) => Settled(new, rows[k])
      /\ Settled(db, rows[k]) => new = db
  BY <1>1, RowIngested
<1>3. ASSUME Apart(rows), NEW i \in DOMAIN rows, i # k
      PROVE  /\ Met(db, rows[i]) => Met(new, rows[i])
             /\ Settled(db, rows[i]) => Settled(new, rows[i])
  <2>1. rows[i] \in seen /\ Fixture(rows[i]) # Fixture(rows[k])
    BY <1>3 DEF Apart
  <2> QED BY <1>1, <1>2, <2>1, Undisturbed
<1>4. \A i \in DOMAIN rows : i <= k => i = k \/ i <= k - 1
  OBVIOUS
<1>5. ASSUME Apart(rows), NEW i \in DOMAIN rows, i <= k PROVE Met(new, rows[i])
  <2>1. CASE i = k
    BY <1>2, <2>1
  <2>2. CASE i # k
    <3>1. Met(db, rows[i])
      BY <1>4, <1>5, <2>2 DEF Outcome
    <3> QED BY <1>3, <1>5, <2>2, <3>1
  <2> QED BY <2>1, <2>2
<1>6. ASSUME Apart(rows), \A i \in DOMAIN rows : Met(base, rows[i]), NEW i \in DOMAIN rows
      PROVE  Met(new, rows[i]) /\ (i <= k => Settled(new, rows[i]))
  <2>1. \A j \in DOMAIN rows : Met(db, rows[j]) /\ (j <= k - 1 => Settled(db, rows[j]))
    BY <1>6 DEF Outcome
  <2>2. CASE i = k
    BY <1>2, <2>1, <2>2
  <2>3. CASE i # k
    BY <1>3, <1>4, <1>6, <2>1, <2>3
  <2> QED BY <2>2, <2>3
<1>7. ASSUME \A i \in DOMAIN rows : Settled(base, rows[i]) PROVE new = base
  <2>1. db = base
    BY <1>7 DEF Outcome
  <2> QED BY <1>2, <1>7, <2>1
<1> QED BY <1>2, <1>5, <1>6, <1>7, Zenon DEF Outcome

LEMMA IngestFolds ==
    ASSUME NEW db, NEW rows
    PROVE  Ingest(db, rows) = ScheduleRows!Folded(0, 0, db, SelectCanonical(rows))
BY Zenon DEF Ingest, IdentityStep, ScheduleRows!Folded, ScheduleRows!FoldLeft,
             ScheduleRows!MapThenFoldSet, ScheduleRows!Max, FoldLeft, MapThenFoldSet, Max

LEMMA Ingested ==
    ASSUME NEW seen, RowsSeen(seen), NEW rows \in Seq(ProviderRow), ToSet(rows) \subseteq seen,
           NEW db, Consistent(seen, db)
    PROVE  \E q : \E n \in Nat : /\ q = SelectCanonical(rows) /\ DOMAIN q = 1..n
                                /\ Outcome(seen, q, db, n, Ingest(db, rows))
<1>1. PICK q : q = SelectCanonical(rows)
  OBVIOUS
<1>2. PICK n \in Nat : DOMAIN q = 1..n /\ \A k \in 1..n : q[k] \in ToSet(rows)
  BY <1>1, CanonicalSeen
<1>3. Ingest(db, rows) = ScheduleRows!Folded(0, 0, db, q)
  BY <1>1, IngestFolds
<1>4. PICK g : g = <<seen, q, db>>
  OBVIOUS
<1>5. \A k, d : RowsMeet(g, k, d) <=> Outcome(seen, q, db, k, d)
  BY <1>4 DEF RowsMeet
<1>6. RowsMeet(g, 0, db)
  <2>1. \A i \in DOMAIN q : ~(i <= 0)
    BY <1>2
  <2>2. Outcome(seen, q, db, 0, db)
    BY <2>1, Zenon DEF Outcome
  <2> QED BY <1>5, <2>2
<1>7. ASSUME NEW k \in 1..n, NEW d, RowsMeet(g, k - 1, d)
      PROVE  RowsMeet(g, k, IdentityStep(0, 0, d, q[k]))
  <2>1. Outcome(seen, q, db, k - 1, d)
    BY <1>5, <1>7
  <2>2. \A i \in 1..n : q[i] \in seen
    BY <1>2
  <2>3. PICK new : new = IngestFixture(d, q[k])
    OBVIOUS
  <2>4. Outcome(seen, q, db, k, new)
    BY <1>2, <2>1, <2>2, <2>3, OutcomeStep
  <2> QED BY <1>5, <2>3, <2>4 DEF IdentityStep
<1>8. RowsMeet(g, n, ScheduleRows!Folded(0, 0, db, q))
  BY <1>2, <1>6, <1>7, ScheduleRows!FoldKeeps
<1> QED BY <1>1, <1>2, <1>3, <1>5, <1>8

-----------------------------------------------------------------------------
(* The schedule: walks over the pages, and what they ingest *)

LEMMA WiderList ==
    ASSUME NEW S, NEW T, S \subseteq T, NEW s \in Seq(S)
    PROVE  s \in Seq(T) /\ ToSet(s) \subseteq T
<1>1. Len(s) \in Nat /\ s \in [1..Len(s) -> S] /\ DOMAIN s = 1..Len(s)
  BY LenProperties
<1>2. s \in Seq(T)
  <2>1. s \in [1..Len(s) -> T]
    BY <1>1
  <2> QED BY <1>1, <2>1
<1> QED BY <1>1, <1>2 DEF ToSet

\* A set of rows as a list.
LEMMA RowsListed ==
    ASSUME NEW rows, IsFiniteSet(rows), rows \subseteq ProviderRow
    PROVE  SetToSeq(rows) \in Seq(ProviderRow) /\ ToSet(SetToSeq(rows)) = rows
<1> DEFINE n == Cardinality(rows)
           f == SetToSeq(rows)
<1>1. n \in Nat /\ ExistsBijection(1..n, rows)
  BY FS_CardinalityType
<1>2. \E g \in [1..n -> rows] : IsInjective(g)
  BY <1>1, Zenon DEF ExistsBijection, Bijection, Injection
<1>3. f \in [1..n -> rows] /\ IsInjective(f)
  BY <1>2, Zenon DEF SetToSeq
<1> HIDE DEF f, n
<1>4. f \in Seq(ProviderRow)
  <2>1. f \in [1..n -> ProviderRow]
    BY <1>3
  <2> QED BY <1>1, <2>1
<1>5. f \in Surjection(1..n, rows)
  <2>1. f \in Injection(1..n, rows)
    BY <1>3, Zenon DEF Injection
  <2>2. Cardinality(1..n) = n
    BY <1>1, FS_Interval
  <2> QED BY <2>1, <2>2, FS_Injection DEF n
<1>6. ToSet(f) = rows
  <2>1. DOMAIN f = 1..n /\ \A i \in 1..n : f[i] \in rows
    BY <1>3
  <2>2. \A x \in rows : \E i \in 1..n : f[i] = x
    BY <1>5, Zenon DEF Surjection
  <2> QED BY <2>1, <2>2 DEF ToSet
<1> QED BY <1>4, <1>6 DEF f

LEMMA Published ==
    ASSUME NEW rows, \A x \in rows : \E feed \in Feeds : x \in ToSet(feed)
    PROVE  RowsSeen(rows)
<1>1. ASSUME NEW x \in rows PROVE x \in ProviderRow
  <2>1. PICK feed \in Feeds : x \in ToSet(feed)
    OBVIOUS
  <2>2. feed \in Seq(ProviderRow)
    BY FeedsAssumption
  <2> QED BY <2>1, <2>2, Positions DEF ToSet
<1>2. ASSUME NEW x \in rows, NEW y \in rows, x.id = y.id PROVE Fixture(x) = Fixture(y)
  BY <1>2, FeedsAssumption
<1> QED BY <1>1, <1>2 DEF RowsSeen

\* More rows take nothing back: only fewer fixtures have all of them near each other.
LEMMA SeenMore ==
    ASSUME NEW seen, NEW more, seen \subseteq more, NEW db, Consistent(seen, db)
    PROVE  Consistent(more, db)
<1>1. \A fixture : Near(more, fixture) => Near(seen, fixture)
  BY DEF Near
<1>2. \A m \in DOMAIN db.matches : \E s \in more, ref \in db.refs :
        /\ Fixture(s) = FixtureOf(db, m) /\ s.date = db.matches[m].kickoff
        /\ ref.id = s.id /\ ref.match = m
  BY DEF Consistent, MatchesHold
<1>3. \A ref \in db.refs :
        /\ ref.match \in DOMAIN db.matches
        /\ \E s \in more : s.id = ref.id /\ Fixture(s) = FixtureOf(db, ref.match)
  BY DEF Consistent, MatchesHold
<1>4. \A m, n \in DOMAIN db.matches :
        FixtureOf(db, m) = FixtureOf(db, n) /\ Near(more, FixtureOf(db, m)) => m = n
  BY <1>1 DEF Consistent, MatchesHold
<1>5. /\ \A m \in DOMAIN db.matches :
           /\ \E ref \in db.clubRefs : ref.club = db.matches[m].home
           /\ \E ref \in db.clubRefs : ref.club = db.matches[m].away
      /\ \A x, y \in db.refs : x.id = y.id => x = y
      /\ Typed(db) /\ ClubsHold(db)
  BY DEF Consistent, MatchesHold
<1> QED BY <1>2, <1>3, <1>4, <1>5, Zenon DEF Consistent, MatchesHold

\* What stands for a fixture was met, and has settled when it was met twice.
Scheduled(earlier, rows, db) ==
    OneRound(rows) /\ Untied(rows) =>
      \A x \in rows : Stands(rows, x) =>
        Met(db, x) /\ (earlier = rows => Settled(db, x))

FeedHolds ==
    /\ fiFeed \in Feeds /\ ToSet(fiFeed) \subseteq fiFeeds
    /\ \A x \in fiFeeds : \E feed \in Feeds : x \in ToSet(feed)
WalkHolds == fiWalk.rows \in Seq(fiFeeds) /\ fiWalk.cursor \in Nat
IngestedHolds ==
    /\ fiIngested = <<fiIngested[1], fiIngested[2]>>
    /\ fiIngested[2] \subseteq fiFeeds /\ IsFiniteSet(fiIngested[2])
    /\ Scheduled(fiIngested[1], fiIngested[2], fiDb)
IdentityHolds ==
    FeedHolds /\ WalkHolds /\ Consistent(fiFeeds, fiDb) /\ IngestedHolds

LEMMA IdleWalk == NoWalk.rows \in Seq(fiFeeds) /\ NoWalk.cursor \in Nat
  BY EmptySeq DEF NoWalk

LEMMA IdentityHoldsFirst == FixtureIdentityInit => IdentityHolds
<1> SUFFICES ASSUME FixtureIdentityInit PROVE IdentityHolds
  OBVIOUS
<1>1. FeedHolds
  BY DEF FixtureIdentityInit, FixtureIdentityStart, FeedHolds
<1>2. WalkHolds
  BY IdleWalk DEF FixtureIdentityInit, FixtureIdentityStart, WalkHolds
<1>3. IngestedHolds
  <2>1. fiIngested = <<{}, {}>>
    BY DEF FixtureIdentityInit, FixtureIdentityStart
  <2>2. fiIngested[1] = {} /\ fiIngested[2] = {}
    BY <2>1
  <2>3. IsFiniteSet({})
    BY FS_EmptySet
  <2> QED BY <2>1, <2>2, <2>3 DEF IngestedHolds, Scheduled
<1>4. Consistent(fiFeeds, fiDb)
  <2>1. PICK clubs \in KnownClubs : fiDb = EmptyDatabase(clubs)
    BY DEF FixtureIdentityInit
  <2>2. /\ fiDb.clubs = clubs /\ fiDb.clubRefs = {} /\ fiDb.matches = <<>>
        /\ fiDb.refs = {} /\ fiDb.reviews = {}
        /\ fiDb = [clubs |-> fiDb.clubs, clubRefs |-> fiDb.clubRefs, matches |-> fiDb.matches,
                   refs |-> fiDb.refs, reviews |-> fiDb.reviews]
    BY <2>1 DEF EmptyDatabase
  <2>3. /\ clubs \in Seq(Names)
        /\ \A c, d \in DOMAIN clubs :
             c # d /\ ClubIdentity[clubs[c]] = ClubIdentity[clubs[d]] =>
               \A team \in Teams : TeamName[team] # clubs[c]
    BY ClubsAssumption DEF Names, Teams
  <2>4. <<>> \in Seq(StoredMatch) /\ DOMAIN fiDb.matches = {}
    BY <2>2, EmptySeq
  <2>5. Typed(fiDb)
    BY <2>2, <2>3, <2>4 DEF Typed
  <2>6. ClubsHold(fiDb)
    BY <2>2, <2>3 DEF ClubsHold, Namesakes, SpellingOf
  <2>7. MatchesHold(fiFeeds, fiDb)
    BY <2>2, <2>4 DEF MatchesHold
  <2> QED BY <2>5, <2>6, <2>7 DEF Consistent
<1> QED BY <1>1, <1>2, <1>3, <1>4 DEF IdentityHolds

LEMMA FetchKeeps ==
    ASSUME IdentityHolds, NEW following \in 0..Len(fiFeed), FetchPage(following)
    PROVE  WalkHolds'
<1> DEFINE from == fiWalk.cursor
           to == IF from + PageSize < Len(fiFeed) THEN from + PageSize ELSE Len(fiFeed)
           last == following = 0
           failed == \/ ~last /\ following \in fiWalk.seen
                     \/ ~last /\ fiWalk.pages + 1 = MaxPages
           page == SubSeq(fiFeed, from + 1, to)
           read == [step |-> IF last THEN "ingest" ELSE "fetch",
                    rows |-> fiWalk.rows \o page,
                    cursor |-> following, seen |-> fiWalk.seen \cup {following},
                    pages |-> fiWalk.pages + 1]
<1>1. fiFeeds' = fiFeeds /\ fiWalk' = IF failed THEN NoWalk ELSE read
  BY Zenon DEF FetchPage
<1>2. Len(fiFeed) \in Nat /\ DOMAIN fiFeed = 1..Len(fiFeed)
  <2>1. fiFeed \in Seq(ProviderRow)
    BY FeedsAssumption DEF IdentityHolds, FeedHolds
  <2> QED BY <2>1, LenProperties
<1>3. \A i \in 1..Len(fiFeed) : fiFeed[i] \in fiFeeds
  BY <1>2 DEF IdentityHolds, FeedHolds, ToSet
<1>4. from \in Nat /\ to \in Int /\ to <= Len(fiFeed)
  BY <1>2, IdentityAssumption DEF IdentityHolds, WalkHolds
<1>5. page \in Seq(fiFeeds)
  <2> HIDE DEF from, to
  <2>1. \A i \in (from + 1)..to : fiFeed[i] \in fiFeeds
    BY <1>2, <1>3, <1>4
  <2> QED BY <1>4, <2>1, SubSeqProperties
<1> HIDE DEF page, failed, last
<1>6. fiWalk.rows \o page \in Seq(fiFeeds)
  BY <1>5, ConcatProperties DEF IdentityHolds, WalkHolds
<1>7. read.rows \in Seq(fiFeeds) /\ read.cursor \in Nat
  BY <1>2, <1>6
<1> HIDE DEF read
<1> QED BY <1>1, <1>7, IdleWalk DEF WalkHolds

LEMMA IngestionKeeps ==
    ASSUME IdentityHolds, IngestFixtures
    PROVE  IdentityHolds'
<1> DEFINE rows == fiWalk.rows
           now == ToSet(fiWalk.rows)
           before == fiIngested[2]
<1>1. /\ fiDb' = Ingest(fiDb, rows) /\ fiIngested' = <<before, now>>
      /\ fiWalk' = NoWalk /\ fiFeed' = fiFeed /\ fiFeeds' = fiFeeds
  BY DEF IngestFixtures
<1>2. RowsSeen(fiFeeds)
  BY Published DEF IdentityHolds, FeedHolds
<1>3. rows \in Seq(ProviderRow) /\ now \subseteq fiFeeds
  BY <1>2, WiderList DEF IdentityHolds, WalkHolds, RowsSeen
<1>4. PICK q : \E n \in Nat : /\ q = SelectCanonical(rows) /\ DOMAIN q = 1..n
                              /\ Outcome(fiFeeds, q, fiDb, n, Ingest(fiDb, rows))
  BY <1>2, <1>3, Ingested DEF IdentityHolds
<1>5. PICK n \in Nat : /\ q = SelectCanonical(rows) /\ DOMAIN q = 1..n
                       /\ Outcome(fiFeeds, q, fiDb, n, fiDb')
  BY <1>1, <1>4
<1>6. Consistent(fiFeeds', fiDb')
  BY <1>1, <1>5 DEF Outcome
<1>7. Scheduled(before, now, fiDb')
  <2> SUFFICES ASSUME OneRound(now), Untied(now), NEW x \in now, Stands(now, x)
               PROVE  Met(fiDb', x) /\ (before = now => Settled(fiDb', x))
    BY DEF Scheduled
  <2>1. /\ Apart(q) /\ \A k \in DOMAIN q : Stands(now, q[k])
        /\ \A y \in now : \E k \in DOMAIN q : Fixture(q[k]) = Fixture(y)
    BY <1>3, <1>5, CanonicalStands
  <2>2. PICK k \in DOMAIN q : Fixture(q[k]) = Fixture(x)
    BY <2>1
  <2>3. q[k] = x
    BY <2>1, <2>2 DEF Stands, Untied
  <2>4. k <= n
    BY <1>5
  <2>5. Met(fiDb', x)
    BY <1>5, <2>1, <2>3, <2>4 DEF Outcome
  <2>6. ASSUME before = now PROVE Settled(fiDb', x)
    <3>1. \A i \in DOMAIN q : Met(fiDb, q[i])
      BY <2>1, <2>6 DEF IdentityHolds, IngestedHolds, Scheduled, Stands
    <3> QED BY <1>5, <2>1, <2>3, <2>4, <3>1 DEF Outcome
  <2> QED BY <2>5, <2>6
<1>8. IngestedHolds'
  <2>1. fiIngested'[1] = before /\ fiIngested'[2] = now
    BY <1>1
  <2>2. IsFiniteSet(now)
    <3>1. DOMAIN rows = 1..Len(rows) /\ Len(rows) \in Nat
      BY <1>3, LenProperties
    <3>2. IsFiniteSet(DOMAIN rows)
      BY <1>3, Positions
    <3>3. rows \in Surjection(DOMAIN rows, now)
      <4>1. rows \in [DOMAIN rows -> now] /\ \A x \in now : \E i \in DOMAIN rows : rows[i] = x
        BY <1>3, LenProperties DEF ToSet
      <4> QED BY <4>1, Zenon DEF Surjection
    <3> QED BY <3>2, <3>3, FS_Surjection
  <2> HIDE DEF now, before
  <2> QED BY <1>1, <1>3, <1>7, <2>1, <2>2 DEF IngestedHolds
<1>9. FeedHolds' /\ WalkHolds'
  BY <1>1, IdleWalk DEF IdentityHolds, FeedHolds, WalkHolds
<1> QED BY <1>6, <1>8, <1>9 DEF IdentityHolds

LEMMA FeedKeeps ==
    ASSUME IdentityHolds, FeedChanges
    PROVE  IdentityHolds'
<1>1. /\ fiFeed' \in Feeds /\ fiFeeds' = fiFeeds \cup ToSet(fiFeed')
      /\ fiWalk' = fiWalk /\ fiDb' = fiDb /\ fiIngested' = fiIngested
  BY DEF FeedChanges
<1>2. fiFeeds \subseteq fiFeeds'
  BY <1>1
<1>3. FeedHolds'
  BY <1>1 DEF IdentityHolds, FeedHolds
<1>4. WalkHolds'
  BY <1>1, <1>2, WiderList DEF IdentityHolds, WalkHolds
<1>5. IngestedHolds'
  BY <1>1, <1>2 DEF IdentityHolds, IngestedHolds
<1>6. Consistent(fiFeeds', fiDb')
  BY <1>1, <1>2, SeenMore DEF IdentityHolds
<1> QED BY <1>3, <1>4, <1>5, <1>6 DEF IdentityHolds

LEMMA IdentityHoldsNext ==
    IdentityHolds /\ [FixtureIdentityNext]_identityVars => IdentityHolds'
<1> SUFFICES ASSUME IdentityHolds, [FixtureIdentityNext]_identityVars PROVE IdentityHolds'
  OBVIOUS
<1>1. ASSUME fiFeed' = fiFeed, fiFeeds' = fiFeeds, fiDb' = fiDb, fiIngested' = fiIngested, WalkHolds'
      PROVE  IdentityHolds'
  BY <1>1 DEF IdentityHolds, FeedHolds, IngestedHolds
<1>2. CASE BeginWalk
  <2>1. WalkHolds'
    <3>1. fiWalk' = [NoWalk EXCEPT !.step = "fetch"] /\ fiFeeds' = fiFeeds
      BY <1>2 DEF BeginWalk
    <3>2. fiWalk'.rows = NoWalk.rows /\ fiWalk'.cursor = NoWalk.cursor
      BY <3>1 DEF NoWalk
    <3> QED BY <3>1, <3>2, IdleWalk DEF WalkHolds
  <2> QED BY <1>1, <1>2, <2>1 DEF BeginWalk
<1>3. ASSUME NEW following \in 0..Len(fiFeed), FetchPage(following) PROVE IdentityHolds'
  <2>1. WalkHolds'
    BY <1>3, FetchKeeps
  <2> QED BY <1>1, <1>3, <2>1, Zenon DEF FetchPage
<1>4. CASE RequestRefused
  <2>1. WalkHolds'
    BY <1>4, IdleWalk DEF RequestRefused, WalkHolds
  <2> QED BY <1>1, <1>4, <2>1 DEF RequestRefused
<1>5. CASE UNCHANGED identityVars
  BY <1>5 DEF identityVars, IdentityHolds, FeedHolds, WalkHolds, IngestedHolds
<1> QED BY <1>2, <1>3, <1>4, <1>5, IngestionKeeps, FeedKeeps DEF FixtureIdentityNext

LEMMA IdentityHeld == FixtureIdentitySpec => []IdentityHolds
  BY IdentityHoldsFirst, IdentityHoldsNext, PTL DEF FixtureIdentitySpec

\* A fixture is one match when all of its rows share an identifier or a date, and
\* nothing of it is stored while one of its clubs is under review.
THEOREM OneMatch == FixtureIdentitySpec => []OneMatchPerFixture
<1>1. IdentityHolds => OneMatchPerFixture
  <2> SUFFICES ASSUME IdentityHolds PROVE OneMatchPerFixture
    OBVIOUS
  <2>1. RowsSeen(fiFeeds) /\ Consistent(fiFeeds, fiDb)
    BY Published DEF IdentityHolds, FeedHolds
  <2>2. ASSUME NEW r \in fiFeeds, Near(fiFeeds, Fixture(r))
        PROVE  Cardinality(MatchesOf(Fixture(r))) <= 1
    <3>1. MatchesOf(Fixture(r)) \in SUBSET DOMAIN fiDb.matches
      BY DEF MatchesOf
    <3>2. IsFiniteSet(MatchesOf(Fixture(r)))
      BY <2>1, <3>1, Positions DEF Consistent, Typed
    <3>3. \A m \in MatchesOf(Fixture(r)) : FixtureOf(fiDb, m) = Fixture(r)
      BY DEF MatchesOf, FixtureOf, SpellingOf, Fixture
    <3>4. \A m, n \in MatchesOf(Fixture(r)) : m = n
      BY <2>1, <2>2, <3>1, <3>3 DEF Consistent, MatchesHold
    <3>5. ~(Cardinality(MatchesOf(Fixture(r))) > 1)
      BY <3>2, <3>4, Members
    <3> QED BY <3>2, <3>5, FS_CardinalityType
  <2>3. ASSUME NEW r \in fiFeeds,
               \A s, t \in {s \in fiFeeds : Fixture(s) = Fixture(r)} :
                 s.id = t.id \/ Within(s.date, t.date, Tolerance)
        PROVE  Near(fiFeeds, Fixture(r))
    BY <2>3 DEF Near
  <2>4. ASSUME NEW r \in fiFeeds, NEW team \in {r.home, r.away},
               <<"club", team>> \in fiDb.reviews,
               NEW s \in fiFeeds, Fixture(s) = Fixture(r), NEW ref \in fiDb.refs
        PROVE  s.id # ref.id
    <3> SUFFICES ASSUME s.id = ref.id PROVE FALSE
      OBVIOUS
    <3>1. /\ team \in Teams
          /\ IdentityOf(team) = IdentityOf(s.home) \/ IdentityOf(team) = IdentityOf(s.away)
      BY <2>1, <2>4 DEF RowsSeen, ProviderRow, Teams, Fixture
    <3>2. \A x \in fiDb.clubRefs : SpellingOf(fiDb, x.club) # IdentityOf(team)
      BY <2>1, <2>4, <3>1, UnderReview DEF Consistent
    <3>3. /\ ref.match \in DOMAIN fiDb.matches
          /\ \E x \in fiFeeds : x.id = ref.id /\ Fixture(x) = FixtureOf(fiDb, ref.match)
      BY <2>1 DEF Consistent, MatchesHold
    <3>4. FixtureOf(fiDb, ref.match) = Fixture(s)
      BY <2>1, <3>3 DEF RowsSeen
    <3>5. /\ \E x \in fiDb.clubRefs : x.club = fiDb.matches[ref.match].home
          /\ \E x \in fiDb.clubRefs : x.club = fiDb.matches[ref.match].away
      BY <2>1, <3>3 DEF Consistent, MatchesHold
    <3> QED BY <3>1, <3>2, <3>4, <3>5 DEF FixtureOf, Fixture
  <2> QED BY <2>2, <2>3, <2>4, Zenon DEF OneMatchPerFixture
<1> QED BY <1>1, IdentityHeld, PTL

\* What was ingested twice has settled: every match is as the row that stands for
\* it, and the same rows in any order change nothing more.
THEOREM FeedsSettle == FixtureIdentitySpec => []FeedSettles
<1>1. IdentityHolds => FeedSettles
  <2> DEFINE rows == fiIngested[2]
  <2> SUFFICES ASSUME IdentityHolds, rows # {}, fiIngested[1] = rows, OneRound(rows), Untied(rows)
               PROVE  /\ \A r \in rows, ref \in fiDb.refs :
                           LET group == {s \in rows : Fixture(s) = Fixture(r)}
                           IN  (ref.id = r.id /\ \A s \in group : Outranks(r, s)) =>
                                 /\ r.status = fiDb.matches[ref.match].status
                                 /\ \/ r.status \in {"postponed", "cancelled"}
                                    \/ r.date = fiDb.matches[ref.match].kickoff
                      /\ Ingest(fiDb, SetToSeq(rows)) = fiDb
    BY Zenon DEF FeedSettles
  <2>1. /\ RowsSeen(fiFeeds) /\ Consistent(fiFeeds, fiDb)
        /\ rows \subseteq fiFeeds /\ IsFiniteSet(rows) /\ rows \subseteq ProviderRow
    BY Published DEF IdentityHolds, FeedHolds, IngestedHolds, RowsSeen
  <2>2. \A x \in rows : Stands(rows, x) => Settled(fiDb, x)
    BY DEF IdentityHolds, IngestedHolds, Scheduled
  <2> HIDE DEF rows
  <2>3. ASSUME NEW r \in rows, NEW ref \in fiDb.refs, ref.id = r.id,
               \A s \in {s \in rows : Fixture(s) = Fixture(r)} : Outranks(r, s)
        PROVE  AsRow(fiDb.matches[ref.match], r)
    <3>1. Stands(rows, r)
      BY <2>3 DEF Stands
    <3> QED BY <2>2, <2>3, <3>1 DEF Settled
  <2>4. Ingest(fiDb, SetToSeq(rows)) = fiDb
    <3>1. PICK list : list = SetToSeq(rows)
      OBVIOUS
    <3>2. list \in Seq(ProviderRow) /\ ToSet(list) = rows
      BY <2>1, <3>1, RowsListed
    <3>3. PICK q : \E n \in Nat : /\ q = SelectCanonical(list) /\ DOMAIN q = 1..n
                                  /\ Outcome(fiFeeds, q, fiDb, n, Ingest(fiDb, list))
      BY <2>1, <3>2, Ingested
    <3>4. \A k \in DOMAIN q : Stands(rows, q[k])
      BY <3>2, <3>3, CanonicalStands
    <3>5. \A k \in DOMAIN q : Settled(fiDb, q[k])
      BY <2>2, <3>4 DEF Stands
    <3> QED BY <3>1, <3>3, <3>5 DEF Outcome
  <2> QED BY <2>3, <2>4, Zenon DEF AsRow, rows
<1> QED BY <1>1, IdentityHeld, PTL

=================================================================================

-------------------------------- MODULE WebProofs --------------------------------
(***************************************************************************)
(* Proofs about what stands between a browser and the service.  Limiters:  *)
(* the decisions of the sliding-window limiters, of both kinds, are exact  *)
(* for any limit, window, table and number of clients.  Pages: for any     *)
(* pages and tabs at most one page polls, and no open page in a visible    *)
(* tab that still has something to learn is left without a poll.  Replay:  *)
(* for any score and sampled statistics the stored events tell the match,  *)
(* and a page shows of them what has happened by then.                     *)
(***************************************************************************)
EXTENDS RateLimiter, ForecastPoller, StoredReplay, PlacesProofs,
        WellFoundedInduction

-----------------------------------------------------------------------------
(* Limiters: a window holds the times of the allowed requests its client is  *)
(* to be charged with                                                       *)

Decision == [source : Sources, at : Nat, allowed : BOOLEAN,
             evicted : Sources \cup {Nobody}, resets : Int]

\* The allowed requests of a source after a time, since it last lost its place.
Counts(d, source, since) ==
    {i \in DOMAIN d : /\ d[i].source = source /\ d[i].allowed /\ d[i].at > since
                      /\ \A j \in DOMAIN d : d[j].evicted = source => j < i}

\* Each of the times is that of one of these requests.
Enumerates(f, d, times, requests) ==
    /\ f \in [1..Len(times) -> requests]
    /\ \A i, j \in 1..Len(times) : f[i] = f[j] => i = j
    /\ \A r \in requests : \E i \in 1..Len(times) : f[i] = r
    /\ \A i \in 1..Len(times) : d[f[i]].at = times[i]
Timed(d, times, requests) ==
    \E f \in [1..Len(times) -> requests] : Enumerates(f, d, times, requests)

Sorted(times) == \A i, j \in 1..Len(times) : i < j => times[i] <= times[j]

TypeInv ==
    /\ rlKind \in {"api", "page"}
    /\ rlNow \in Nat
    /\ rlDecisions \in Seq(Decision)
    /\ DOMAIN rlTable \subseteq Sources
    /\ \A s \in DOMAIN rlTable : rlTable[s].times \in Seq(Nat) /\ rlTable[s].seen \in Nat

\* A window stands for what its client was allowed until it was last seen.
WindowExact(s) ==
    /\ rlTable[s].seen <= rlNow
    /\ Len(rlTable[s].times) > 0 /\ Sorted(rlTable[s].times)
    /\ Timed(rlDecisions, rlTable[s].times,
             Counts(rlDecisions, s, rlTable[s].seen - Window))
    /\ \E i \in DOMAIN rlDecisions : /\ rlDecisions[i].source = s
                                     /\ rlDecisions[i].at = rlTable[s].seen
    /\ \A i \in DOMAIN rlDecisions : rlDecisions[i].source = s =>
         rlDecisions[i].at <= rlTable[s].seen

\* Nothing is charged to a source that has no window.
Windows ==
    /\ \A i \in DOMAIN rlDecisions : rlDecisions[i].at <= rlNow
    /\ \A s \in DOMAIN rlTable : WindowExact(s)
    /\ \A s \in Sources \ DOMAIN rlTable : Counts(rlDecisions, s, rlNow - Window) = {}

Limited == TypeInv /\ Windows /\ LimitExact

-----------------------------------------------------------------------------
(* Times and the requests they stand for                                    *)

LEMMA SeqFacts ==
    ASSUME NEW S, NEW s \in Seq(S)
    PROVE  Len(s) \in Nat /\ DOMAIN s = 1..Len(s) /\ \A i \in DOMAIN s : s[i] \in S
BY LenProperties, ElementOfSeq

LEMMA LeastNumber ==
    ASSUME NEW T \in SUBSET Nat, T # {}
    PROVE  \E n \in T : \A m \in T : n <= m
<1>1. \E n \in T : \A m \in T : <<m, n>> \notin OpToRel(<, Nat)
  <2>1. IsWellFoundedOn(OpToRel(<, Nat), Nat)
    BY NatLessThanWellFounded
  <2> DEFINE R == OpToRel(<, Nat)
  <2> HIDE DEF R
  <2>2. \E n \in T : \A m \in T : <<m, n>> \notin R
    BY <2>1, WFMin DEF R
  <2> QED BY <2>2 DEF R
<1>2. ASSUME NEW m \in Nat, NEW n \in Nat, m < n PROVE <<m, n>> \in OpToRel(<, Nat)
  <2> DEFINE pair == <<m, n>>
  <2>1. pair \in Nat \X Nat /\ pair[1] < pair[2]
    BY <1>2
  <2> HIDE DEF pair
  <2>2. pair \in OpToRel(<, Nat)
    BY <2>1 DEF OpToRel
  <2> QED BY <2>2 DEF pair
<1>3. PICK n \in T : \A m \in T : <<m, n>> \notin OpToRel(<, Nat)
  BY <1>1
<1>4. \A m \in T : m \in Nat /\ n \in Nat /\ ~(m < n)
  BY <1>2, <1>3, Zenon
<1>5. \A m \in T : n <= m
  BY <1>4
<1> QED BY <1>5

LEMMA TimedCount ==
    ASSUME NEW d, NEW times \in Seq(Nat), NEW requests, Timed(d, times, requests)
    PROVE  Cardinality(requests) = Len(times)
<1>1. PICK f \in [1..Len(times) -> requests] : Enumerates(f, d, times, requests)
  BY DEF Timed
<1>2. Len(times) \in Nat
  BY SeqFacts
<1> DEFINE n == Len(times)
<1>3. f \in Bijection(1..n, requests)
  <2>1. f \in Injection(1..n, requests)
    BY <1>1 DEF Enumerates, Injection, IsInjective
  <2>2. f \in Surjection(1..n, requests)
    BY <1>1 DEF Enumerates, Surjection
  <2> QED
    BY <2>1, <2>2 DEF Bijection
<1>4. ExistsBijection(1..n, requests) /\ n \in Nat
  BY <1>2, <1>3 DEF ExistsBijection
<1> HIDE DEF n
<1>5. Cardinality(requests) = n
  BY <1>4, FS_CountingElements
<1> QED
  BY <1>5 DEF n

\* Decisions that are added change nothing about earlier ones.
LEMMA TimedStays ==
    ASSUME NEW d, NEW new, NEW times, NEW requests, Timed(d, times, requests),
           \A r \in requests : new[r] = d[r]
    PROVE  Timed(new, times, requests)
<1>1. PICK f \in [1..Len(times) -> requests] : Enumerates(f, d, times, requests)
  BY DEF Timed
<1>2. Enumerates(f, new, times, requests)
  BY <1>1 DEF Enumerates
<1> QED
  BY <1>1, <1>2 DEF Timed

LEMMA TimedAppend ==
    ASSUME NEW d, NEW times \in Seq(Nat), NEW requests, Timed(d, times, requests),
           NEW r, r \notin requests, NEW now \in Nat, d[r].at = now
    PROVE  Timed(d, Append(times, now), requests \cup {r})
<1> DEFINE more == Append(times, now)
           n == Len(times)
<1>1. PICK f \in [1..Len(times) -> requests] : Enumerates(f, d, times, requests)
  BY DEF Timed
<1>2. n \in Nat /\ Len(more) = n + 1 /\ more[n + 1] = now
      /\ \A i \in 1..n : more[i] = times[i]
  BY SeqFacts, AppendProperties
<1> DEFINE g == [i \in 1..Len(more) |-> IF i = n + 1 THEN r ELSE f[i]]
<1> HIDE DEF more
<1>3. /\ \A i \in 1..n : f[i] \in requests /\ d[f[i]].at = times[i]
      /\ \A i, j \in 1..n : f[i] = f[j] => i = j
      /\ \A q \in requests : \E i \in 1..n : f[i] = q
  BY <1>1 DEF Enumerates
<1> HIDE DEF n
<1>4. /\ \A i \in 1..n : g[i] = f[i] /\ i \in 1..Len(more)
      /\ g[n + 1] = r /\ n + 1 \in 1..Len(more)
      /\ \A i \in 1..Len(more) : i \in 1..n \/ i = n + 1
  BY <1>2
<1>5. g \in [1..Len(more) -> requests \cup {r}]
  BY <1>3, <1>4
<1>6. \A i, j \in 1..Len(more) : g[i] = g[j] => i = j
  BY <1>3, <1>4
<1>7. \A q \in requests \cup {r} : \E i \in 1..Len(more) : g[i] = q
  BY <1>3, <1>4
<1>8. \A i \in 1..Len(more) : d[g[i]].at = more[i]
  BY <1>2, <1>3, <1>4
<1> HIDE DEF g
<1>9. Timed(d, more, requests \cup {r})
  BY <1>5, <1>6, <1>7, <1>8 DEF Timed, Enumerates
<1> QED
  BY <1>9 DEF more

\* What Recent drops is the expired part of a window, and that alone.
RecentFrom(times, k) ==
    /\ k \in 0..Len(times)
    /\ Recent(times) \in Seq(Nat) /\ Len(Recent(times)) = Len(times) - k
    /\ \A i \in 1..Len(Recent(times)) : Recent(times)[i] = times[k + i]
    /\ \A i \in 1..k : times[i] <= rlNow - Window
    /\ \A i \in (k + 1)..Len(times) : times[i] > rlNow - Window

LEMMA RecentFacts ==
    ASSUME NEW times \in Seq(Nat), Sorted(times), rlNow \in Nat
    PROVE  \E k \in 0..Len(times) : RecentFrom(times, k)
<1> DEFINE cutoff == rlNow - Window
           n == Len(times)
           Leads(i) == /\ \A j \in 1..(i - 1) : times[j] <= cutoff
                       /\ i <= n => times[i] > cutoff
           first == CHOOSE i \in 1..(n + 1) : Leads(i)
<1>1. n \in Nat /\ cutoff \in Int /\ \A i \in 1..n : times[i] \in Nat
  BY SeqFacts, LimiterAssumption
<1>2. Recent(times) = SubSeq(times, first, n)
  BY DEF Recent
<1> HIDE DEF cutoff
<1>3. \E i \in 1..(n + 1) : Leads(i)
  <2> DEFINE live == {i \in 1..n : times[i] > cutoff} \cup {n + 1}
  <2>1. live \in SUBSET Nat /\ live # {}
    BY <1>1
  <2>2. PICK i \in live : \A j \in live : i <= j
    <3> HIDE DEF live
    <3> QED BY <2>1, LeastNumber
  <2>3. i \in 1..(n + 1)
    BY <1>1
  <2>4. ASSUME NEW j \in 1..(i - 1) PROVE times[j] <= cutoff
    <3>1. j \in 1..n /\ j \notin live
      BY <1>1, <2>2, <2>3
    <3> QED BY <1>1, <3>1
  <2>5. i <= n => times[i] > cutoff
    BY <1>1, <2>3
  <2> QED BY <2>3, <2>4, <2>5
<1>4. first \in 1..(n + 1) /\ Leads(first)
  <2> HIDE DEF Leads, n
  <2> QED BY <1>3
<1> DEFINE k == first - 1
<1> HIDE DEF first
<1>5. k \in 0..n /\ first = k + 1
  BY <1>1, <1>4
<1>6. \A i \in 1..k : times[i] <= cutoff
  BY <1>4
<1>7. ASSUME NEW i \in (k + 1)..n PROVE times[i] > cutoff
  <2>1. first \in 1..n /\ i \in 1..n /\ first <= i
    BY <1>1, <1>5
  <2>2. times[first] > cutoff
    BY <1>4, <2>1
  <2>3. times[first] <= times[i]
    BY <1>1, <2>1 DEF Sorted
  <2> QED BY <1>1, <2>1, <2>2, <2>3
<1>8. /\ Recent(times) \in Seq(Nat) /\ Len(Recent(times)) = n - k
      /\ \A i \in 1..(n - k) : Recent(times)[i] = times[k + i]
  <2>1. first \in Int /\ n \in Int /\ \A i \in first..n : times[i] \in Nat
    BY <1>1, <1>5
  <2> HIDE DEF n
  <2>2. /\ SubSeq(times, first, n) \in Seq(Nat)
        /\ Len(SubSeq(times, first, n)) = IF first <= n THEN n - first + 1 ELSE 0
        /\ \A i \in 1..(n - first + 1) : SubSeq(times, first, n)[i] = times[first + i - 1]
    BY <2>1, SubSeqProperties
  <2>3. n - first + 1 = n - k /\ (IF first <= n THEN n - first + 1 ELSE 0) = n - k
        /\ \A i \in 1..(n - k) : first + i - 1 = k + i
    BY <1>1, <1>5
  <2> QED
    BY <1>2, <2>2, <2>3
<1> HIDE DEF k
<1>9. RecentFrom(times, k)
  BY <1>5, <1>6, <1>7, <1>8 DEF RecentFrom, cutoff
<1> QED
  BY <1>5, <1>9

\* The times that remain stand for the requests that remain.
LEMMA TimedRecent ==
    ASSUME NEW d, NEW times \in Seq(Nat), NEW requests, Timed(d, times, requests),
           Sorted(times), rlNow \in Nat
    PROVE  Timed(d, Recent(times), {r \in requests : d[r].at > rlNow - Window})
<1> DEFINE recent == Recent(times)
           remain == {r \in requests : d[r].at > rlNow - Window}
<1>1. PICK k \in 0..Len(times) : RecentFrom(times, k)
  BY RecentFacts
<1>2. PICK f \in [1..Len(times) -> requests] : Enumerates(f, d, times, requests)
  BY DEF Timed
<1>3. Len(times) \in Nat /\ k \in Nat /\ k <= Len(times) /\ rlNow - Window \in Int
      /\ \A i \in 1..Len(times) : times[i] \in Nat
  BY SeqFacts, LimiterAssumption
<1>4. /\ Len(recent) = Len(times) - k
      /\ \A i \in 1..Len(recent) : recent[i] = times[k + i]
      /\ \A i \in 1..k : times[i] <= rlNow - Window
      /\ \A i \in (k + 1)..Len(times) : times[i] > rlNow - Window
  BY <1>1 DEF RecentFrom
<1> DEFINE g == [i \in 1..Len(recent) |-> f[k + i]]
<1> HIDE DEF recent
<1>5. \A i \in 1..Len(recent) : k + i \in 1..Len(times) /\ k + i \in (k + 1)..Len(times)
  BY <1>3, <1>4
<1>6. /\ \A i \in 1..Len(times) : f[i] \in requests /\ d[f[i]].at = times[i]
      /\ \A i, j \in 1..Len(times) : f[i] = f[j] => i = j
      /\ \A q \in requests : \E i \in 1..Len(times) : f[i] = q
  BY <1>2 DEF Enumerates
<1>7. \A i \in 1..Len(recent) : g[i] = f[k + i] /\ g[i] \in remain /\ d[g[i]].at = recent[i]
  BY <1>4, <1>5, <1>6
<1>8. g \in [1..Len(recent) -> remain]
  BY <1>7
<1>9. ASSUME NEW i \in 1..Len(recent), NEW j \in 1..Len(recent), g[i] = g[j]
      PROVE  i = j
  <2>1. k + i = k + j
    BY <1>5, <1>6, <1>7, <1>9
  <2> QED BY <1>3, <1>4, <2>1
<1>10. ASSUME NEW q \in remain
       PROVE  \E i \in 1..Len(recent) : g[i] = q
  <2>1. PICK i \in 1..Len(times) : f[i] = q
    BY <1>6
  <2>2. times[i] > rlNow - Window
    BY <1>6, <2>1
  <2>3. ~(i <= k)
    BY <1>3, <1>4, <2>2
  <2>4. i - k \in 1..Len(recent) /\ k + (i - k) = i
    BY <1>3, <1>4, <2>3
  <2> QED BY <1>7, <2>1, <2>4
<1> HIDE DEF g, remain
<1>11. Timed(d, recent, remain)
  BY <1>7, <1>8, <1>9, <1>10 DEF Timed, Enumerates
<1> QED
  BY <1>11 DEF recent, remain

LEMMA RecentSorted ==
    ASSUME NEW times \in Seq(Nat), Sorted(times), rlNow \in Nat
    PROVE  /\ Recent(times) \in Seq(Nat) /\ Sorted(Recent(times))
           /\ \A i \in 1..Len(Recent(times)) : Recent(times)[i] > rlNow - Window
<1>1. PICK k \in 0..Len(times) : RecentFrom(times, k)
  BY RecentFacts
<1> DEFINE recent == Recent(times)
<1>2. Len(times) \in Nat /\ k \in Nat /\ k <= Len(times)
  BY SeqFacts
<1>3. /\ recent \in Seq(Nat) /\ Len(recent) = Len(times) - k
      /\ \A i \in 1..Len(recent) : recent[i] = times[k + i]
      /\ \A i \in (k + 1)..Len(times) : times[i] > rlNow - Window
  BY <1>1 DEF RecentFrom
<1> HIDE DEF recent
<1>4. \A i \in 1..Len(recent) : k + i \in 1..Len(times) /\ k + i \in (k + 1)..Len(times)
  BY <1>2, <1>3
<1>5. \A i, j \in 1..Len(recent) : i < j => k + i < k + j
  BY <1>2
<1>6. Sorted(recent)
  BY <1>3, <1>4, <1>5 DEF Sorted
<1>7. \A i \in 1..Len(recent) : recent[i] > rlNow - Window
  BY <1>3, <1>4
<1> QED
  BY <1>3, <1>6, <1>7 DEF recent

-----------------------------------------------------------------------------
(* Room in the table                                                        *)

LEMMA WindowFacts ==
    ASSUME TypeInv, Windows, NEW s \in DOMAIN rlTable
    PROVE  /\ rlTable[s].times \in Seq(Nat) /\ rlTable[s].seen \in Nat
           /\ Len(rlTable[s].times) \in Nat /\ Len(rlTable[s].times) > 0
           /\ \A i \in 1..Len(rlTable[s].times) : rlTable[s].times[i] \in Nat
           /\ WindowExact(s)
<1>1. rlTable[s].times \in Seq(Nat) /\ rlTable[s].seen \in Nat /\ WindowExact(s)
  BY DEF TypeInv, Windows
<1> QED
  BY <1>1, SeqFacts DEF WindowExact

\* The newest time of a window is that of a request of its client, and no
\* allowed one that it stands for came later.
LEMMA NewestFacts ==
    ASSUME TypeInv, Windows, NEW s \in DOMAIN rlTable
    PROVE  /\ Newest(rlTable[s]) \in Nat
           /\ \E i \in DOMAIN rlDecisions : /\ rlDecisions[i].source = s
                                            /\ rlDecisions[i].at = Newest(rlTable[s])
           /\ \A i \in Counts(rlDecisions, s, rlTable[s].seen - Window) :
                rlDecisions[i].at <= Newest(rlTable[s])
<1> DEFINE times == rlTable[s].times
           n == Len(times)
           requests == Counts(rlDecisions, s, rlTable[s].seen - Window)
<1>1. /\ times \in Seq(Nat) /\ rlTable[s].seen \in Nat /\ n \in Nat /\ n > 0
      /\ \A i \in 1..n : times[i] \in Nat
      /\ WindowExact(s)
  BY WindowFacts
<1>2. requests \subseteq DOMAIN rlDecisions
      /\ \A i \in requests : rlDecisions[i].source = s
  BY DEF Counts
<1>3. CASE rlKind = "api"
  <2>1. Newest(rlTable[s]) = times[n]
    BY <1>3 DEF Newest, Last
  <2>2. PICK f \in [1..n -> requests] : Enumerates(f, rlDecisions, times, requests)
    BY <1>1 DEF WindowExact, Timed
  <2>3. n \in 1..n /\ f[n] \in requests /\ rlDecisions[f[n]].at = times[n]
    BY <1>1, <2>2 DEF Enumerates
  <2>4. Sorted(times)
    BY <1>1 DEF WindowExact
  <2> HIDE DEF requests, times
  <2>5. ASSUME NEW i \in requests PROVE rlDecisions[i].at <= times[n]
    <3>1. PICK k \in 1..n : f[k] = i
      BY <2>2 DEF Enumerates, n
    <3>2. rlDecisions[i].at = times[k]
      BY <2>2, <3>1 DEF Enumerates, n
    <3>3. k < n => times[k] <= times[n]
      BY <1>1, <2>4 DEF Sorted, n
    <3> QED
      BY <1>1, <3>1, <3>2, <3>3
  <2> QED
    BY <1>1, <1>2, <2>1, <2>3, <2>5 DEF requests
<1>4. CASE rlKind # "api"
  <2>1. Newest(rlTable[s]) = rlTable[s].seen
    BY <1>4 DEF Newest
  <2>2. \A i \in requests : rlDecisions[i].at <= rlTable[s].seen
    BY <1>1, <1>2 DEF WindowExact
  <2> QED
    BY <1>1, <2>1, <2>2 DEF WindowExact
<1> QED
  BY <1>3, <1>4

LEMMA TimeFacts ==
    ASSUME TypeInv
    PROVE  /\ rlNow \in Nat /\ Window \in Nat /\ Window > 0
           /\ \A i \in DOMAIN rlDecisions : rlDecisions[i].at \in Nat
<1>1. \A i \in DOMAIN rlDecisions : rlDecisions[i] \in Decision
  BY SeqFacts DEF TypeInv
<1>2. \A i \in DOMAIN rlDecisions : rlDecisions[i].at \in Nat
  BY <1>1 DEF Decision
<1> QED
  BY <1>2, LimiterAssumption DEF TypeInv

\* A window that has expired charges its client nothing.
LEMMA ExpiredEmpty ==
    ASSUME TypeInv, Windows, NEW s \in Expired(rlTable)
    PROVE  Counts(rlDecisions, s, rlNow - Window) = {}
<1>1. s \in DOMAIN rlTable /\ Newest(rlTable[s]) <= rlNow - Window
  BY DEF Expired
<1>2. /\ rlTable[s].seen \in Nat /\ rlTable[s].seen <= rlNow /\ rlNow \in Nat
      /\ Window \in Nat
  <2>1. rlTable[s].seen \in Nat /\ WindowExact(s)
    BY <1>1, WindowFacts
  <2>2. rlTable[s].seen <= rlNow
    BY <2>1 DEF WindowExact
  <2> QED
    BY <2>1, <2>2, LimiterAssumption DEF TypeInv
<1>3. \A i \in DOMAIN rlDecisions : rlDecisions[i].at \in Nat
  BY TimeFacts
<1>4. SUFFICES ASSUME NEW i \in Counts(rlDecisions, s, rlNow - Window) PROVE FALSE
  OBVIOUS
<1>5. i \in DOMAIN rlDecisions /\ rlDecisions[i].at > rlNow - Window
  BY <1>4 DEF Counts
<1>6. rlDecisions[i].at > rlTable[s].seen - Window
  BY <1>2, <1>3, <1>5
<1>7. i \in Counts(rlDecisions, s, rlTable[s].seen - Window)
  BY <1>4, <1>6 DEF Counts
<1>8. rlDecisions[i].at <= Newest(rlTable[s]) /\ Newest(rlTable[s]) \in Nat
  BY <1>1, <1>7, NewestFacts
<1> QED
  BY <1>1, <1>2, <1>3, <1>5, <1>8

\* The clients that remain keep their windows; of the others, one at most was
\* not expired, and then the table was full of clients that were not.
RoomFor(table, victim) ==
    /\ DOMAIN table \subseteq DOMAIN rlTable
    /\ \A s \in DOMAIN table : table[s] = rlTable[s]
    /\ \A s \in DOMAIN rlTable \ DOMAIN table : s \in Expired(rlTable) \/ s = victim
    /\ \/ victim = Nobody
       \/ /\ victim \in DOMAIN rlTable \ DOMAIN table
          /\ Cardinality(DOMAIN rlTable \ Expired(rlTable)) >= MaxKeys

LEMMA RoomMade ==
    ASSUME TypeInv, NEW room \in MakeRoom(rlTable)
    PROVE  RoomFor(room[1], room[2])
<1> DEFINE live == Without(rlTable, Expired(rlTable))
<1>1. /\ DOMAIN live = DOMAIN rlTable \ Expired(rlTable)
      /\ \A s \in DOMAIN live : live[s] = rlTable[s]
  BY DEF Without
<1>2. Cardinality(DOMAIN live) \in Nat /\ MaxKeys \in Nat
  <2>1. DOMAIN live \in SUBSET Sources /\ IsFiniteSet(Sources)
    BY <1>1, LimiterAssumption DEF TypeInv
  <2> QED
    BY <2>1, FS_Subset, FS_CardinalityType, LimiterAssumption
<1>3. \/ room = <<rlTable, Nobody>>
      \/ room = <<live, Nobody>>
      \/ /\ ~(Cardinality(DOMAIN live) < MaxKeys)
         /\ \E s \in Oldest(live) : room = <<Without(live, {s}), s>>
  BY DEF MakeRoom
<1> HIDE DEF live
<1>4. CASE room = <<rlTable, Nobody>>
  BY <1>4 DEF RoomFor
<1>5. CASE room = <<live, Nobody>>
  BY <1>1, <1>5 DEF RoomFor
<1>6. CASE /\ ~(Cardinality(DOMAIN live) < MaxKeys)
           /\ \E s \in Oldest(live) : room = <<Without(live, {s}), s>>
  <2>1. PICK s \in Oldest(live) : room = <<Without(live, {s}), s>>
    BY <1>6
  <2> DEFINE rest == Without(live, {s})
  <2>2. s \in DOMAIN live /\ DOMAIN rest = DOMAIN live \ {s}
        /\ \A t \in DOMAIN rest : rest[t] = live[t]
    BY DEF Oldest, Without
  <2>3. Cardinality(DOMAIN rlTable \ Expired(rlTable)) >= MaxKeys
    BY <1>1, <1>2, <1>6
  <2>4. room[1] = rest /\ room[2] = s
    BY <2>1
  <2> HIDE DEF rest
  <2> QED
    BY <1>1, <2>2, <2>3, <2>4 DEF RoomFor
<1> QED
  BY <1>3, <1>4, <1>5, <1>6

-----------------------------------------------------------------------------
(* One more decision                                                        *)

LEMMA DecisionAdded ==
    ASSUME NEW d \in Seq(Decision), NEW row \in Decision
    PROVE  LET new == Append(d, row)
               n == Len(d)
           IN  /\ new \in Seq(Decision) /\ Len(new) = n + 1 /\ n \in Nat
               /\ DOMAIN d = 1..n /\ DOMAIN new = 1..(n + 1)
               /\ \A i \in 1..n : new[i] = d[i]
               /\ new[n + 1] = row
<1>1. /\ Append(d, row) \in Seq(Decision) /\ Len(Append(d, row)) = Len(d) + 1
      /\ \A i \in 1..Len(d) : Append(d, row)[i] = d[i]
      /\ Append(d, row)[Len(d) + 1] = row
  BY AppendProperties
<1> QED
  BY <1>1, SeqFacts

Extends(d, new, n) ==
    DOMAIN d = 1..n /\ DOMAIN new = 1..(n + 1) /\ \A i \in 1..n : new[i] = d[i]

\* What a decision adds to what its source is charged with, and to no other.
LEMMA CountsAdded ==
    ASSUME NEW d, NEW new, NEW n \in Nat, NEW source, NEW victim, NEW since, source # victim,
           Extends(d, new, n), new[n + 1].source = source, new[n + 1].evicted = victim
    PROVE  /\ \A i : i \in Counts(new, source, since) <=>
                     \/ i \in Counts(d, source, since)
                     \/ i = n + 1 /\ new[n + 1].allowed /\ new[n + 1].at > since
           /\ \A s, x : s # source /\ s # victim => Counts(new, s, x) = Counts(d, s, x)
           /\ \A x : Counts(new, victim, x) = {}
<1> USE DEF Extends
<1>1. 1..(n + 1) = (1..n) \cup {n + 1} /\ \A i \in 1..n : i < n + 1 /\ ~(n + 1 < i)
  OBVIOUS
<1>2. \A i : i \in Counts(new, source, since) <=>
               \/ i \in Counts(d, source, since)
               \/ i = n + 1 /\ new[n + 1].allowed /\ new[n + 1].at > since
  BY <1>1 DEF Counts
<1>3. ASSUME NEW s, NEW x, s # source, s # victim
      PROVE  Counts(new, s, x) = Counts(d, s, x)
  BY <1>1, <1>3 DEF Counts
<1>4. ASSUME NEW x PROVE Counts(new, victim, x) = {}
  BY <1>1 DEF Counts
<1> QED
  BY <1>2, <1>3, <1>4

LiveBefore(n) ==
    {s \in Sources : \E i \in 1..(n - 1) : /\ rlDecisions[i].source = s
                                           /\ rlDecisions[i].at > rlDecisions[n].at - Window}

\* What LimitExact says of one decision.
Exact(n) ==
    LET d == rlDecisions[n]
    IN  /\ d.allowed <=> Cardinality(Charged(n)) < Limit
        /\ ~d.allowed => \E i \in Charged(n) : rlDecisions[i].at + Window <= d.resets
        /\ d.evicted # Nobody => Cardinality(LiveBefore(n) \ {d.source}) >= MaxKeys

LEMMA ExactEach == LimitExact <=> \A n \in DOMAIN rlDecisions : Exact(n)
BY DEF LimitExact, Exact, LiveBefore

LEMMA ExactStays ==
    ASSUME NEW m \in Nat, NEW n \in 1..m, \A i \in 1..m : rlDecisions'[i] = rlDecisions[i],
           Exact(n)
    PROVE  Exact(n)'
<1>1. 1..n \subseteq 1..m /\ 1..(n - 1) \subseteq 1..m
  OBVIOUS
<1>2. Charged(n)' = Charged(n)
  BY <1>1 DEF Charged
<1>3. LiveBefore(n)' = LiveBefore(n)
  BY <1>1 DEF LiveBefore
<1>4. \A i \in Charged(n) : rlDecisions'[i] = rlDecisions[i]
  BY <1>1 DEF Charged
<1> QED
  BY <1>2, <1>3, <1>4 DEF Exact

\* What is left of the window of the source is what it is charged with.
LEMMA SourceCharged ==
    ASSUME TypeInv, Windows, NEW source \in Sources, NEW table, NEW victim,
           RoomFor(table, victim),
           source \in DOMAIN rlTable => source \in DOMAIN table,
           NEW recent, recent = IF source \in DOMAIN table THEN Recent(table[source].times)
                                ELSE <<>>
    PROVE  /\ recent \in Seq(Nat) /\ Sorted(recent)
           /\ \A i \in 1..Len(recent) : recent[i] > rlNow - Window
           /\ Timed(rlDecisions, recent, Counts(rlDecisions, source, rlNow - Window))
<1>1. CASE source \in DOMAIN table
  <2> DEFINE times == rlTable[source].times
             requests == Counts(rlDecisions, source, rlTable[source].seen - Window)
  <2>1. source \in DOMAIN rlTable /\ recent = Recent(times)
    BY <1>1 DEF RoomFor
  <2>2. times \in Seq(Nat) /\ rlTable[source].seen \in Nat /\ WindowExact(source)
    BY <2>1, WindowFacts
  <2>3. /\ Sorted(times) /\ Timed(rlDecisions, times, requests)
        /\ rlTable[source].seen <= rlNow
    BY <2>2 DEF WindowExact
  <2>4. rlNow \in Nat /\ Window \in Nat /\ \A i \in DOMAIN rlDecisions : rlDecisions[i].at \in Nat
    BY TimeFacts
  <2>5. {r \in requests : rlDecisions[r].at > rlNow - Window}
          = Counts(rlDecisions, source, rlNow - Window)
    <3>1. \A i \in DOMAIN rlDecisions :
            rlDecisions[i].at > rlNow - Window =>
              rlDecisions[i].at > rlTable[source].seen - Window
      BY <2>2, <2>3, <2>4
    <3> QED
      BY <3>1 DEF Counts
  <2> HIDE DEF times, requests
  <2>6. Timed(rlDecisions, Recent(times), {r \in requests : rlDecisions[r].at > rlNow - Window})
    BY <2>2, <2>3, <2>4, TimedRecent
  <2>7. /\ Recent(times) \in Seq(Nat) /\ Sorted(Recent(times))
        /\ \A i \in 1..Len(Recent(times)) : Recent(times)[i] > rlNow - Window
    BY <2>2, <2>3, <2>4, RecentSorted
  <2> QED
    BY <2>1, <2>5, <2>6, <2>7
<1>2. CASE source \notin DOMAIN table
  <2>1. recent = <<>> /\ Counts(rlDecisions, source, rlNow - Window) = {}
    BY <1>2 DEF Windows
  <2>2. recent \in Seq(Nat) /\ Len(recent) = 0 /\ 1..Len(recent) = {}
    <3>1. recent \in Seq(Nat) /\ Len(recent) = 0
      BY <2>1, EmptySeq, Zenon
    <3>2. 1..0 = {}
      OBVIOUS
    <3> QED
      BY <3>1, <3>2, Zenon
  <2>3. Timed(rlDecisions, recent, {})
    <3> DEFINE f == [i \in 1..Len(recent) |-> 0]
    <3>1. f \in [1..Len(recent) -> {}]
      BY <2>2
    <3> QED
      BY <2>2, <3>1 DEF Timed, Enumerates
  <2> QED
    BY <2>1, <2>2, <2>3 DEF Sorted
<1> QED
  BY <1>1, <1>2

\* The clients whose windows are live were all seen within the window.
LEMMA VictimsReason ==
    ASSUME TypeInv, Windows, NEW source \in Sources \ DOMAIN rlTable,
           Cardinality(DOMAIN rlTable \ Expired(rlTable)) >= MaxKeys,
           NEW live \in SUBSET Sources,
           \A s \in Sources : (\E i \in DOMAIN rlDecisions :
                                 /\ rlDecisions[i].source = s
                                 /\ rlDecisions[i].at > rlNow - Window) => s \in live
    PROVE  Cardinality(live \ {source}) >= MaxKeys
<1> DEFINE kept == DOMAIN rlTable \ Expired(rlTable)
           others == live \ {source}
<1>1. ASSUME NEW s \in kept PROVE s \in others
  <2>1. s \in DOMAIN rlTable /\ s \in Sources /\ s # source
    BY DEF TypeInv
  <2>2. ~(Newest(rlTable[s]) <= rlNow - Window)
    BY <2>1 DEF Expired
  <2>3. Newest(rlTable[s]) \in Nat
        /\ \E i \in DOMAIN rlDecisions : /\ rlDecisions[i].source = s
                                         /\ rlDecisions[i].at = Newest(rlTable[s])
    BY <2>1, NewestFacts
  <2>4. Newest(rlTable[s]) > rlNow - Window
    BY <2>2, <2>3, LimiterAssumption DEF TypeInv
  <2> QED
    BY <2>1, <2>3, <2>4
<1>2. IsFiniteSet(others)
  <2>1. others \in SUBSET Sources /\ IsFiniteSet(Sources)
    BY LimiterAssumption
  <2> HIDE DEF others
  <2> QED
    BY <2>1, FS_Subset
<1>3. Cardinality(kept) >= MaxKeys /\ MaxKeys \in Nat
  BY LimiterAssumption
<1> HIDE DEF kept, others
<1>4. kept \in SUBSET others
  BY <1>1
<1>5. IsFiniteSet(kept) /\ Cardinality(kept) <= Cardinality(others)
  BY <1>2, <1>4, FS_Subset
<1>6. Cardinality(kept) \in Nat /\ Cardinality(others) \in Nat
  BY <1>2, <1>5, FS_CardinalityType
<1>7. Cardinality(others) >= MaxKeys
  BY <1>3, <1>5, <1>6
<1> QED
  BY <1>7 DEF others

LEMMA ResetFacts ==
    ASSUME NEW first \in Nat, rlNow \in Nat, first > rlNow - Window, NEW times, times[1] = first
    PROVE  ResetAfter(times) \in Int /\ rlNow + ResetAfter(times) = first + Window
BY LimiterAssumption DEF ResetAfter

-----------------------------------------------------------------------------
(* Consume                                                                  *)

\* What a request does, once room is made and its recent times are known.
Decides(source, table, victim, recent, allowed, times, row) ==
    /\ times = IF allowed THEN Append(recent, rlNow) ELSE recent
    /\ row = [source |-> source, at |-> rlNow, allowed |-> allowed,
              evicted |-> victim, resets |-> rlNow + ResetAfter(times)]
    /\ rlTable' = [s \in DOMAIN table \cup {source} |->
                     IF s = source THEN [times |-> times, seen |-> rlNow] ELSE table[s]]
    /\ rlDecisions' = Append(rlDecisions, row)
    /\ rlKind' = rlKind /\ rlNow' = rlNow

LEMMA ConsumeDecides ==
    ASSUME TypeInv, NEW source \in Sources, Consume(source)
    PROVE  \E table, victim, recent, times, row : \E allowed \in BOOLEAN :
             /\ RoomFor(table, victim)
             /\ victim # source
             /\ source \in DOMAIN rlTable => source \in DOMAIN table
             /\ victim = Nobody \/ source \notin DOMAIN rlTable
             /\ recent = IF source \in DOMAIN table THEN Recent(table[source].times) ELSE <<>>
             /\ allowed <=> Len(recent) < Limit
             /\ Decides(source, table, victim, recent, allowed, times, row)
<1> DEFINE Rooms == IF source \in DOMAIN rlTable THEN {<<rlTable, Nobody>>}
                    ELSE MakeRoom(rlTable)
           Left(table) == IF source \in DOMAIN table THEN Recent(table[source].times)
                          ELSE <<>>
           Fits(table) == Len(Left(table)) < Limit
           Times(table) == IF Fits(table) THEN Append(Left(table), rlNow) ELSE Left(table)
           Row(table, victim) ==
             [source |-> source, at |-> rlNow, allowed |-> Fits(table),
              evicted |-> victim, resets |-> rlNow + ResetAfter(Times(table))]
<1>1. PICK room \in Rooms :
        /\ rlTable' = [s \in DOMAIN room[1] \cup {source} |->
                         IF s = source THEN [times |-> Times(room[1]), seen |-> rlNow]
                         ELSE room[1][s]]
        /\ rlDecisions' = Append(rlDecisions, Row(room[1], room[2]))
  BY DEF Consume
<1>2. rlKind' = rlKind /\ rlNow' = rlNow
  BY DEF Consume
<1> DEFINE table == room[1]
           victim == room[2]
<1>3. /\ RoomFor(table, victim)
      /\ source \in DOMAIN rlTable => source \in DOMAIN table
      /\ victim = Nobody \/ source \notin DOMAIN rlTable
  <2>1. CASE source \in DOMAIN rlTable
    <3>1. table = rlTable /\ victim = Nobody
      BY <2>1
    <3> QED
      BY <3>1 DEF RoomFor
  <2>2. CASE source \notin DOMAIN rlTable
    BY <2>2, RoomMade
  <2> QED
    BY <2>1, <2>2
<1>4. victim # source
  BY <1>3, LimiterAssumption DEF RoomFor, Nobody
<1> DEFINE allowed == Fits(table)
<1>5. allowed \in BOOLEAN /\ (allowed <=> Len(Left(table)) < Limit)
  OBVIOUS
<1>6. Decides(source, table, victim, Left(table), allowed, Times(table), Row(table, victim))
  <2>1. Times(table) = IF allowed THEN Append(Left(table), rlNow) ELSE Left(table)
    OBVIOUS
  <2>2. Row(table, victim) = [source |-> source, at |-> rlNow, allowed |-> allowed,
                              evicted |-> victim, resets |-> rlNow + ResetAfter(Times(table))]
    OBVIOUS
  <2> HIDE DEF Times, Row, Left, Fits, table, victim, allowed
  <2> QED
    BY <1>1, <1>2, <2>1, <2>2 DEF Decides, table, victim
<1> DEFINE recent == Left(table)
           times == Times(table)
           row == Row(table, victim)
<1>7. recent = IF source \in DOMAIN table THEN Recent(table[source].times) ELSE <<>>
  OBVIOUS
<1>8. /\ RoomFor(table, victim)
      /\ victim # source
      /\ source \in DOMAIN rlTable => source \in DOMAIN table
      /\ victim = Nobody \/ source \notin DOMAIN rlTable
      /\ recent = IF source \in DOMAIN table THEN Recent(table[source].times) ELSE <<>>
      /\ allowed <=> Len(recent) < Limit
      /\ Decides(source, table, victim, recent, allowed, times, row)
  BY <1>3, <1>4, <1>5, <1>6, <1>7
<1>9. allowed \in BOOLEAN
  BY <1>5
<1> HIDE DEF table, victim, allowed, recent, times, row
<1> QED
  BY <1>8, <1>9, Zenon

\* A request that was decided, and what is known of it.
LEMMA DecisionTyped ==
    ASSUME TypeInv, NEW source \in Sources, NEW table, NEW victim, RoomFor(table, victim),
           NEW recent \in Seq(Nat), NEW allowed \in BOOLEAN, allowed <=> Len(recent) < Limit,
           \A i \in 1..Len(recent) : recent[i] > rlNow - Window,
           NEW times, NEW row, Decides(source, table, victim, recent, allowed, times, row)
    PROVE  /\ times \in Seq(Nat) /\ Len(times) > 0
           /\ times[1] \in Nat /\ times[1] > rlNow - Window
           /\ row \in Decision
           /\ row.source = source /\ row.at = rlNow /\ row.evicted = victim
           /\ row.allowed = allowed /\ row.resets = times[1] + Window
<1>1. /\ rlNow \in Nat /\ Window \in Nat /\ Window > 0 /\ Limit \in Nat /\ Limit > 0
      /\ Len(recent) \in Nat /\ \A i \in 1..Len(recent) : recent[i] \in Nat
  BY TimeFacts, LimiterAssumption, SeqFacts
<1>2. /\ times \in Seq(Nat) /\ Len(times) > 0
      /\ times[1] \in Nat /\ times[1] > rlNow - Window
  <2>1. CASE allowed
    <3>1. times = Append(recent, rlNow)
      BY <2>1 DEF Decides
    <3>2. /\ times \in Seq(Nat) /\ Len(times) = Len(recent) + 1
          /\ \A i \in 1..Len(recent) : times[i] = recent[i]
          /\ times[Len(recent) + 1] = rlNow
      BY <1>1, <3>1, AppendProperties
    <3>3. CASE Len(recent) = 0
      <4>1. Len(recent) + 1 = 1
        BY <3>3
      <4>2. times[1] = rlNow /\ Len(times) = 1
        BY <3>2, <4>1
      <4> QED
        BY <1>1, <3>2, <4>2
    <3>4. CASE Len(recent) > 0
      <4>1. 1 \in 1..Len(recent)
        BY <1>1, <3>4
      <4>2. times[1] = recent[1]
        BY <3>2, <4>1
      <4> QED
        BY <1>1, <3>2, <4>1, <4>2
    <3> QED
      BY <1>1, <3>3, <3>4
  <2>2. CASE ~allowed
    <3>1. times = recent /\ Len(recent) >= Limit
      BY <1>1, <2>2 DEF Decides
    <3> QED
      BY <1>1, <3>1
  <2> QED
    BY <2>1, <2>2
<1> DEFINE resets == rlNow + ResetAfter(times)
<1>3. resets \in Int /\ resets = times[1] + Window
  <2>1. /\ ResetAfter(times) \in Int
        /\ rlNow + ResetAfter(times) = times[1] + Window
    BY <1>1, <1>2, ResetFacts, Zenon
  <2> QED
    BY <1>1, <1>2, <2>1
<1>4. row = [source |-> source, at |-> rlNow, allowed |-> allowed,
             evicted |-> victim, resets |-> resets]
  BY DEF Decides
<1>5. victim \in Sources \cup {Nobody}
  BY DEF RoomFor, TypeInv
<1> HIDE DEF resets
<1>6. row \in Decision
  BY <1>1, <1>3, <1>4, <1>5, Zenon DEF Decision
<1>7. /\ row.source = source /\ row.at = rlNow /\ row.evicted = victim
      /\ row.allowed = allowed /\ row.resets = resets
  BY <1>4, Zenon
<1> QED
  BY <1>2, <1>3, <1>6, <1>7

\* What a request leaves behind, from what it found.
Outcome(source, table, victim, recent, times, row) ==
    /\ RoomFor(table, victim) /\ victim # source
    /\ source \in DOMAIN rlTable => source \in DOMAIN table
    /\ victim = Nobody \/ source \notin DOMAIN rlTable
    /\ recent \in Seq(Nat) /\ Sorted(recent)
    /\ \A i \in 1..Len(recent) : recent[i] > rlNow - Window
    /\ Timed(rlDecisions, recent, Counts(rlDecisions, source, rlNow - Window))
    /\ times = IF row.allowed THEN Append(recent, rlNow) ELSE recent
    /\ times \in Seq(Nat) /\ Len(times) > 0
    /\ times[1] \in Nat /\ times[1] > rlNow - Window
    /\ row \in Decision /\ row.source = source /\ row.at = rlNow
    /\ row.evicted = victim /\ row.resets = times[1] + Window
    /\ row.allowed <=> Len(recent) < Limit
    /\ rlDecisions' = Append(rlDecisions, row)
    /\ rlKind' = rlKind /\ rlNow' = rlNow
    /\ DOMAIN rlTable' = DOMAIN table \cup {source}
    /\ rlTable'[source].times = times /\ rlTable'[source].seen = rlNow
    /\ \A s \in DOMAIN table : s # source => rlTable'[s] = rlTable[s]

LEMMA ConsumeOutcome ==
    ASSUME TypeInv, Windows, NEW source \in Sources, Consume(source)
    PROVE  \E table, victim, recent, times, row :
             Outcome(source, table, victim, recent, times, row)
<1>1. PICK table, victim, recent, times, row : \E allowed \in BOOLEAN :
        /\ RoomFor(table, victim)
        /\ victim # source
        /\ source \in DOMAIN rlTable => source \in DOMAIN table
        /\ victim = Nobody \/ source \notin DOMAIN rlTable
        /\ recent = IF source \in DOMAIN table THEN Recent(table[source].times) ELSE <<>>
        /\ allowed <=> Len(recent) < Limit
        /\ Decides(source, table, victim, recent, allowed, times, row)
  BY ConsumeDecides
<1>2. PICK allowed \in BOOLEAN :
        /\ allowed <=> Len(recent) < Limit
        /\ Decides(source, table, victim, recent, allowed, times, row)
  BY <1>1
<1>3. RoomFor(table, victim) /\ victim # source
  BY <1>1
<1>4. source \in DOMAIN rlTable => source \in DOMAIN table
  BY <1>1
<1>5. victim = Nobody \/ source \notin DOMAIN rlTable
  BY <1>1
<1>6. recent = IF source \in DOMAIN table THEN Recent(table[source].times) ELSE <<>>
  BY <1>1
<1>7. /\ recent \in Seq(Nat) /\ Sorted(recent)
      /\ \A i \in 1..Len(recent) : recent[i] > rlNow - Window
      /\ Timed(rlDecisions, recent, Counts(rlDecisions, source, rlNow - Window))
  BY <1>3, <1>4, <1>6, SourceCharged
<1>8. allowed <=> Len(recent) < Limit
  BY <1>2
<1>9. Decides(source, table, victim, recent, allowed, times, row)
  BY <1>2
<1>10. /\ times \in Seq(Nat) /\ Len(times) > 0
       /\ times[1] \in Nat /\ times[1] > rlNow - Window
       /\ row \in Decision
       /\ row.source = source /\ row.at = rlNow /\ row.evicted = victim
       /\ row.allowed = allowed /\ row.resets = times[1] + Window
  BY <1>3, <1>7, <1>8, <1>9, DecisionTyped
<1>11. /\ rlDecisions' = Append(rlDecisions, row) /\ rlKind' = rlKind /\ rlNow' = rlNow
       /\ times = IF allowed THEN Append(recent, rlNow) ELSE recent
  BY <1>9 DEF Decides
<1>12. /\ DOMAIN rlTable' = DOMAIN table \cup {source}
       /\ rlTable'[source].times = times /\ rlTable'[source].seen = rlNow
       /\ \A s \in DOMAIN table : s # source => rlTable'[s] = rlTable[s]
  <2>1. rlTable' = [s \in DOMAIN table \cup {source} |->
                      IF s = source THEN [times |-> times, seen |-> rlNow] ELSE table[s]]
    BY <1>9 DEF Decides
  <2>2. \A s \in DOMAIN table : table[s] = rlTable[s]
    BY <1>3 DEF RoomFor
  <2> QED
    BY <2>1, <2>2
<1>13. row.allowed <=> Len(recent) < Limit
  BY <1>8, <1>10, Zenon
<1>14. times = IF row.allowed THEN Append(recent, rlNow) ELSE recent
  BY <1>10, <1>11, Zenon
<1>15. Outcome(source, table, victim, recent, times, row)
  BY <1>3, <1>4, <1>5, <1>7, <1>10, <1>11, <1>12, <1>13, <1>14 DEF Outcome
<1> QED
  BY <1>15

\* The ledger after a request, and what it charges to whom.
LEMMA OutcomeLedger ==
    ASSUME TypeInv, NEW source \in Sources, NEW table, NEW victim, NEW recent, NEW times,
           NEW row, Outcome(source, table, victim, recent, times, row)
    PROVE  LET n == Len(rlDecisions)
               since == rlNow - Window
           IN  /\ rlDecisions' \in Seq(Decision) /\ n \in Nat
               /\ DOMAIN rlDecisions = 1..n /\ DOMAIN rlDecisions' = 1..(n + 1)
               /\ \A i \in 1..n : rlDecisions'[i] = rlDecisions[i]
               /\ rlDecisions'[n + 1] = row
               /\ Counts(rlDecisions', source, since) =
                    Counts(rlDecisions, source, since) \cup {i \in {n + 1} : row.allowed}
               /\ \A s, x : s # source /\ s # victim =>
                    Counts(rlDecisions', s, x) = Counts(rlDecisions, s, x)
               /\ \A x : Counts(rlDecisions', victim, x) = {}
<1> DEFINE n == Len(rlDecisions)
           since == rlNow - Window
<1> PICK new : new = rlDecisions'
  OBVIOUS
<1>1. row \in Decision /\ new = Append(rlDecisions, row) /\ rlDecisions \in Seq(Decision)
  BY DEF Outcome, TypeInv
<1>2. /\ new \in Seq(Decision) /\ n \in Nat
      /\ DOMAIN rlDecisions = 1..n /\ DOMAIN new = 1..(n + 1)
      /\ \A i \in 1..n : new[i] = rlDecisions[i]
      /\ new[n + 1] = row
  BY <1>1, DecisionAdded
<1>3. /\ row.source = source /\ row.evicted = victim /\ row.at = rlNow /\ source # victim
  BY DEF Outcome
<1>4. row.at > since
  BY <1>3, LimiterAssumption DEF TypeInv
<1> HIDE DEF n, since
<1>5. new[n + 1].source = source /\ new[n + 1].evicted = victim
  BY <1>2, <1>3
<1>6. /\ \A i : i \in Counts(new, source, since) <=>
                \/ i \in Counts(rlDecisions, source, since)
                \/ i = n + 1 /\ new[n + 1].allowed /\ new[n + 1].at > since
      /\ \A s, x : s # source /\ s # victim => Counts(new, s, x) = Counts(rlDecisions, s, x)
      /\ \A x : Counts(new, victim, x) = {}
  <2>1. n \in Nat /\ source # victim
    BY <1>2, <1>3
  <2>2. Extends(rlDecisions, new, n)
    BY <1>2 DEF Extends
  <2>3. \A i : i \in Counts(new, source, since) <=>
                \/ i \in Counts(rlDecisions, source, since)
                \/ i = n + 1 /\ new[n + 1].allowed /\ new[n + 1].at > since
    BY <2>1, <2>2, <1>5, CountsAdded
  <2>4. \A s, x : s # source /\ s # victim => Counts(new, s, x) = Counts(rlDecisions, s, x)
    BY <2>1, <2>2, <1>5, CountsAdded
  <2>5. \A x : Counts(new, victim, x) = {}
    BY <2>1, <2>2, <1>5, CountsAdded
  <2> QED
    BY <2>3, <2>4, <2>5
<1>7. Counts(new, source, since)
        = Counts(rlDecisions, source, since) \cup {i \in {n + 1} : row.allowed}
  BY <1>2, <1>4, <1>6
<1> QED
  BY <1>2, <1>6, <1>7 DEF n, since

LEMMA OutcomeTyped ==
    ASSUME TypeInv, NEW source \in Sources, NEW table, NEW victim, NEW recent, NEW times,
           NEW row, Outcome(source, table, victim, recent, times, row)
    PROVE  TypeInv'
<1>1. rlDecisions' \in Seq(Decision)
  BY OutcomeLedger
<1>2. /\ DOMAIN rlTable' = DOMAIN table \cup {source} /\ DOMAIN table \subseteq DOMAIN rlTable
      /\ rlTable'[source].times = times /\ rlTable'[source].seen = rlNow
      /\ \A s \in DOMAIN table : s # source => rlTable'[s] = rlTable[s]
      /\ times \in Seq(Nat) /\ rlKind' = rlKind /\ rlNow' = rlNow
  BY DEF Outcome, RoomFor
<1>3. \A s \in DOMAIN rlTable' : rlTable'[s].times \in Seq(Nat) /\ rlTable'[s].seen \in Nat
  BY <1>2 DEF TypeInv
<1> QED
  BY <1>1, <1>2, <1>3 DEF TypeInv

\* The window of the source stands for what it is charged with now.
LEMMA SourceWindow ==
    ASSUME TypeInv, Windows, NEW source \in Sources, NEW table, NEW victim, NEW recent,
           NEW times, NEW row, Outcome(source, table, victim, recent, times, row)
    PROVE  WindowExact(source)'
<1> DEFINE n == Len(rlDecisions)
           since == rlNow - Window
           charged == Counts(rlDecisions, source, since)
<1> PICK new : new = rlDecisions'
  OBVIOUS
<1>1. /\ n \in Nat /\ DOMAIN rlDecisions = 1..n /\ DOMAIN new = 1..(n + 1)
      /\ \A i \in 1..n : new[i] = rlDecisions[i]
      /\ new[n + 1] = row
      /\ Counts(new, source, since) = charged \cup {i \in {n + 1} : row.allowed}
  BY OutcomeLedger
<1>2. /\ recent \in Seq(Nat) /\ Sorted(recent) /\ Timed(rlDecisions, recent, charged)
      /\ times = IF row.allowed THEN Append(recent, rlNow) ELSE recent
      /\ times \in Seq(Nat) /\ Len(times) > 0
      /\ row.source = source /\ row.at = rlNow
      /\ rlNow' = rlNow /\ rlTable'[source].times = times /\ rlTable'[source].seen = rlNow
  BY DEF Outcome
<1>3. rlNow \in Nat /\ \A i \in 1..n : rlDecisions[i].at <= rlNow
  BY <1>1 DEF TypeInv, Windows
<1>4. charged \subseteq 1..n
  BY <1>1 DEF Counts
<1>5. \A i \in charged : rlDecisions[i].at <= rlNow
  BY <1>3, <1>4
<1> HIDE DEF n, since
<1>6. Timed(new, recent, charged)
  <2>1. \A r \in charged : new[r] = rlDecisions[r]
    BY <1>1, <1>4
  <2> HIDE DEF charged
  <2> QED
    BY <1>2, <2>1, TimedStays
<1>7. Timed(new, times, Counts(new, source, since))
  <2> HIDE DEF charged
  <2>1. CASE row.allowed
    <3>1. n + 1 \notin charged /\ new[n + 1].at = rlNow
      BY <1>1, <1>2, <1>4
    <3>2. Timed(new, Append(recent, rlNow), charged \cup {n + 1})
      BY <1>2, <1>3, <1>6, <3>1, TimedAppend
    <3>3. times = Append(recent, rlNow)
      BY <1>2, <2>1
    <3>4. Counts(new, source, since) = charged \cup {n + 1}
      BY <1>1, <2>1
    <3> QED
      BY <3>2, <3>3, <3>4
  <2>2. CASE ~row.allowed
    <3>1. times = recent
      BY <1>2, <2>2
    <3>2. Counts(new, source, since) = charged
      BY <1>1, <2>2
    <3> QED
      BY <1>6, <3>1, <3>2
  <2> QED
    BY <2>1, <2>2
<1>8. Sorted(times)
  <2>1. \A i \in 1..Len(recent) : recent[i] \in Nat /\ recent[i] <= rlNow
    <3>1. PICK f \in [1..Len(recent) -> charged] : Enumerates(f, rlDecisions, recent, charged)
      BY <1>2 DEF Timed
    <3>2. \A i \in 1..Len(recent) : f[i] \in charged /\ rlDecisions[f[i]].at = recent[i]
      BY <3>1 DEF Enumerates
    <3>3. \A i \in 1..Len(recent) : recent[i] \in Nat
      BY <1>2, SeqFacts
    <3> QED
      BY <1>5, <3>2, <3>3
  <2>2. CASE row.allowed
    <3>1. times = Append(recent, rlNow)
      BY <1>2, <2>2
    <3>2. /\ Len(recent) \in Nat /\ Len(times) = Len(recent) + 1
          /\ \A i \in 1..Len(recent) : times[i] = recent[i]
          /\ times[Len(recent) + 1] = rlNow
      BY <1>2, <1>3, <3>1, SeqFacts, AppendProperties
    <3> DEFINE m == Len(recent)
    <3>3. \A i, j \in 1..m : i < j => recent[i] <= recent[j]
      BY <1>2 DEF Sorted
    <3> HIDE DEF m
    <3>4. SUFFICES ASSUME NEW i \in 1..(m + 1), NEW j \in 1..(m + 1), i < j
                   PROVE  times[i] <= times[j]
      BY <3>2 DEF Sorted, m
    <3>5. i \in 1..m /\ (j \in 1..m \/ j = m + 1)
      BY <3>2, <3>4 DEF m
    <3>6. times[i] = recent[i] /\ recent[i] \in Nat /\ recent[i] <= rlNow
      BY <2>1, <3>2, <3>5 DEF m
    <3>7. CASE j \in 1..m
      BY <3>2, <3>3, <3>4, <3>5, <3>6, <3>7 DEF m
    <3>8. CASE j = m + 1
      BY <3>2, <3>6, <3>8 DEF m
    <3> QED
      BY <3>5, <3>7, <3>8
  <2>3. CASE ~row.allowed
    BY <1>2, <2>3
  <2> QED
    BY <2>2, <2>3
<1>9. /\ n + 1 \in DOMAIN new /\ new[n + 1].source = source /\ new[n + 1].at = rlNow
      /\ \A i \in DOMAIN new : new[i].at <= rlNow
  BY <1>1, <1>2, <1>3
<1> HIDE DEF charged
<1>10. /\ rlTable'[source].seen <= rlNow'
       /\ Len(rlTable'[source].times) > 0 /\ Sorted(rlTable'[source].times)
  BY <1>2, <1>3, <1>8
<1>11. Timed(rlDecisions', rlTable'[source].times,
             Counts(rlDecisions', source, rlTable'[source].seen - Window))
  BY <1>2, <1>7 DEF since
<1> QED
  BY <1>2, <1>9, <1>10, <1>11 DEF WindowExact

\* The other windows stand for what they stood for, and who has none is owed none.
LEMMA OutcomeWindows ==
    ASSUME TypeInv, Windows, NEW source \in Sources, NEW table, NEW victim, NEW recent,
           NEW times, NEW row, Outcome(source, table, victim, recent, times, row)
    PROVE  Windows'
<1> DEFINE n == Len(rlDecisions)
           since == rlNow - Window
<1> PICK new : new = rlDecisions'
  OBVIOUS
<1>1. /\ n \in Nat /\ DOMAIN rlDecisions = 1..n /\ DOMAIN new = 1..(n + 1)
      /\ \A i \in 1..n : new[i] = rlDecisions[i]
      /\ new[n + 1] = row
      /\ \A s, x : s # source /\ s # victim => Counts(new, s, x) = Counts(rlDecisions, s, x)
      /\ \A x : Counts(new, victim, x) = {}
  BY OutcomeLedger
<1>2. /\ DOMAIN rlTable' = DOMAIN table \cup {source}
      /\ \A s \in DOMAIN table : s # source => rlTable'[s] = rlTable[s]
      /\ row.source = source /\ row.at = rlNow /\ rlNow' = rlNow /\ RoomFor(table, victim)
  BY DEF Outcome
<1>3. rlNow \in Nat /\ \A i \in 1..n : rlDecisions[i].at <= rlNow
  BY <1>1 DEF TypeInv, Windows
<1>4. DOMAIN table \subseteq DOMAIN rlTable /\ DOMAIN rlTable \subseteq Sources
  BY <1>2 DEF RoomFor, TypeInv
<1> HIDE DEF n, since
<1>5. \A i \in DOMAIN new : new[i].at <= rlNow
  BY <1>1, <1>2, <1>3
<1>6. ASSUME NEW s \in DOMAIN table, s # source
      PROVE  WindowExact(s)'
  <2>1. s \in DOMAIN rlTable /\ s \in Sources /\ s # victim
    BY <1>2, <1>4, LimiterAssumption DEF RoomFor, Nobody
  <2> DEFINE requests == Counts(rlDecisions, s, rlTable[s].seen - Window)
  <2>2. WindowExact(s)
    BY <2>1 DEF Windows
  <2>3. /\ rlTable[s].seen <= rlNow
        /\ Len(rlTable[s].times) > 0 /\ Sorted(rlTable[s].times)
        /\ Timed(rlDecisions, rlTable[s].times, requests)
        /\ \E i \in 1..n : /\ rlDecisions[i].source = s
                           /\ rlDecisions[i].at = rlTable[s].seen
        /\ \A i \in 1..n : rlDecisions[i].source = s => rlDecisions[i].at <= rlTable[s].seen
    BY <1>1, <2>2 DEF WindowExact
  <2>4. Counts(new, s, rlTable[s].seen - Window) = requests
    BY <1>1, <1>6, <2>1
  <2>5. requests \subseteq 1..n
    BY <1>1 DEF Counts
  <2> HIDE DEF requests
  <2>6. Timed(new, rlTable[s].times, requests)
    <3>1. \A r \in requests : new[r] = rlDecisions[r]
      BY <1>1, <2>5
    <3> QED
      BY <2>3, <3>1, TimedStays
  <2>7. rlTable'[s] = rlTable[s]
    BY <1>2, <1>6
  <2>8. \E i \in DOMAIN new : new[i].source = s /\ new[i].at = rlTable[s].seen
    BY <1>1, <2>3
  <2>9. \A i \in DOMAIN new : new[i].source = s => new[i].at <= rlTable[s].seen
    BY <1>1, <1>2, <1>6, <2>3
  <2>10. Timed(rlDecisions', rlTable'[s].times,
               Counts(rlDecisions', s, rlTable'[s].seen - Window))
    BY <2>4, <2>6, <2>7
  <2> QED
    BY <1>2, <2>3, <2>7, <2>8, <2>9, <2>10 DEF WindowExact
<1>7. ASSUME NEW s \in Sources \ DOMAIN rlTable'
      PROVE  Counts(new, s, since) = {}
  <2>1. s # source /\ s \notin DOMAIN table
    BY <1>2
  <2>2. CASE s = victim
    BY <1>1, <2>2
  <2>3. CASE s # victim
    <3>1. Counts(new, s, since) = Counts(rlDecisions, s, since)
      BY <1>1, <2>1, <2>3
    <3>2. s \notin DOMAIN rlTable \/ s \in Expired(rlTable)
      BY <1>2, <2>1, <2>3 DEF RoomFor
    <3>3. Counts(rlDecisions, s, rlNow - Window) = {}
      BY <3>2, ExpiredEmpty DEF Windows
    <3> QED
      BY <3>1, <3>3 DEF since
  <2> QED
    BY <2>2, <2>3
<1>8. WindowExact(source)'
  BY SourceWindow
<1>9. \A s \in DOMAIN rlTable' : WindowExact(s)'
  BY <1>2, <1>6, <1>8
<1>10. \A s \in Sources \ DOMAIN rlTable' : Counts(rlDecisions', s, rlNow' - Window) = {}
  BY <1>2, <1>7 DEF since
<1>11. \A i \in DOMAIN rlDecisions' : rlDecisions'[i].at <= rlNow'
  BY <1>2, <1>5
<1> QED
  BY <1>9, <1>10, <1>11 DEF Windows

\* The new decision is exact.
LEMMA OutcomeExact ==
    ASSUME TypeInv, Windows, NEW source \in Sources, NEW table, NEW victim, NEW recent,
           NEW times, NEW row, Outcome(source, table, victim, recent, times, row),
           NEW n, n = Len(rlDecisions)
    PROVE  Exact(n + 1)'
<1> DEFINE since == rlNow - Window
           charged == Counts(rlDecisions, source, since)
<1> PICK new : new = rlDecisions'
  OBVIOUS
<1>1. /\ n \in Nat /\ DOMAIN rlDecisions = 1..n
      /\ \A i \in 1..n : new[i] = rlDecisions[i]
      /\ new[n + 1] = row
  BY OutcomeLedger
<1>2. /\ RoomFor(table, victim) /\ victim # source
      /\ recent \in Seq(Nat) /\ Timed(rlDecisions, recent, charged)
      /\ times = IF row.allowed THEN Append(recent, rlNow) ELSE recent
      /\ times \in Seq(Nat) /\ Len(times) > 0 /\ times[1] \in Nat
  BY DEF Outcome
<1>3. /\ row.source = source /\ row.at = rlNow /\ row.evicted = victim
      /\ row.resets = times[1] + Window
      /\ row.allowed <=> Len(recent) < Limit
      /\ victim = Nobody \/ source \notin DOMAIN rlTable
  BY DEF Outcome
<1>4. Charged(n + 1)' = charged
  <2>1. \A j \in 1..(n + 1) : new[j].evicted = source => j \in 1..n
    BY <1>1, <1>2, <1>3
  <2>2. /\ (n + 1) - 1 = n /\ 1..n \subseteq 1..(n + 1)
        /\ new[n + 1].source = source /\ new[n + 1].at = rlNow
    BY <1>1, <1>3
  <2> QED
    BY <1>1, <2>1, <2>2 DEF Charged, Counts
<1>5. Cardinality(charged) = Len(recent)
  <2> HIDE DEF charged
  <2> QED BY <1>2, TimedCount
<1>6. row.allowed <=> Cardinality(charged) < Limit
  BY <1>3, <1>5
<1>7. ASSUME ~row.allowed
      PROVE  \E i \in charged : new[i].at + Window <= row.resets
  <2>1. times = recent /\ Len(recent) \in Nat /\ 1 \in 1..Len(recent)
    BY <1>2, <1>7, SeqFacts
  <2>2. charged \subseteq 1..n
    BY <1>1 DEF Counts
  <2> HIDE DEF charged
  <2>3. PICK f \in [1..Len(recent) -> charged] : Enumerates(f, rlDecisions, recent, charged)
    BY <1>2 DEF Timed
  <2>4. f[1] \in charged /\ rlDecisions[f[1]].at = times[1]
    BY <2>1, <2>3 DEF Enumerates
  <2>5. new[f[1]].at = times[1]
    BY <1>1, <2>2, <2>4
  <2>6. new[f[1]].at + Window <= row.resets
    BY <1>2, <1>3, <2>5, LimiterAssumption
  <2> QED
    BY <2>4, <2>6
<1>8. ASSUME victim # Nobody
      PROVE  Cardinality(LiveBefore(n + 1)' \ {source}) >= MaxKeys
  <2> PICK live : live = LiveBefore(n + 1)'
    OBVIOUS
  <2>1. live = {s \in Sources : \E i \in 1..n : /\ new[i].source = s /\ new[i].at > since}
    BY <1>1, <1>3 DEF LiveBefore
  <2>2. live \in SUBSET Sources
        /\ \A s \in Sources : (\E i \in DOMAIN rlDecisions :
                                 /\ rlDecisions[i].source = s
                                 /\ rlDecisions[i].at > rlNow - Window) => s \in live
    BY <1>1, <2>1
  <2>3. source \in Sources \ DOMAIN rlTable
    BY <1>3, <1>8
  <2>4. Cardinality(DOMAIN rlTable \ Expired(rlTable)) >= MaxKeys
    BY <1>2, <1>8 DEF RoomFor
  <2>5. Cardinality(live \ {source}) >= MaxKeys
    BY <2>2, <2>3, <2>4, VictimsReason
  <2> QED
    BY <2>5
<1> HIDE DEF charged
<1>9. Exact(n + 1)'
  BY <1>1, <1>3, <1>4, <1>6, <1>7, <1>8 DEF Exact
<1> QED
  BY <1>9

LEMMA ConsumeLimited ==
    ASSUME Limited, NEW source \in Sources, Consume(source)
    PROVE  Limited'
<1>1. TypeInv /\ Windows /\ LimitExact
  BY DEF Limited
<1>2. PICK table, victim, recent, times, row :
        Outcome(source, table, victim, recent, times, row)
  BY <1>1, ConsumeOutcome
<1>3. TypeInv' /\ Windows'
  BY <1>1, <1>2, OutcomeTyped, OutcomeWindows
<1> PICK n : n = Len(rlDecisions)
  OBVIOUS
<1>4. /\ n \in Nat /\ DOMAIN rlDecisions = 1..n /\ DOMAIN rlDecisions' = 1..(n + 1)
      /\ \A i \in 1..n : rlDecisions'[i] = rlDecisions[i]
  BY <1>1, <1>2, OutcomeLedger
<1>5. Exact(n + 1)'
  BY <1>1, <1>2, OutcomeExact
<1>6. ASSUME NEW i \in 1..n PROVE Exact(i)'
  BY <1>1, <1>4, ExactEach, ExactStays
<1>7. \A i \in DOMAIN rlDecisions' : Exact(i)'
  BY <1>4, <1>5, <1>6
<1>8. LimitExact'
  BY <1>7 DEF LimitExact, Exact, LiveBefore
<1> QED
  BY <1>3, <1>8 DEF Limited

LEMMA TimePassesLimited ==
    ASSUME Limited, TimePasses
    PROVE  Limited'
<1>1. TypeInv /\ Windows /\ LimitExact
  BY DEF Limited
<1>2. /\ rlNow \in Nat /\ rlNow' = rlNow + 1 /\ rlKind' = rlKind /\ rlTable' = rlTable
      /\ rlDecisions' = rlDecisions
  BY <1>1 DEF TypeInv, TimePasses
<1>3. Window \in Nat /\ \A i \in DOMAIN rlDecisions : rlDecisions[i].at \in Nat
  BY <1>1, TimeFacts
<1>4. TypeInv'
  BY <1>1, <1>2 DEF TypeInv
<1>5. \A i \in DOMAIN rlDecisions : rlDecisions[i].at <= rlNow'
  BY <1>1, <1>2, <1>3 DEF Windows
<1>6. ASSUME NEW s \in DOMAIN rlTable PROVE WindowExact(s)'
  <2>1. rlTable[s].seen \in Nat /\ WindowExact(s)
    BY <1>1, WindowFacts
  <2>2. rlTable[s].seen <= rlNow'
    BY <1>2, <2>1 DEF WindowExact
  <2> QED
    BY <1>2, <2>1, <2>2 DEF WindowExact
<1>7. ASSUME NEW s \in Sources \ DOMAIN rlTable
      PROVE  Counts(rlDecisions, s, rlNow' - Window) = {}
  <2>1. Counts(rlDecisions, s, rlNow - Window) = {}
    BY <1>1 DEF Windows
  <2>2. \A i \in DOMAIN rlDecisions :
          rlDecisions[i].at > rlNow' - Window => rlDecisions[i].at > rlNow - Window
    BY <1>2, <1>3
  <2> QED
    BY <2>1, <2>2 DEF Counts
<1>8. Windows'
  BY <1>2, <1>5, <1>6, <1>7 DEF Windows
<1>9. LimitExact'
  BY <1>1, <1>2, ZenonT(60) DEF LimitExact, Charged
<1> QED
  BY <1>4, <1>8, <1>9 DEF Limited

LEMMA InitLimited ==
    ASSUME RateLimiterInit
    PROVE  Limited
<1>1. rlKind \in {"api", "page"} /\ rlNow = 0 /\ rlTable = << >> /\ rlDecisions = <<>>
  BY DEF RateLimiterInit, RateLimiterStart
<1>2. rlDecisions \in Seq(Decision) /\ DOMAIN rlDecisions = {}
  <2>1. rlDecisions \in Seq(Decision) /\ Len(rlDecisions) = 0
    BY <1>1, EmptySeq, Zenon
  <2> QED
    BY <2>1, SeqFacts
<1>3. DOMAIN rlTable = {}
  <2>1. rlTable \in Seq(Nat) /\ Len(rlTable) = 0
    BY <1>1, EmptySeq, Zenon
  <2> QED
    BY <2>1, SeqFacts
<1>4. TypeInv
  BY <1>1, <1>2, <1>3 DEF TypeInv
<1>5. Windows
  BY <1>2, <1>3 DEF Windows, Counts
<1>6. LimitExact
  BY <1>2 DEF LimitExact
<1> QED
  BY <1>4, <1>5, <1>6 DEF Limited

\* In every reachable state the times of a window are those of the requests its
\* client is to be charged with (timestamps of SlidingWindowRateLimiter).
THEOREM LimiterInvariance == RateLimiterSpec => []Limited
<1>1. RateLimiterInit => Limited
  BY InitLimited
<1>2. Limited /\ [RateLimiterNext]_limiterVars => Limited'
  <2>1. ASSUME Limited, UNCHANGED limiterVars PROVE Limited'
    <3>1. TypeInv /\ Windows /\ LimitExact
      BY <2>1 DEF Limited
    <3>2. /\ rlKind' = rlKind /\ rlNow' = rlNow /\ rlTable' = rlTable
          /\ rlDecisions' = rlDecisions
      BY <2>1 DEF limiterVars
    <3>3. TypeInv'
      BY <3>1, <3>2 DEF TypeInv
    <3>4. Windows'
      BY <3>1, <3>2 DEF Windows, WindowExact
    <3>5. LimitExact'
      BY <3>1, <3>2, ZenonT(60) DEF LimitExact, Charged
    <3> QED
      BY <3>3, <3>4, <3>5 DEF Limited
  <2>2. ASSUME Limited, RateLimiterNext PROVE Limited'
    BY <2>2, ConsumeLimited, TimePassesLimited DEF RateLimiterNext
  <2> QED
    BY <2>1, <2>2
<1> QED
  BY <1>1, <1>2, PTL DEF RateLimiterSpec

\* A request is refused exactly when its client has used up its window, a
\* refused client that comes back when it was told to is not refused because of
\* the requests that refused it, and only a table full of live windows lets one
\* of them be forgotten (SlidingWindowRateLimiter.consume of the API and of the
\* page server), for any limit, window, table size and number of clients.
THEOREM LimitIsExact == RateLimiterSpec => []LimitExact
<1>1. Limited => LimitExact
  BY DEF Limited
<1> QED
  BY <1>1, LimiterInvariance, PTL

-----------------------------------------------------------------------------
(* Pages: who polls                                                          *)

MatchState == {"open", "final"}
PollState == {"none", "queued", "fetching", "waiting", "over"}

PageRecord == [active : BOOLEAN, opened : BOOLEAN, pending : BOOLEAN, poll : PollState,
         latest : MatchState \cup {"none"}, asked : MatchState \cup {"none"},
         inbox : Seq(MatchState), told : BOOLEAN, missed : BOOLEAN]

PollerTypeOK ==
    /\ fpMatch \in MatchState
    /\ fpVisible \subseteq Tabs
    /\ fpPages \in [Pages -> PageRecord]
    /\ fpToggles \in 0..MaxToggles /\ fpTurns \in 0..MaxTurns

\* What a page knows about itself: the end it shows it was told of, and a promise
\* that is pending belongs to a poll.
Coherent(page) ==
    /\ page.latest = "final" => page.told
    /\ page.pending => page.poll # "none"

AtWork(page) == page.poll \in {"queued", "fetching", "waiting"}

\* A page that still has something to learn and is seen has a poll.
Led(p, page) == page.active /\ Shown(p) /\ ~page.told /\ ~page.missed => AtWork(page)

OneAtATime == \A p, q \in Pages : Polling(fpPages[p]) /\ Polling(fpPages[q]) => p = q

PollerInv ==
    /\ PollerTypeOK
    /\ \A p \in Pages : Coherent(fpPages[p]) /\ Led(p, fpPages[p])
    /\ OneAtATime

-----------------------------------------------------------------------------
(* The operators on one page *)

\* start() leaves a page that is open, and did not come back in the moment in
\* which its poll was settling, with a poll; it never takes the lock itself.
LEMMA StartPage ==
    ASSUME NEW page \in PageRecord, Coherent(page)
    PROVE  /\ Start(page) \in PageRecord /\ Coherent(Start(page))
           /\ page.active /\ ~Start(page).missed => AtWork(Start(page))
           /\ ~page.active => Start(page) = page
           /\ Polling(Start(page)) => Polling(page)
<1>1. CASE ~page.active
  BY <1>1, Zenon DEF Start
<1>2. CASE page.active /\ page.pending
  <2> DEFINE late == page.poll = "over"
  <2>1. Start(page) = [page EXCEPT !.missed = late]
    BY <1>2, Zenon DEF Start
  <2>2. late \in BOOLEAN
    OBVIOUS
  <2> HIDE DEF late
  <2>3. [page EXCEPT !.missed = late] \in PageRecord
    BY <2>2 DEF PageRecord
  <2>4. /\ [page EXCEPT !.missed = late].poll = page.poll
        /\ [page EXCEPT !.missed = late].latest = page.latest
        /\ [page EXCEPT !.missed = late].told = page.told
        /\ [page EXCEPT !.missed = late].pending = page.pending
        /\ [page EXCEPT !.missed = late].missed = late
    BY DEF PageRecord
  <2>5. page.poll \in PollState
    BY DEF PageRecord
  <2> QED BY <1>2, <2>1, <2>3, <2>4, <2>5, Zenon DEF Coherent, AtWork, Polling, late, PollState
<1>3. CASE page.active /\ ~page.pending
  <2> DEFINE new == [page EXCEPT !.pending = TRUE, !.poll = "queued", !.missed = FALSE]
  <2>1. Start(page) = new
    BY <1>3, Zenon DEF Start
  <2>2. new \in PageRecord
    BY DEF PageRecord, PollState
  <2>3. /\ new.poll = "queued" /\ new.latest = page.latest /\ new.told = page.told
    BY DEF PageRecord
  <2> HIDE DEF new
  <2> QED BY <1>3, <2>1, <2>2, <2>3, Zenon DEF Coherent, AtWork, Polling
<1> QED BY <1>1, <1>2, <1>3

\* What a page is told it shows, and an end it was told of it keeps in mind.
LEMMA DeliverPage ==
    ASSUME NEW page \in PageRecord, Coherent(page), NEW state \in MatchState
    PROVE  /\ Deliver(page, state) \in PageRecord /\ Coherent(Deliver(page, state))
           /\ Deliver(page, state).poll = page.poll
           /\ Deliver(page, state).active = page.active
           /\ Deliver(page, state).inbox = page.inbox
           /\ Deliver(page, state).missed = page.missed
           /\ page.told => Deliver(page, state).told
           /\ page.active /\ state = "final" => Deliver(page, state).told
<1>1. CASE ~page.active
  BY <1>1, Zenon DEF Deliver
<1>2. CASE page.active
  <2> DEFINE ended == page.told \/ state = "final"
             new == [page EXCEPT !.latest = state, !.told = ended]
  <2>1. Deliver(page, state) = new
    BY <1>2, Zenon DEF Deliver
  <2>2. ended \in BOOLEAN
    OBVIOUS
  <2> HIDE DEF ended
  <2>3. new \in PageRecord
    BY <2>2 DEF PageRecord
  <2>4. /\ new.poll = page.poll /\ new.active = page.active /\ new.inbox = page.inbox
        /\ new.missed = page.missed /\ new.pending = page.pending
        /\ new.latest = state /\ new.told = ended
    BY DEF PageRecord
  <2> HIDE DEF new
  <2> QED BY <2>1, <2>3, <2>4, Zenon DEF Coherent, ended
<1> QED BY <1>1, <1>2

\* The loop goes on exactly while the page is open, seen and the match is not over.
LEMMA LoopPage ==
    ASSUME NEW p, NEW page \in PageRecord, Coherent(page), fpMatch \in MatchState
    PROVE  /\ Loop(p, page) \in PageRecord /\ Coherent(Loop(p, page))
           /\ Led(p, Loop(p, page))
<1>1. CASE page.active /\ Shown(p) /\ page.latest # "final"
  <2> DEFINE new == [page EXCEPT !.poll = "fetching", !.asked = fpMatch]
  <2>1. Loop(p, page) = new
    BY <1>1, Zenon DEF Loop
  <2>2. new \in PageRecord
    BY DEF PageRecord, PollState
  <2>3. new.poll = "fetching" /\ new.latest = page.latest /\ new.told = page.told
    BY DEF PageRecord
  <2> HIDE DEF new
  <2> QED BY <2>1, <2>2, <2>3, Zenon DEF Coherent, Led, AtWork
<1>2. CASE ~(page.active /\ Shown(p) /\ page.latest # "final")
  <2> DEFINE new == [page EXCEPT !.poll = "over"]
  <2>1. Loop(p, page) = new
    BY <1>2, Zenon DEF Loop
  <2>2. new \in PageRecord
    BY DEF PageRecord, PollState
  <2>3. /\ new.poll = "over" /\ new.latest = page.latest /\ new.told = page.told
        /\ new.active = page.active
    BY DEF PageRecord
  <2> HIDE DEF new
  <2> QED BY <1>2, <2>1, <2>2, <2>3, Zenon DEF Coherent, Led
<1> QED BY <1>1, <1>2

\* A poll that moves on leaves everything else of its page as it was.
LEMMA PollPage ==
    ASSUME NEW page \in PageRecord, Coherent(page), NEW poll \in PollState \ {"none"}
    PROVE  /\ [page EXCEPT !.poll = poll] \in PageRecord /\ Coherent([page EXCEPT !.poll = poll])
           /\ [page EXCEPT !.poll = poll].poll = poll
           /\ [page EXCEPT !.poll = poll].active = page.active
           /\ [page EXCEPT !.poll = poll].told = page.told
           /\ [page EXCEPT !.poll = poll].missed = page.missed
<1> DEFINE new == [page EXCEPT !.poll = poll]
<1>1. new \in PageRecord
  BY DEF PageRecord
<1>2. /\ new.poll = poll /\ new.active = page.active /\ new.told = page.told
      /\ new.missed = page.missed /\ new.latest = page.latest
  BY DEF PageRecord
<1> HIDE DEF new
<1>3. Coherent(new)
  BY <1>2, Zenon DEF Coherent
<1> QED BY <1>1, <1>2, <1>3, Zenon DEF new

\* A broadcast on its way changes nothing the page knows.
LEMMA InboxPage ==
    ASSUME NEW page \in PageRecord, Coherent(page), NEW inbox \in Seq(MatchState)
    PROVE  /\ [page EXCEPT !.inbox = inbox] \in PageRecord /\ Coherent([page EXCEPT !.inbox = inbox])
           /\ [page EXCEPT !.inbox = inbox].poll = page.poll
           /\ [page EXCEPT !.inbox = inbox].active = page.active
           /\ [page EXCEPT !.inbox = inbox].told = page.told
           /\ [page EXCEPT !.inbox = inbox].missed = page.missed
<1> DEFINE new == [page EXCEPT !.inbox = inbox]
<1>1. new \in PageRecord
  BY DEF PageRecord
<1>2. /\ new.poll = page.poll /\ new.active = page.active /\ new.told = page.told
      /\ new.missed = page.missed /\ new.latest = page.latest /\ new.pending = page.pending
  BY DEF PageRecord
<1> HIDE DEF new
<1>3. Coherent(new)
  BY <1>2, Zenon DEF Coherent
<1> QED BY <1>1, <1>2, <1>3, Zenon DEF new

-----------------------------------------------------------------------------
(* The steps *)

\* What a page may become in a step of its own: it is coherent, it is led, and it
\* polls only if it did before or nobody else does.
Follows(p, page) ==
    /\ page \in PageRecord /\ Coherent(page) /\ Led(p, page)
    /\ Polling(page) => Polling(fpPages[p]) \/ LockFree(p)

\* A step that changes one page, in one of these ways, keeps the invariant.
LEMMA PointStep ==
    ASSUME PollerInv, NEW p \in Pages, NEW page, Follows(p, page),
           fpPages' = [fpPages EXCEPT ![p] = page],
           UNCHANGED <<fpMatch, fpVisible, fpToggles, fpTurns>>
    PROVE  PollerInv'
<1>1. PollerTypeOK'
  BY DEF PollerInv, PollerTypeOK, Follows
<1>2. \A q \in Pages : fpPages'[q] = IF q = p THEN page ELSE fpPages[q]
  BY DEF PollerInv, PollerTypeOK
<1>3. \A q \in Pages : Coherent(fpPages'[q]) /\ Led(q, fpPages'[q])
  BY <1>2, Zenon DEF PollerInv, Follows
<1>4. \A q \in Pages : (Led(q, fpPages[q]))' <=> Led(q, fpPages'[q])
  BY Zenon DEF Led, Shown, AtWork
<1>5. \A q \in Pages : (Coherent(fpPages[q]))' <=> Coherent(fpPages'[q])
  BY Zenon DEF Coherent
<1>6. OneAtATime'
  <2> SUFFICES ASSUME NEW q \in Pages, NEW r \in Pages,
                      Polling(fpPages'[q]), Polling(fpPages'[r]), q # r
               PROVE  FALSE
    BY Zenon DEF OneAtATime, Polling
  <2>1. CASE q = p
    <3>1. Polling(page) /\ Polling(fpPages[r])
      BY <1>2, <2>1, Zenon
    <3> QED BY <2>1, <3>1, Zenon DEF Follows, LockFree, PollerInv, OneAtATime
  <2>2. CASE r = p
    <3>1. Polling(page) /\ Polling(fpPages[q])
      BY <1>2, <2>2, Zenon
    <3> QED BY <2>2, <3>1, Zenon DEF Follows, LockFree, PollerInv, OneAtATime
  <2>3. CASE q # p /\ r # p
    <3>1. Polling(fpPages[q]) /\ Polling(fpPages[r])
      BY <1>2, <2>3, Zenon
    <3> QED BY <3>1, Zenon DEF PollerInv, OneAtATime
  <2> QED BY <2>1, <2>2, <2>3
<1> QED BY <1>1, <1>3, <1>4, <1>5, <1>6, Zenon DEF PollerInv

\* A step that changes several pages, none of which begins to poll, keeps it too.
LEMMA WideStep ==
    ASSUME PollerInv, PollerTypeOK',
           \A q \in Pages : /\ Coherent(fpPages'[q])
                            /\ (Led(q, fpPages[q]))'
                            /\ Polling(fpPages'[q]) => Polling(fpPages[q])
    PROVE  PollerInv'
<1>1. PollerTypeOK'
  OBVIOUS
<1>2. OneAtATime'
  BY Zenon DEF PollerInv, OneAtATime, Polling
<1>3. \A q \in Pages : (Coherent(fpPages[q]))' /\ (Led(q, fpPages[q]))'
  BY Zenon DEF Coherent
<1> QED BY <1>1, <1>2, <1>3, Zenon DEF PollerInv

\* Every page has its type and is coherent and led.
LEMMA EveryPage ==
    ASSUME PollerInv, NEW p \in Pages
    PROVE  /\ fpPages[p] \in PageRecord /\ Coherent(fpPages[p]) /\ Led(p, fpPages[p])
           /\ fpMatch \in MatchState
  BY DEF PollerInv, PollerTypeOK

\* A page that is opened has a poll of its own if it is seen.
LEMMA SubscribeStep ==
    ASSUME PollerInv, NEW p \in Pages, Subscribe(p)
    PROVE  PollerInv'
<1> DEFINE page == [fpPages[p] EXCEPT !.active = TRUE, !.opened = TRUE]
           new == IF Shown(p) THEN Start(page) ELSE page
<1>1. page \in PageRecord
  BY EveryPage DEF PageRecord
<1>2. /\ page.latest = fpPages[p].latest /\ page.told = fpPages[p].told
      /\ page.pending = fpPages[p].pending /\ page.poll = fpPages[p].poll
      /\ page.active = TRUE
  BY EveryPage DEF PageRecord
<1>3. fpPages' = [fpPages EXCEPT ![p] = new]
  BY Zenon DEF Subscribe
<1> HIDE DEF page
<1>4. Coherent(page)
  BY <1>2, EveryPage, Zenon DEF Coherent
<1>5. Follows(p, new)
  <2>1. CASE Shown(p)
    BY <1>1, <1>2, <1>4, <2>1, StartPage, Zenon DEF Follows, Led, Polling
  <2>2. CASE ~Shown(p)
    BY <1>1, <1>2, <1>4, <2>2, Zenon DEF Follows, Led, Polling
  <2> QED BY <2>1, <2>2
<1> HIDE DEF new
<1> QED BY <1>3, <1>5, PointStep DEF Subscribe

\* A page that is closed needs no poll; one that polls goes on holding the lock.
LEMMA UnsubscribeStep ==
    ASSUME PollerInv, NEW p \in Pages, Unsubscribe(p)
    PROVE  PollerInv'
<1> DEFINE poll == IF fpPages[p].poll = "queued" THEN "over" ELSE fpPages[p].poll
           new == [fpPages[p] EXCEPT !.active = FALSE, !.inbox = <<>>, !.poll = poll]
<1>1. poll \in PollState
  BY EveryPage DEF PageRecord, PollState
<1>2. fpPages' = [fpPages EXCEPT ![p] = new]
  BY DEF Unsubscribe, PollerInv, PollerTypeOK, PageRecord
<1> HIDE DEF poll
<1>3. new \in PageRecord
  BY <1>1, EveryPage, EmptySeq DEF PageRecord
<1>4. /\ new.latest = fpPages[p].latest /\ new.told = fpPages[p].told
      /\ new.pending = fpPages[p].pending /\ new.poll = poll /\ new.active = FALSE
  BY EveryPage DEF PageRecord
<1> HIDE DEF new
<1>5. Follows(p, new)
  <2>1. Coherent(new)
    BY <1>4, EveryPage, Zenon DEF Coherent, poll
  <2>2. Polling(new) => Polling(fpPages[p])
    BY <1>4 DEF Polling, poll
  <2> QED BY <1>3, <1>4, <2>1, <2>2, Zenon DEF Follows, Led
<1> QED BY <1>2, <1>5, PointStep DEF Unsubscribe

\* A tab that is closed takes its pages and their polls with it.
LEMMA TabClosesStep ==
    ASSUME PollerInv, NEW p \in Pages, TabCloses(p)
    PROVE  PollerInv'
<1> DEFINE gone == [NewPage EXCEPT !.opened = TRUE]
           f == [q \in Pages |-> IF TabOf[q] = TabOf[p] THEN gone ELSE fpPages[q]]
<1>1. gone \in PageRecord
  BY EmptySeq DEF NewPage, PageRecord, PollState
<1>2. gone.latest = "none" /\ gone.poll = "none" /\ gone.pending = FALSE /\ gone.active = FALSE
  BY DEF NewPage
<1> HIDE DEF gone
<1>3. Coherent(gone) /\ ~Polling(gone) /\ \A q \in Pages : Led(q, gone)
  BY <1>2, Zenon DEF Coherent, Polling, Led
<1>4. f \in [Pages -> PageRecord]
  BY <1>1, EveryPage
<1>5. \A q \in Pages : f[q] = gone \/ f[q] = fpPages[q]
  OBVIOUS
<1>6. fpPages' = f /\ UNCHANGED <<fpMatch, fpVisible, fpToggles, fpTurns>>
  BY Zenon DEF TabCloses, gone
<1> HIDE DEF f
<1>7. \A q \in Pages : /\ Coherent(f[q]) /\ Led(q, f[q])
                       /\ Polling(f[q]) => Polling(fpPages[q])
  BY <1>3, <1>5, EveryPage, Zenon
<1>8. \A q \in Pages : (Led(q, fpPages[q]))'
  BY <1>6, <1>7, Zenon DEF Led, Shown, AtWork
<1>9. PollerTypeOK'
  BY <1>4, <1>6 DEF PollerInv, PollerTypeOK
<1>10. \A q \in Pages : /\ Coherent(fpPages'[q])
                        /\ Polling(fpPages'[q]) => Polling(fpPages[q])
  BY <1>6, <1>7, Zenon
<1> QED BY <1>8, <1>9, <1>10, WideStep

\* The lock is granted when nobody polls, and the loop decides what follows.
LEMMA GrantLockStep ==
    ASSUME PollerInv, NEW p \in Pages, GrantLock(p)
    PROVE  PollerInv'
<1>1. Follows(p, Loop(p, fpPages[p]))
  BY EveryPage, LoopPage DEF GrantLock, Follows
<1>2. fpPages' = [fpPages EXCEPT ![p] = Loop(p, fpPages[p])]
  BY DEF GrantLock
<1> QED BY <1>1, <1>2, PointStep DEF GrantLock

\* A poll whose timer has run out holds the lock already.
LEMMA DelayEndsStep ==
    ASSUME PollerInv, NEW p \in Pages, DelayEnds(p)
    PROVE  PollerInv'
<1>1. Follows(p, Loop(p, fpPages[p]))
  BY EveryPage, LoopPage DEF DelayEnds, Follows, Polling
<1>2. fpPages' = [fpPages EXCEPT ![p] = Loop(p, fpPages[p])]
  BY DEF DelayEnds
<1> QED BY <1>1, <1>2, PointStep DEF DelayEnds

\* A poll that goes on, or ends in a closed page, follows from one that fetches.
LEMMA FetchFollows ==
    ASSUME PollerInv, NEW p \in Pages, fpPages[p].poll = "fetching",
           NEW poll \in {"waiting", "over"}, fpPages[p].active => poll = "waiting"
    PROVE  Follows(p, [fpPages[p] EXCEPT !.poll = poll])
<1> DEFINE new == [fpPages[p] EXCEPT !.poll = poll]
<1>1. poll \in PollState \ {"none"}
  BY DEF PollState
<1>2. /\ new \in PageRecord /\ Coherent(new) /\ new.poll = poll
      /\ new.active = fpPages[p].active
  BY <1>1, EveryPage, PollPage
<1> HIDE DEF new
<1>3. Led(p, new)
  BY <1>2, Zenon DEF Led, AtWork
<1>4. Polling(fpPages[p])
  BY DEF Polling
<1>5. Follows(p, new)
  BY <1>2, <1>3, <1>4 DEF Follows
<1> QED BY <1>5 DEF new

LEMMA RequestFailedStep ==
    ASSUME PollerInv, NEW p \in Pages, RequestFailed(p)
    PROVE  PollerInv'
<1> DEFINE poll == IF fpPages[p].active THEN "waiting" ELSE "over"
           new == [fpPages[p] EXCEPT !.poll = poll]
<1>1. /\ fpPages[p].poll = "fetching"
      /\ fpPages' = [fpPages EXCEPT ![p] = new]
      /\ UNCHANGED <<fpMatch, fpVisible, fpToggles, fpTurns>>
  BY DEF RequestFailed
<1>2. poll \in {"waiting", "over"} /\ (fpPages[p].active => poll = "waiting")
  OBVIOUS
<1> HIDE DEF poll
<1>3. Follows(p, new)
  BY <1>1, <1>2, FetchFollows
<1> HIDE DEF new
<1> QED BY <1>1, <1>3, PointStep

\* An answer is told to every open page, by a page that polled and, unless the
\* match is over, goes on polling.
LEMMA ReceiveForecastStep ==
    ASSUME PollerInv, NEW p \in Pages, NEW state \in MatchState, ReceiveForecast(p, state)
    PROVE  PollerInv'
<1>1. fpPages[p].poll = "fetching" /\ UNCHANGED <<fpMatch, fpVisible, fpToggles, fpTurns>>
  BY DEF ReceiveForecast
<1>2. CASE ~fpPages[p].active
  <2> DEFINE poll == "over"
             new == [fpPages[p] EXCEPT !.poll = poll]
  <2>1. fpPages' = [fpPages EXCEPT ![p] = new]
    BY <1>2 DEF ReceiveForecast
  <2>2. Follows(p, new)
    BY <1>1, <1>2, FetchFollows
  <2> HIDE DEF new
  <2> QED BY <1>1, <2>1, <2>2, PointStep
<1>3. CASE fpPages[p].active
  <2> DEFINE poll == IF state = "final" THEN "over" ELSE "waiting"
             told == Deliver(fpPages[p], state)
             mine == [told EXCEPT !.poll = poll]
             heard(q) == IF fpPages[q].active
                         THEN [fpPages[q] EXCEPT !.inbox = Append(@, state)]
                         ELSE fpPages[q]
  <2>1. /\ told \in PageRecord /\ Coherent(told) /\ told.active = fpPages[p].active
        /\ state = "final" => told.told
    BY <1>3, EveryPage, DeliverPage
  <2>2. fpPages' = [q \in Pages |-> IF q = p THEN mine ELSE heard(q)]
    <3>1. fpPages' = [Broadcast(p, state) EXCEPT ![p].poll = poll]
      BY <1>3 DEF ReceiveForecast
    <3>2. Broadcast(p, state) = [q \in Pages |-> IF q = p THEN told ELSE heard(q)]
      BY DEF Broadcast
    <3> HIDE DEF told, heard, poll
    <3> QED BY <3>1, <3>2
  <2> HIDE DEF told
  <2>3. poll \in PollState \ {"none"}
    BY DEF PollState
  <2>4. /\ mine \in PageRecord /\ Coherent(mine) /\ mine.poll = poll
        /\ mine.told = told.told
    BY <2>1, <2>3, PollPage
  <2> HIDE DEF mine
  <2>5. Led(p, mine) /\ (Polling(mine) => Polling(fpPages[p]))
    BY <1>1, <2>1, <2>4, Zenon DEF Led, AtWork, Polling
  <2>6. ASSUME NEW q \in Pages
        PROVE  /\ heard(q) \in PageRecord /\ Coherent(heard(q)) /\ Led(q, heard(q))
               /\ Polling(heard(q)) => Polling(fpPages[q])
    <3>1. CASE ~fpPages[q].active
      BY <3>1, EveryPage
    <3>2. CASE fpPages[q].active
      <4> DEFINE inbox == Append(fpPages[q].inbox, state)
                 next == [fpPages[q] EXCEPT !.inbox = inbox]
      <4>1. inbox \in Seq(MatchState)
        <5>1. fpPages[q].inbox \in Seq(MatchState)
          BY EveryPage DEF PageRecord
        <5> QED BY <5>1, AppendProperties
      <4> HIDE DEF inbox
      <4>2. /\ next \in PageRecord /\ Coherent(next) /\ next.poll = fpPages[q].poll
            /\ next.active = fpPages[q].active /\ next.told = fpPages[q].told
            /\ next.missed = fpPages[q].missed
        BY <4>1, EveryPage, InboxPage
      <4>3. heard(q) = next
        BY <3>2 DEF inbox
      <4> HIDE DEF next
      <4>4. Led(q, next) /\ (Polling(next) => Polling(fpPages[q]))
        BY <4>2, EveryPage, Zenon DEF Led, AtWork, Polling
      <4> HIDE DEF heard
      <4> QED BY <4>2, <4>3, <4>4
    <3> QED BY <3>1, <3>2
  <2> HIDE DEF heard
  <2>7. \A q \in Pages : /\ fpPages'[q] \in PageRecord /\ Coherent(fpPages'[q]) /\ Led(q, fpPages'[q])
                         /\ Polling(fpPages'[q]) => Polling(fpPages[q])
    <3> TAKE q \in Pages
    <3>1. CASE q = p
      BY <2>2, <2>4, <2>5, <3>1
    <3>2. CASE q # p
      BY <2>2, <2>6, <3>2
    <3> QED BY <3>1, <3>2
  <2>8. PollerTypeOK'
    BY <1>1, <2>2, <2>7 DEF PollerInv, PollerTypeOK
  <2>9. \A q \in Pages : (Led(q, fpPages[q]))'
    BY <1>1, <2>7, Zenon DEF Led, Shown, AtWork
  <2> QED BY <2>7, <2>8, <2>9, WideStep
<1> QED BY <1>2, <1>3

\* A poll that is over settles: the page could only be left without one if it has
\* nothing to learn.
LEMMA PollSettlesStep ==
    ASSUME PollerInv, NEW p \in Pages, PollSettles(p)
    PROVE  PollerInv'
<1> DEFINE page == fpPages[p]
           new == [page EXCEPT !.pending = FALSE, !.poll = "none"]
<1>1. page.poll = "over" /\ fpPages' = [fpPages EXCEPT ![p] = new]
  BY DEF PollSettles
<1>2. page \in PageRecord /\ Coherent(page) /\ Led(p, page)
  BY EveryPage
<1> HIDE DEF page
<1>3. new \in PageRecord
  BY <1>2 DEF PageRecord, PollState
<1>4. /\ new.pending = FALSE /\ new.poll = "none" /\ new.latest = page.latest
      /\ new.told = page.told /\ new.active = page.active /\ new.missed = page.missed
  BY <1>2 DEF PageRecord
<1> HIDE DEF new
<1>5. Follows(p, new)
  BY <1>1, <1>2, <1>3, <1>4, Zenon DEF Follows, Coherent, Led, AtWork, Polling
<1> QED BY <1>1, <1>5, PointStep DEF PollSettles

\* A broadcast that arrives tells the page, and takes nothing back.
LEMMA TakeBroadcastStep ==
    ASSUME PollerInv, NEW p \in Pages, TakeBroadcast(p)
    PROVE  PollerInv'
<1> DEFINE page == fpPages[p]
           told == Deliver(page, Head(page.inbox))
           inbox == Tail(page.inbox)
           new == [told EXCEPT !.inbox = inbox]
<1>1. page.inbox # <<>> /\ fpPages' = [fpPages EXCEPT ![p] = new]
  BY DEF TakeBroadcast
<1>2. page \in PageRecord /\ Coherent(page) /\ Led(p, page)
  BY EveryPage
<1>3. Head(page.inbox) \in MatchState /\ inbox \in Seq(MatchState)
  <2>1. page.inbox \in Seq(MatchState)
    BY <1>2 DEF PageRecord
  <2> QED BY <1>1, <2>1, HeadTailProperties
<1>4. /\ told \in PageRecord /\ Coherent(told) /\ told.poll = page.poll
      /\ told.active = page.active /\ told.missed = page.missed
      /\ page.told => told.told
  BY <1>2, <1>3, DeliverPage
<1> HIDE DEF page, told, inbox
<1>5. /\ new \in PageRecord /\ Coherent(new) /\ new.poll = told.poll
      /\ new.active = told.active /\ new.told = told.told /\ new.missed = told.missed
  BY <1>3, <1>4, InboxPage
<1> HIDE DEF new
<1>6. Follows(p, new)
  <2>1. Led(p, new)
    BY <1>2, <1>4, <1>5, Zenon DEF Led, AtWork
  <2>2. Polling(new) => Polling(fpPages[p])
    BY <1>4, <1>5, Zenon DEF Polling, page
  <2> QED BY <1>5, <2>1, <2>2 DEF Follows
<1> QED BY <1>1, <1>6, PointStep DEF TakeBroadcast

\* Hiding a tab asks for less, showing it starts its pages.
LEMMA TabStep ==
    ASSUME PollerInv, NEW t \in Tabs, HideTab(t) \/ ShowTab(t)
    PROVE  PollerInv'
<1>1. PollerTypeOK /\ MaxToggles \in Nat
  BY PollerAssumption DEF PollerInv
<1>2. CASE HideTab(t)
  <2>1. PollerTypeOK' /\ fpPages' = fpPages /\ fpVisible' \subseteq fpVisible
    BY <1>1, <1>2 DEF HideTab, PollerTypeOK
  <2>2. \A q \in Pages : (Led(q, fpPages[q]))'
    BY <2>1, EveryPage, Zenon DEF Led, Shown, AtWork
  <2>3. \A q \in Pages : /\ Coherent(fpPages'[q])
                         /\ Polling(fpPages'[q]) => Polling(fpPages[q])
    BY <2>1, EveryPage, Zenon
  <2> QED BY <2>1, <2>2, <2>3, WideStep
<1>3. CASE ShowTab(t)
  <2>1. fpPages' = [q \in Pages |-> IF TabOf[q] = t THEN Start(fpPages[q]) ELSE fpPages[q]]
    BY <1>3 DEF ShowTab
  <2>2. \A q \in Pages : TabOf[q] # t => (Shown(q)' <=> Shown(q))
    BY <1>3 DEF ShowTab, Shown
  <2>3. ASSUME NEW q \in Pages
        PROVE  /\ fpPages'[q] \in PageRecord /\ Coherent(fpPages'[q])
               /\ Polling(fpPages'[q]) => Polling(fpPages[q])
               /\ (Led(q, fpPages[q]))'
    <3>1. CASE TabOf[q] = t
      <4>1. fpPages'[q] = Start(fpPages[q])
        BY <2>1, <3>1
      <4> DEFINE next == Start(fpPages[q])
      <4>2. /\ next \in PageRecord /\ Coherent(next)
            /\ fpPages[q].active /\ ~next.missed => AtWork(next)
            /\ ~fpPages[q].active => next = fpPages[q]
            /\ Polling(next) => Polling(fpPages[q])
        BY EveryPage, StartPage
      <4>3. next.active /\ ~next.missed => AtWork(next)
        <5> HIDE DEF next
        <5> QED BY <4>2, Zenon
      <4> HIDE DEF next
      <4>4. fpPages'[q] = next
        BY <4>1 DEF next
      <4>5. (Led(q, fpPages[q]))'
        BY <4>3, <4>4, Zenon DEF Led, AtWork
      <4> QED BY <4>2, <4>4, <4>5, Zenon
    <3>2. CASE TabOf[q] # t
      <4>1. fpPages'[q] = fpPages[q]
        BY <2>1, <3>2
      <4>2. (Led(q, fpPages[q]))'
        BY <2>2, <3>2, <4>1, EveryPage, Zenon DEF Led, AtWork
      <4> QED BY <4>1, <4>2, EveryPage, Zenon
    <3> QED BY <3>1, <3>2
  <2>4. PollerTypeOK'
    <3>1. fpVisible' \subseteq Tabs /\ fpToggles' \in 0..MaxToggles /\ fpTurns' \in 0..MaxTurns
      BY <1>1, <1>3 DEF ShowTab, PollerTypeOK
    <3>2. fpMatch' \in MatchState /\ fpPages' \in [Pages -> PageRecord]
      BY <1>1, <1>3, <2>1, <2>3 DEF ShowTab, PollerTypeOK
    <3> QED BY <3>1, <3>2 DEF PollerTypeOK
  <2> QED BY <2>3, <2>4, WideStep
<1> QED BY <1>2, <1>3

-----------------------------------------------------------------------------
(* The specification *)

LEMMA PollerInit == ForecastPollerStart => PollerInv
<1> SUFFICES ASSUME ForecastPollerStart PROVE PollerInv
  OBVIOUS
<1>1. NewPage \in PageRecord
  BY EmptySeq DEF NewPage, PageRecord, PollState
<1>2. /\ NewPage.latest = "none" /\ NewPage.poll = "none"
      /\ NewPage.pending = FALSE /\ NewPage.active = FALSE
  BY DEF NewPage
<1>3. \A p \in Pages : fpPages[p] = NewPage
  BY DEF ForecastPollerStart
<1>4. PollerTypeOK
  BY <1>1, PollerAssumption DEF ForecastPollerStart, PollerTypeOK, MatchState
<1>5. \A p \in Pages : /\ Coherent(fpPages[p]) /\ Led(p, fpPages[p])
                       /\ ~Polling(fpPages[p])
  BY <1>2, <1>3, Zenon DEF Coherent, Led, Polling
<1> QED BY <1>4, <1>5, Zenon DEF PollerInv, OneAtATime

LEMMA PollerStep == PollerInv /\ [ForecastPollerNext]_pollerVars => PollerInv'
<1> SUFFICES ASSUME PollerInv, [ForecastPollerNext]_pollerVars PROVE PollerInv'
  OBVIOUS
<1>1. ASSUME NEW p \in Pages, PageStep(p) PROVE PollerInv'
  <2>1. ASSUME NEW state \in {"open", "final"}, ReceiveForecast(p, state) PROVE PollerInv'
    BY <2>1, ReceiveForecastStep DEF MatchState
  <2> QED
    BY <1>1, <2>1, SubscribeStep, UnsubscribeStep, TabClosesStep, GrantLockStep,
       RequestFailedStep, DelayEndsStep, PollSettlesStep, TakeBroadcastStep DEF PageStep
<1>2. ASSUME NEW t \in Tabs, HideTab(t) \/ ShowTab(t) PROVE PollerInv'
  BY <1>2, TabStep
<1>3. ASSUME MatchTurns \/ UNCHANGED pollerVars PROVE PollerInv'
  <2>1. UNCHANGED <<fpPages, fpVisible>>
    BY <1>3 DEF MatchTurns, pollerVars
  <2>2. PollerTypeOK'
    BY <1>3, PollerAssumption
    DEF MatchTurns, pollerVars, PollerInv, PollerTypeOK, MatchState
  <2>3. \A q \in Pages : /\ Coherent(fpPages'[q]) /\ (Led(q, fpPages[q]))'
                         /\ Polling(fpPages'[q]) => Polling(fpPages[q])
    BY <2>1, EveryPage, Zenon DEF Led, Shown, AtWork
  <2> QED BY <2>2, <2>3, WideStep
<1> QED BY <1>1, <1>2, <1>3 DEF ForecastPollerNext

\* What the lock, the polls and the broadcasts of the pages know of each other
\* holds in every reachable state.
THEOREM PollerInvariance == ForecastPollerSpec => []PollerInv
  BY PollerInit, PollerStep, PTL DEF ForecastPollerSpec

\* In every reachable state the pages have their types: every broadcast on its
\* way is a state of the match, every counter is within its bound.
THEOREM PollerTypeCorrect == ForecastPollerSpec => []PollerTypeOK
<1>1. PollerInv => PollerTypeOK
  BY DEF PollerInv
<1> QED BY <1>1, PollerInvariance, PTL

\* For any number of pages and tabs of one match, in every order of closing,
\* hiding, failing and restoring: at most one page polls (the lock is released
\* only by the poll that held it), and an open page in a visible tab that was
\* never told of an end has a poll at work or queued, unless its tab came back
\* while its last poll was settling.
THEOREM OneLeader == ForecastPollerSpec => []OneLeaderForAll
<1>1. PollerInv => OneLeaderForAll
  <2> SUFFICES ASSUME PollerInv PROVE OneLeaderForAll
    OBVIOUS
  <2> DEFINE leaders == {p \in Pages : Polling(fpPages[p])}
  <2>1. Cardinality(leaders) <= 1
    <3>1. CASE leaders = {}
      BY <3>1, FS_EmptySet
    <3>2. CASE leaders # {}
      <4>1. PICK p \in leaders : TRUE
        BY <3>2
      <4>2. \A q \in leaders : q = p
        BY <4>1, Zenon DEF PollerInv, OneAtATime
      <4>3. leaders = {p}
        BY <4>1, <4>2, Zenon
      <4> HIDE DEF leaders
      <4>4. Cardinality({p}) = 1
        BY FS_Singleton
      <4> QED BY <4>3, <4>4
    <3> QED BY <3>1, <3>2
  <2>2. \A p \in Pages :
          fpPages[p].active /\ Shown(p) /\ ~fpPages[p].told /\ ~fpPages[p].missed
            => Polling(fpPages[p]) \/ fpPages[p].poll = "queued"
    BY Zenon DEF PollerInv, Led, AtWork, Polling
  <2> QED BY <2>1, <2>2, Zenon DEF OneLeaderForAll
<1> QED BY <1>1, PollerInvariance, PTL

-----------------------------------------------------------------------------
(* The replay: what a side is to be given, and what a told match is           *)

Types == {"goal", "shot_on_target", "shot", "foul", "substitution"}
MarkerTypes == {"kickoff", "half_time", "second_half", "full_time"}
Shots == {"shot", "shot_on_target", "goal"}
ShotsOnTarget == {"shot_on_target", "goal"}

Playing == 180..5399
Clock == 0..5400
Untimed == [side : Sides, type : Types, period : SUBSET Playing]
Happening == [side : Sides \cup {NoSide}, type : Types \cup MarkerTypes, time : Clock]
Statistics == [halfTime : Nat, shots : Nat, onTarget : Nat, fouls : Nat]

\* statistics that go with these goals
Balanced(goals, s) ==
    /\ goals \in Nat /\ s \in Statistics
    /\ s.halfTime <= goals /\ goals <= s.onTarget /\ s.onTarget <= s.shots

\* the events of a side that a plan has after offset o
PlansSide(plan, side, o, n, goals, s) ==
    \A i \in 1..n : LET e == plan[o + i]
                    IN  /\ e.side = side
                        /\ e.type = "goal" <=> i <= goals
                        /\ e.type \in ShotsOnTarget <=> i <= s.onTarget
                        /\ e.type \in Shots <=> i <= s.shots
                        /\ e.type = "foul" <=> i > s.shots /\ i <= s.shots + s.fouls
                        /\ e.type = "goal" =>
                             e.period = IF i <= s.halfTime THEN FirstHalf ELSE SecondHalf

Length(s) == s.shots + s.fouls + Substitutions

LEMMA LeastOfTwo ==
    ASSUME NEW a \in Int, NEW b \in Int
    PROVE  /\ Min({a, b}) = IF a <= b THEN a ELSE b
           /\ Max({a, b}) = IF a <= b THEN b ELSE a
<1>1. Min({a, b}) = IF a <= b THEN a ELSE b
  <2> DEFINE least(x) == \A y \in {a, b} : x <= y
             c == IF a <= b THEN a ELSE b
  <2>1. c \in {a, b} /\ least(c)
    OBVIOUS
  <2>2. \A x \in {a, b} : least(x) => x = c
    OBVIOUS
  <2>3. Min({a, b}) = CHOOSE x \in {a, b} : least(x)
    BY DEF Min
  <2> HIDE DEF c, least
  <2>4. Min({a, b}) = c
    BY <2>1, <2>2, <2>3
  <2> QED BY <2>4 DEF c
<1>2. Max({a, b}) = IF a <= b THEN b ELSE a
  <2> DEFINE greatest(x) == \A y \in {a, b} : x >= y
             c == IF a <= b THEN b ELSE a
  <2>1. c \in {a, b} /\ greatest(c)
    OBVIOUS
  <2>2. \A x \in {a, b} : greatest(x) => x = c
    OBVIOUS
  <2>3. Max({a, b}) = CHOOSE x \in {a, b} : greatest(x)
    BY DEF Max
  <2> HIDE DEF c, greatest
  <2>4. Max({a, b}) = c
    BY <2>1, <2>2, <2>3
  <2> QED BY <2>4 DEF c
<1> QED BY <1>1, <1>2

LEMMA AdjustedBalances ==
    ASSUME NEW goals \in Nat, NEW sample \in Samples
    PROVE  Balanced(goals, Adjusted(goals, sample))
<1>1. sample \in Statistics
  BY ReplayAssumption DEF Statistics
<1> DEFINE shots == Max({goals, sample.shots})
           onTarget == Max({goals, sample.onTarget})
           s == Adjusted(goals, sample)
<1>2. /\ sample.halfTime \in Nat /\ sample.shots \in Nat
      /\ sample.onTarget \in Nat /\ sample.fouls \in Nat
  BY <1>1 DEF Statistics
<1>3. shots \in Nat /\ goals <= shots /\ onTarget \in Nat /\ goals <= onTarget
  <2>0. \A a, b \in Int : Max({a, b}) = IF a <= b THEN b ELSE a
    BY LeastOfTwo
  <2>1. shots = IF goals <= sample.shots THEN sample.shots ELSE goals
    BY <1>2, <2>0
  <2>2. onTarget = IF goals <= sample.onTarget THEN sample.onTarget ELSE goals
    BY <1>2, <2>0
  <2> HIDE DEF shots, onTarget
  <2> QED BY <1>2, <2>1, <2>2
<1>4. s = [halfTime |-> Min({goals, sample.halfTime}), shots |-> shots,
           onTarget |-> Min({shots, onTarget}), fouls |-> sample.fouls]
  BY DEF Adjusted
<1> HIDE DEF shots, onTarget, s
<1>5. Min({goals, sample.halfTime}) \in Nat /\ Min({goals, sample.halfTime}) <= goals
  BY <1>2, LeastOfTwo
<1>6. /\ Min({shots, onTarget}) \in Nat /\ Min({shots, onTarget}) <= shots
      /\ goals <= Min({shots, onTarget})
  BY <1>3, LeastOfTwo
<1>7. s \in Statistics /\ s.halfTime <= goals /\ goals <= s.onTarget /\ s.onTarget <= s.shots
  BY <1>2, <1>3, <1>4, <1>5, <1>6 DEF Statistics
<1> QED BY <1>7 DEF Balanced, s

LEMMA TeamIsPlanned ==
    ASSUME NEW side \in Sides, NEW goals, NEW s, Balanced(goals, s)
    PROVE  /\ TeamEvents(side, goals, s) \in Seq(Untimed)
           /\ Len(TeamEvents(side, goals, s)) = Length(s) /\ Length(s) \in Nat
           /\ PlansSide(TeamEvents(side, goals, s), side, 0, Length(s), goals, s)
<1> DEFINE T == TeamEvents(side, goals, s)
           n == Length(s)
           openPlay == FirstHalf \cup SecondHalf
           Event(type, period) == [side |-> side, type |-> type, period |-> period]
<1>1. /\ goals \in Nat /\ s.halfTime \in Nat /\ s.shots \in Nat /\ s.onTarget \in Nat
      /\ s.fouls \in Nat /\ Substitutions \in Nat
      /\ s.halfTime <= goals /\ goals <= s.onTarget /\ s.onTarget <= s.shots
  BY ReplayAssumption DEF Balanced, Statistics
<1>2. n \in Nat /\ n = s.shots + s.fouls + Substitutions
  BY <1>1 DEF Length
<1> DEFINE planned(i) ==
             CASE i \in 1..s.halfTime -> Event("goal", FirstHalf)
               [] i \in (s.halfTime + 1)..goals -> Event("goal", SecondHalf)
               [] i \in (goals + 1)..s.onTarget -> Event("shot_on_target", openPlay)
               [] i \in (s.onTarget + 1)..s.shots -> Event("shot", openPlay)
               [] i \in (s.shots + 1)..(s.shots + s.fouls) -> Event("foul", openPlay)
               [] OTHER -> Event("substitution", Late)
<1>3. T = [i \in 1..n |-> planned(i)]
  BY DEF TeamEvents, Length
<1> HIDE DEF n, T
<1>4. ASSUME NEW i \in 1..n
      PROVE  /\ i <= s.halfTime => T[i] = Event("goal", FirstHalf)
             /\ (i > s.halfTime /\ i <= goals) => T[i] = Event("goal", SecondHalf)
             /\ (i > goals /\ i <= s.onTarget) => T[i] = Event("shot_on_target", openPlay)
             /\ (i > s.onTarget /\ i <= s.shots) => T[i] = Event("shot", openPlay)
             /\ (i > s.shots /\ i <= s.shots + s.fouls) => T[i] = Event("foul", openPlay)
             /\ i > s.shots + s.fouls => T[i] = Event("substitution", Late)
  <2>1. T[i] = planned(i)
    <3> HIDE DEF planned
    <3> QED BY <1>3
  <2>2. i \in Int
    BY <1>2
  <2> HIDE DEF Event, openPlay
  <2> QED BY <1>1, <2>1, <2>2
<1>5. /\ FirstHalf \subseteq Playing /\ SecondHalf \subseteq Playing
      /\ Late \subseteq Playing /\ openPlay \subseteq Playing
  BY ReplayAssumption DEF Playing
<1> HIDE DEF openPlay, planned
<1>6. ASSUME NEW i \in 1..n
      PROVE  /\ T[i] \in Untimed
             /\ T[i].side = side
             /\ T[i].type = "goal" <=> i <= goals
             /\ T[i].type \in ShotsOnTarget <=> i <= s.onTarget
             /\ T[i].type \in Shots <=> i <= s.shots
             /\ T[i].type = "foul" <=> i > s.shots /\ i <= s.shots + s.fouls
             /\ T[i].type = "goal" =>
                  T[i].period = IF i <= s.halfTime THEN FirstHalf ELSE SecondHalf
  <2> HIDE DEF Event
  <2>1. PICK type \in Types, period \in SUBSET Playing :
          /\ T[i] = Event(type, period)
          /\ type = "goal" <=> i <= goals
          /\ type \in ShotsOnTarget <=> i <= s.onTarget
          /\ type \in Shots <=> i <= s.shots
          /\ type = "foul" <=> i > s.shots /\ i <= s.shots + s.fouls
          /\ type = "goal" => period = IF i <= s.halfTime THEN FirstHalf ELSE SecondHalf
    <3> DEFINE Fits(type, period) ==
          /\ T[i] = Event(type, period)
          /\ type = "goal" <=> i <= goals
          /\ type \in ShotsOnTarget <=> i <= s.onTarget
          /\ type \in Shots <=> i <= s.shots
          /\ type = "foul" <=> i > s.shots /\ i <= s.shots + s.fouls
          /\ type = "goal" => period = IF i <= s.halfTime THEN FirstHalf ELSE SecondHalf
           Planned == \E type \in Types : \E period \in SUBSET Playing : Fits(type, period)
    <3>0. Planned
      <4>1. ASSUME i <= s.halfTime PROVE Planned
        <5>1. Fits("goal", FirstHalf)
          BY <1>1, <1>4, <4>1 DEF Shots, ShotsOnTarget
        <5>2. "goal" \in Types
          BY DEF Types
        <5> HIDE DEF Fits
        <5> QED BY <1>5, <5>1, <5>2
      <4>2. ASSUME i > s.halfTime /\ i <= goals PROVE Planned
        <5>1. Fits("goal", SecondHalf)
          BY <1>1, <1>4, <4>2 DEF Shots, ShotsOnTarget
        <5>2. "goal" \in Types
          BY DEF Types
        <5> HIDE DEF Fits
        <5> QED BY <1>5, <5>1, <5>2
      <4>3. ASSUME i > goals /\ i <= s.onTarget PROVE Planned
        <5>1. Fits("shot_on_target", openPlay)
          BY <1>1, <1>4, <4>3 DEF Shots, ShotsOnTarget
        <5>2. "shot_on_target" \in Types
          BY DEF Types
        <5> HIDE DEF Fits
        <5> QED BY <1>5, <5>1, <5>2
      <4>4. ASSUME i > s.onTarget /\ i <= s.shots PROVE Planned
        <5>1. Fits("shot", openPlay)
          BY <1>1, <1>4, <4>4 DEF Shots, ShotsOnTarget
        <5>2. "shot" \in Types
          BY DEF Types
        <5> HIDE DEF Fits
        <5> QED BY <1>5, <5>1, <5>2
      <4>5. ASSUME i > s.shots /\ i <= s.shots + s.fouls PROVE Planned
        <5>1. Fits("foul", openPlay)
          BY <1>1, <1>4, <4>5 DEF Shots, ShotsOnTarget
        <5>2. "foul" \in Types
          BY DEF Types
        <5> HIDE DEF Fits
        <5> QED BY <1>5, <5>1, <5>2
      <4>6. ASSUME i > s.shots + s.fouls PROVE Planned
        <5>1. Fits("substitution", Late)
          BY <1>1, <1>4, <4>6 DEF Shots, ShotsOnTarget
        <5>2. "substitution" \in Types
          BY DEF Types
        <5> HIDE DEF Fits
        <5> QED BY <1>5, <5>1, <5>2
      <4> HIDE DEF Fits, Planned
      <4>7. \/ i <= s.halfTime \/ (i > s.halfTime /\ i <= goals)
            \/ (i > goals /\ i <= s.onTarget) \/ (i > s.onTarget /\ i <= s.shots)
            \/ (i > s.shots /\ i <= s.shots + s.fouls) \/ i > s.shots + s.fouls
        <5>1. i \in Int /\ n \in Int
          BY <1>2
        <5> QED BY <1>1, <5>1
      <4> QED BY <4>1, <4>2, <4>3, <4>4, <4>5, <4>6, <4>7
    <3> QED BY <3>0
  <2>2. Event(type, period) = [side |-> side, type |-> type, period |-> period]
    BY DEF Event
  <2>3. T[i].side = side /\ T[i].type = type /\ T[i].period = period
    BY <2>1, <2>2
  <2>4. T[i] \in Untimed
    BY <2>1, <2>2 DEF Untimed
  <2> QED BY <2>1, <2>3, <2>4
<1>7. T \in [1..n -> Untimed]
  <2> HIDE DEF planned
  <2> QED BY <1>3, <1>6
<1>8. T \in Seq(Untimed) /\ Len(T) = n
  BY <1>2, <1>7, SeqDef, LenProperties
<1>9. PlansSide(T, side, 0, n, goals, s)
  <2>1. \A i \in 1..n : 0 + i = i
    OBVIOUS
  <2> QED BY <1>6, <2>1 DEF PlansSide
<1> QED BY <1>2, <1>8, <1>9 DEF T, n

-----------------------------------------------------------------------------
(* The plan of both sides, and where it has the events of each kind *)

Made(score, statistics) ==
    /\ score \in [Sides -> Nat] /\ statistics \in [Sides -> Statistics]
    /\ \A s \in Sides : Balanced(score[s], statistics[s])

Offset(side, statistics) == IF side = "home" THEN 0 ELSE Length(statistics["home"])

PlansBoth(plan, score, statistics) ==
    /\ plan \in Seq(Untimed)
    /\ Len(plan) = Length(statistics["home"]) + Length(statistics["away"])
    /\ \A side \in Sides :
         /\ Length(statistics[side]) \in Nat
         /\ PlansSide(plan, side, Offset(side, statistics), Length(statistics[side]),
                      score[side], statistics[side])

LEMMA BothArePlanned ==
    ASSUME NEW score, NEW statistics, Made(score, statistics)
    PROVE  PlansBoth(Plan(score, statistics), score, statistics)
<1> DEFINE H == TeamEvents("home", score["home"], statistics["home"])
           A == TeamEvents("away", score["away"], statistics["away"])
           m == Length(statistics["home"])
           n == Length(statistics["away"])
           P == Plan(score, statistics)
<1>1. "home" \in Sides /\ "away" \in Sides /\ \A s \in Sides : s = "home" \/ s = "away"
  BY DEF Sides
<1>2. /\ Balanced(score["home"], statistics["home"])
      /\ Balanced(score["away"], statistics["away"])
  BY <1>1 DEF Made
<1>3. /\ H \in Seq(Untimed) /\ Len(H) = m /\ m \in Nat
      /\ PlansSide(H, "home", 0, m, score["home"], statistics["home"])
  BY <1>1, <1>2, TeamIsPlanned
<1>4. /\ A \in Seq(Untimed) /\ Len(A) = n /\ n \in Nat
      /\ PlansSide(A, "away", 0, n, score["away"], statistics["away"])
  BY <1>1, <1>2, TeamIsPlanned
<1>5. P = H \o A
  BY DEF Plan
<1> HIDE DEF H, A, m, n, P
<1>6. /\ P \in Seq(Untimed) /\ Len(P) = m + n
      /\ \A i \in 1..(m + n) : P[i] = IF i <= m THEN H[i] ELSE A[i - m]
  BY <1>3, <1>4, <1>5, ConcatProperties
<1>7. PlansSide(P, "home", 0, m, score["home"], statistics["home"])
  <2>1. \A i \in 1..m : P[0 + i] = H[0 + i]
    <3> SUFFICES ASSUME NEW i \in 1..m PROVE P[0 + i] = H[0 + i]
      OBVIOUS
    <3>1. 0 + i = i /\ i \in 1..(m + n) /\ i <= m
      BY <1>3, <1>4
    <3>2. P[i] = H[i]
      BY <1>6, <3>1
    <3> QED BY <3>1, <3>2
  <2> QED BY <1>3, <2>1, Zenon DEF PlansSide
<1>8. PlansSide(P, "away", m, n, score["away"], statistics["away"])
  <2>1. \A i \in 1..n : P[m + i] = A[0 + i]
    <3> SUFFICES ASSUME NEW i \in 1..n PROVE P[m + i] = A[0 + i]
      OBVIOUS
    <3>1. PICK k : k = m + i
      OBVIOUS
    <3>2. k \in 1..(m + n) /\ ~(k <= m) /\ k - m = i /\ 0 + i = i
      BY <1>3, <1>4, <3>1
    <3>3. P[k] = A[i]
      BY <1>6, <3>2
    <3> QED BY <3>1, <3>2, <3>3
  <2> QED BY <1>4, <2>1, Zenon DEF PlansSide
<1>9. Offset("home", statistics) = 0 /\ Offset("away", statistics) = m
  BY DEF Offset, m
<1>10. ASSUME NEW side \in Sides
       PROVE  /\ Length(statistics[side]) \in Nat
              /\ PlansSide(P, side, Offset(side, statistics), Length(statistics[side]),
                           score[side], statistics[side])
  <2>1. CASE side = "home"
    BY <1>3, <1>7, <1>9, <2>1 DEF m
  <2>2. CASE side = "away"
    BY <1>4, <1>8, <1>9, <2>2 DEF n
  <2> QED BY <1>1, <2>1, <2>2
<1> QED BY <1>6, <1>10 DEF PlansBoth, m, n, P

\* events that got their times as the plan says
KeepsPlan(events, plan) ==
    /\ events \in Seq(Happening) /\ Len(events) <= Len(plan)
    /\ \A i \in 1..Len(events) : /\ events[i].side = plan[i].side
                                 /\ events[i].type = plan[i].type
                                 /\ events[i].time \in plan[i].period

\* where all events have those of a side, of each kind
SideHas(all, side, o, goals, s) ==
    \A i \in 1..Len(all) : LET e == all[i]
                               Own(types) == e.side = side /\ e.type \in types
                           IN  /\ Own({"goal"}) <=> i \in (o + 1)..(o + goals)
                               /\ Own({"goal"}) /\ e.time < 2700
                                    <=> i \in (o + 1)..(o + s.halfTime)
                               /\ Own(Shots) <=> i \in (o + 1)..(o + s.shots)
                               /\ Own(ShotsOnTarget) <=> i \in (o + 1)..(o + s.onTarget)
                               /\ Own({"foul"})
                                    <=> i \in (o + s.shots + 1)..(o + s.shots + s.fouls)

LEMMA MarkerFacts ==
    /\ Markers \in Seq(Happening) /\ Len(Markers) = 4
    /\ \A i \in 1..4 : Markers[i].side = NoSide /\ Markers[i].type \in MarkerTypes
    /\ Markers[1].type = "kickoff" /\ Markers[1].time = 0
    /\ Markers[4].type = "full_time" /\ Markers[4].time = 5400
    /\ Markers[2].type = "half_time" /\ Markers[2].time = 2700
    /\ Markers[3].type = "second_half" /\ Markers[3].time = 2760
<1> DEFINE a == Marker("kickoff", 0)
           b == Marker("half_time", 2700)
           c == Marker("second_half", 2760)
           d == Marker("full_time", 5400)
<1>1. /\ a \in Happening /\ b \in Happening /\ c \in Happening /\ d \in Happening
      /\ a.side = NoSide /\ b.side = NoSide /\ c.side = NoSide /\ d.side = NoSide
      /\ a.type = "kickoff" /\ b.type = "half_time" /\ c.type = "second_half"
      /\ d.type = "full_time"
      /\ a.time = 0 /\ b.time = 2700 /\ c.time = 2760 /\ d.time = 5400
  BY DEF Marker, Happening, MarkerTypes, Clock
<1>2. Markers = <<a, b, c, d>>
  BY DEF Markers
<1> HIDE DEF a, b, c, d
<1>3. Markers \in Seq(Happening) /\ Len(Markers) = 4
  BY <1>1, <1>2
<1>4. Markers[1] = a /\ Markers[2] = b /\ Markers[3] = c /\ Markers[4] = d
  BY <1>2
<1>5. \A i \in 1..4 : Markers[i] \in {a, b, c, d}
  <2>1. \A i \in 1..4 : i = 1 \/ i = 2 \/ i = 3 \/ i = 4
    OBVIOUS
  <2> QED BY <1>4, <2>1
<1>6. \A i \in 1..4 : Markers[i].side = NoSide /\ Markers[i].type \in MarkerTypes
  BY <1>1, <1>5 DEF MarkerTypes
<1> QED BY <1>1, <1>3, <1>4, <1>6

\* all the events of a match with their markers, in any order
Gathered(all, score, statistics) ==
    /\ all \in Seq(Happening)
    /\ \A side \in Sides :
         /\ Offset(side, statistics) \in Nat
         /\ Offset(side, statistics) + Length(statistics[side]) <= Len(all)
         /\ SideHas(all, side, Offset(side, statistics), score[side], statistics[side])
    /\ \E i \in 1..Len(all) : all[i].type = "kickoff"
    /\ \E i \in 1..Len(all) : all[i].type = "full_time"
    /\ \A i \in 1..Len(all) : /\ all[i].type = "kickoff" <=> all[i].time = 0
                              /\ all[i].type = "full_time" <=> all[i].time = 5400
                              /\ all[i].type = "goal" => all[i].time # 2700

LEMMA Halves ==
    /\ \A t \in FirstHalf : t \in Int /\ t < 2700
    /\ \A t \in SecondHalf : t \in Int /\ 2700 < t
<1>1. FirstHalf \subseteq 180..2699
  BY ReplayAssumption
<1>2. SecondHalf \subseteq 2820..5399
  BY ReplayAssumption
<1>3. ASSUME NEW t \in FirstHalf PROVE t \in Int /\ t < 2700
  <2>1. t \in 180..2699
    BY <1>1
  <2> QED BY <2>1
<1>4. ASSUME NEW t \in SecondHalf PROVE t \in Int /\ 2700 < t
  <2>1. t \in 2820..5399
    BY <1>2
  <2> QED BY <2>1
<1> QED BY <1>3, <1>4

\* An index past the part of a side is outside every range within it.
LEMMA PastThePart ==
    ASSUME NEW o \in Nat, NEW n \in Nat, NEW i \in Int, ~(o + 1 <= i /\ i <= o + n),
           NEW x \in Nat, NEW y \in Nat, x + y <= n
    PROVE  i \notin (o + x + 1)..(o + x + y)
<1>1. o + x + y <= o + n /\ o + 1 <= o + x + 1
  OBVIOUS
<1> QED BY <1>1

LEMMA WithinThePart ==
    ASSUME NEW o \in Nat, NEW j \in Nat, NEW x \in Nat, NEW y \in Nat
    PROVE  (j > x /\ j <= x + y) <=> o + j \in (o + x + 1)..(o + x + y)
OBVIOUS

LEMMA EventsGathered ==
    ASSUME NEW score, NEW statistics, Made(score, statistics),
           NEW plan, PlansBoth(plan, score, statistics),
           NEW events, KeepsPlan(events, plan), Len(events) = Len(plan)
    PROVE  Gathered(events \o Markers, score, statistics)
<1> DEFINE all == events \o Markers
           h == Length(statistics["home"])
           a == Length(statistics["away"])
           L == Len(plan)
<1>1. "home" \in Sides /\ "away" \in Sides /\ \A s \in Sides : s = "home" \/ s = "away"
  BY DEF Sides
<1>2. /\ h \in Nat /\ a \in Nat /\ L = h + a /\ plan \in Seq(Untimed)
      /\ PlansSide(plan, "home", 0, h, score["home"], statistics["home"])
      /\ PlansSide(plan, "away", h, a, score["away"], statistics["away"])
      /\ Offset("home", statistics) = 0 /\ Offset("away", statistics) = h
  BY <1>1 DEF PlansBoth, Offset
<1>3. /\ events \in Seq(Happening) /\ Len(events) = L
      /\ \A i \in 1..L : /\ events[i].side = plan[i].side /\ events[i].type = plan[i].type
                         /\ events[i].time \in plan[i].period
  BY DEF KeepsPlan
<1>4. ASSUME NEW i \in 1..L
      PROVE  /\ plan[i].side \in Sides /\ plan[i].type \in Types
             /\ plan[i].period \subseteq Playing
  <2>1. plan \in Seq(Untimed) /\ i \in 1..Len(plan)
    BY <1>2
  <2>2. plan[i] \in Untimed
    BY <2>1, ElementOfSeq
  <2>3. plan[i].side \in Sides /\ plan[i].type \in Types
    BY <2>2 DEF Untimed
  <2>4. plan[i].period \in SUBSET Playing
    BY <2>2 DEF Untimed
  <2> QED BY <2>3, <2>4
<1> HIDE DEF h, a, L, all
<1>5. /\ all \in Seq(Happening) /\ Len(all) = L + 4
      /\ \A i \in 1..(L + 4) : all[i] = IF i <= L THEN events[i] ELSE Markers[i - L]
  <2>1. Markers \in Seq(Happening) /\ Len(Markers) = 4
    BY MarkerFacts
  <2>2. /\ events \o Markers \in Seq(Happening)
        /\ Len(events \o Markers) = Len(events) + Len(Markers)
        /\ \A i \in 1..(Len(events) + Len(Markers)) : (events \o Markers)[i] =
             IF i <= Len(events) THEN events[i] ELSE Markers[i - Len(events)]
    <3>1. events \in Seq(Happening) /\ Markers \in Seq(Happening)
      BY <1>3, <2>1
    <3> QED BY <3>1, ConcatProperties
  <2>3. /\ events \o Markers \in Seq(Happening)
        /\ Len(events \o Markers) = L + 4
        /\ \A i \in 1..(L + 4) : (events \o Markers)[i] =
             IF i <= L THEN events[i] ELSE Markers[i - L]
    <3>1. Len(events) = L /\ Len(Markers) = 4
      BY <1>3, <2>1
    <3> QED BY <2>2, <3>1, Zenon
  <2> QED BY <2>3 DEF all
<1>6. L \in Nat
  BY <1>2
<1>7. \A i \in 1..L : i \in 1..(L + 4) /\ all[i] = events[i]
  BY <1>5, <1>6
<1>8. ASSUME NEW j \in 1..4
      PROVE  L + j \in 1..(L + 4) /\ all[L + j] = Markers[j]
  <2>1. PICK k : k = L + j
    OBVIOUS
  <2>2. k \in 1..(L + 4) /\ ~(k <= L) /\ k - L = j
    BY <1>6, <2>1
  <2>3. all[k] = Markers[j]
    BY <1>5, <2>2
  <2> QED BY <2>1, <2>2, <2>3
<1>9. \A i \in 1..(L + 4) : i \in 1..L \/ \E j \in 1..4 : i = L + j
  <2> SUFFICES ASSUME NEW i \in 1..(L + 4), i \notin 1..L PROVE \E j \in 1..4 : i = L + j
    OBVIOUS
  <2>1. i - L \in 1..4 /\ i = L + (i - L)
    BY <1>6
  <2> QED BY <2>1
<1>10. ASSUME NEW i \in 1..(L + 4), i \notin 1..L
       PROVE  all[i].side = NoSide /\ all[i].type \in MarkerTypes
  <2>1. PICK j \in 1..4 : i = L + j
    BY <1>9, <1>10
  <2>2. all[i] = Markers[j]
    BY <1>8, <2>1
  <2> QED BY <2>2, MarkerFacts
<1>11. ASSUME NEW side \in Sides, NEW o \in Nat, NEW n \in Nat, o + n <= L, NEW goals, NEW s,
              Balanced(goals, s), n = Length(s), PlansSide(plan, side, o, n, goals, s),
              \A i \in 1..L : i \notin (o + 1)..(o + n) => plan[i].side # side
       PROVE  SideHas(all, side, o, goals, s)
  <2>1. /\ goals \in Nat /\ s.halfTime \in Nat /\ s.shots \in Nat /\ s.onTarget \in Nat
        /\ s.fouls \in Nat /\ Substitutions \in Nat
        /\ s.halfTime <= goals /\ goals <= s.onTarget /\ s.onTarget <= s.shots
        /\ n = s.shots + s.fouls + Substitutions
    BY <1>11, ReplayAssumption DEF Balanced, Statistics, Length
  <2>2. side # NoSide
    BY DEF Sides, NoSide
  <2>3. ASSUME NEW i \in 1..(L + 4)
        PROVE  LET e == all[i]
                   Own(types) == e.side = side /\ e.type \in types
               IN  /\ Own({"goal"}) <=> i \in (o + 1)..(o + goals)
                   /\ Own({"goal"}) /\ e.time < 2700
                        <=> i \in (o + 1)..(o + s.halfTime)
                   /\ Own(Shots) <=> i \in (o + 1)..(o + s.shots)
                   /\ Own(ShotsOnTarget) <=> i \in (o + 1)..(o + s.onTarget)
                   /\ Own({"foul"})
                        <=> i \in (o + s.shots + 1)..(o + s.shots + s.fouls)
    <3>1. CASE i \notin (o + 1)..(o + n)
      <4>1. all[i].side # side
        <5>1. CASE i \in 1..L
          BY <1>3, <1>7, <1>11, <3>1, <5>1
        <5>2. CASE i \notin 1..L
          BY <1>10, <2>2, <5>2
        <5> QED BY <5>1, <5>2
      <4>2. /\ i \notin (o + 1)..(o + goals) /\ i \notin (o + 1)..(o + s.halfTime)
            /\ i \notin (o + 1)..(o + s.shots) /\ i \notin (o + 1)..(o + s.onTarget)
            /\ i \notin (o + s.shots + 1)..(o + s.shots + s.fouls)
        <5>1. i \in Int /\ ~(o + 1 <= i /\ i <= o + n)
          BY <1>6, <3>1
        <5>4. s.shots + s.fouls <= n /\ s.shots <= n
          <6>1. \A x, y, z \in Nat : x + y <= x + y + z /\ x <= x + y + z
            OBVIOUS
          <6> QED BY <2>1, <6>1
        <5>2. goals <= n /\ s.halfTime <= n /\ s.onTarget <= n
          <6>2. n \in Int /\ goals \in Int
            BY <2>1
          <6>3. s.onTarget <= n
            BY <2>1, <5>4, <6>2
          <6>4. goals <= n
            BY <2>1, <6>2, <6>3
          <6> QED BY <2>1, <6>2, <6>3, <6>4
        <5>5. \A x \in Nat : x <= n => i \notin (o + 1)..(o + x)
          BY <5>1
        <5>3. i \notin (o + s.shots + 1)..(o + s.shots + s.fouls)
          BY <2>1, <5>1, <5>4, PastThePart
        <5> QED BY <2>1, <5>2, <5>3, <5>4, <5>5
      <4> QED BY <4>1, <4>2
    <3>2. CASE i \in (o + 1)..(o + n)
      <4>1. PICK j \in 1..n : i = o + j
        <5>1. i - o \in 1..n /\ i = o + (i - o)
          BY <3>2
        <5> QED BY <5>1
      <4>2. i \in 1..L
        BY <1>6, <1>11, <4>1
      <4>3. /\ all[i].side = side /\ all[i].type = plan[i].type
            /\ all[i].time \in plan[i].period
            /\ plan[i].type = "goal" <=> j <= goals
            /\ plan[i].type \in ShotsOnTarget <=> j <= s.onTarget
            /\ plan[i].type \in Shots <=> j <= s.shots
            /\ plan[i].type = "foul" <=> j > s.shots /\ j <= s.shots + s.fouls
            /\ plan[i].type = "goal" =>
                 plan[i].period = IF j <= s.halfTime THEN FirstHalf ELSE SecondHalf
        BY <1>3, <1>7, <1>11, <4>1, <4>2 DEF PlansSide
      <4>4. /\ j <= goals <=> i \in (o + 1)..(o + goals)
            /\ j <= s.halfTime <=> i \in (o + 1)..(o + s.halfTime)
            /\ j <= s.shots <=> i \in (o + 1)..(o + s.shots)
            /\ j <= s.onTarget <=> i \in (o + 1)..(o + s.onTarget)
            /\ (j > s.shots /\ j <= s.shots + s.fouls)
                 <=> i \in (o + s.shots + 1)..(o + s.shots + s.fouls)
        <5>1. j \in Int /\ j >= 1
          BY <4>1
        <5>2. \A x \in Nat : j <= x <=> i \in (o + 1)..(o + x)
          BY <4>1, <5>1
        <5>3. (j > s.shots /\ j <= s.shots + s.fouls)
                <=> i \in (o + s.shots + 1)..(o + s.shots + s.fouls)
          <6>1. j \in Nat /\ o \in Nat /\ s.shots \in Nat /\ s.fouls \in Nat
            BY <2>1, <5>1
          <6> QED BY <4>1, <6>1, WithinThePart
        <5> QED BY <2>1, <5>2, <5>3
      <4>5. plan[i].type = "goal" => (all[i].time < 2700 <=> j <= s.halfTime)
        <5>1. \A t \in SecondHalf : ~(t < 2700)
          BY Halves
        <5> QED BY <4>3, <5>1, Halves
      <4>6. j <= s.halfTime => j <= goals
        BY <2>1
      <4> QED BY <4>3, <4>4, <4>5, <4>6
    <3> QED BY <3>1, <3>2
  <2> QED BY <1>5, <2>3 DEF SideHas
<1>12. SideHas(all, "home", 0, score["home"], statistics["home"])
  <2>1. \A i \in 1..L : i \notin (0 + 1)..(0 + h) => plan[i].side # "home"
    <3> SUFFICES ASSUME NEW i \in 1..L, i \notin 1..h PROVE plan[i].side # "home"
      BY <1>2
    <3>1. PICK j \in 1..a : i = h + j
      <4>1. i - h \in 1..a /\ i = h + (i - h)
        BY <1>2
      <4> QED BY <4>1
    <3>2. plan[i].side = "away"
      BY <1>2, <3>1 DEF PlansSide
    <3> QED BY <3>2
  <2>2. Balanced(score["home"], statistics["home"]) /\ 0 \in Nat /\ 0 + h <= L
    BY <1>1, <1>2 DEF Made
  <2> QED BY <1>1, <1>2, <1>11, <2>1, <2>2 DEF h
<1>13. SideHas(all, "away", h, score["away"], statistics["away"])
  <2>1. \A i \in 1..L : i \notin (h + 1)..(h + a) => plan[i].side # "away"
    <3> SUFFICES ASSUME NEW i \in 1..L, i \notin (h + 1)..(h + a) PROVE plan[i].side # "away"
      BY <1>2
    <3>1. i \in 1..h /\ 0 + i = i
      BY <1>2
    <3>2. plan[i].side = "home"
      BY <1>2, <3>1 DEF PlansSide
    <3> QED BY <3>2
  <2>2. Balanced(score["away"], statistics["away"]) /\ h + a <= L
    BY <1>1, <1>2 DEF Made
  <2> QED BY <1>1, <1>2, <1>11, <2>1, <2>2 DEF a
<1>14. ASSUME NEW side \in Sides
       PROVE  /\ Offset(side, statistics) \in Nat
              /\ Offset(side, statistics) + Length(statistics[side]) <= Len(all)
              /\ SideHas(all, side, Offset(side, statistics), score[side], statistics[side])
  <2>1. CASE side = "home"
    <3>1. Offset(side, statistics) = 0 /\ Length(statistics[side]) = h
      BY <1>2, <2>1 DEF h
    <3>2. 0 \in Nat /\ 0 + h <= Len(all)
      BY <1>2, <1>5
    <3> QED BY <1>12, <2>1, <3>1, <3>2
  <2>2. CASE side = "away"
    <3>1. Offset(side, statistics) = h /\ Length(statistics[side]) = a
      BY <1>2, <2>2 DEF a
    <3>2. h \in Nat /\ h + a <= Len(all)
      BY <1>2, <1>5
    <3> QED BY <1>13, <2>2, <3>1, <3>2
  <2> QED BY <1>1, <2>1, <2>2
<1>15. L + 1 \in 1..(L + 4) /\ all[L + 1].type = "kickoff"
  BY <1>8, MarkerFacts
<1>16. L + 4 \in 1..(L + 4) /\ all[L + 4].type = "full_time"
  BY <1>8, MarkerFacts
<1>17. ASSUME NEW i \in 1..(L + 4)
       PROVE  /\ all[i].type = "kickoff" <=> all[i].time = 0
              /\ all[i].type = "full_time" <=> all[i].time = 5400
              /\ all[i].type = "goal" => all[i].time # 2700
  <2>1. CASE i \in 1..L
    <3>1. /\ all[i].type = plan[i].type /\ all[i].time \in plan[i].period
          /\ plan[i].type \in Types
      BY <1>3, <1>4, <1>7, <2>1
    <3>0. all[i].time \in Playing
      <4>1. plan[i].period \subseteq Playing
        BY <1>4, <2>1
      <4> QED BY <3>1, <4>1
    <3>2. all[i].type # "kickoff" /\ all[i].type # "full_time"
      BY <3>1 DEF Types
    <3>3. all[i].time # 0 /\ all[i].time # 5400
      <4>1. \A t \in Playing : t # 0
        BY DEF Playing
      <4>2. \A t \in Playing : t # 5400
        BY DEF Playing
      <4> QED BY <3>0, <4>1, <4>2
    <3>4. all[i].type = "goal" => all[i].time # 2700
      <4>1. plan[i].type = "goal" => plan[i].period = FirstHalf \/ plan[i].period = SecondHalf
        <5>1. CASE i \in 1..h
          <6>1. 0 + i = i
            BY <1>2
          <6> QED BY <1>2, <5>1, <6>1 DEF PlansSide
        <5>2. CASE i \notin 1..h
          <6>1. PICK j \in 1..a : i = h + j
            <7>1. i - h \in 1..a /\ i = h + (i - h)
              BY <1>2, <2>1, <5>2
            <7> QED BY <7>1
          <6> QED BY <1>2, <6>1 DEF PlansSide
        <5> QED BY <5>1, <5>2
      <4>2. 2700 \notin FirstHalf /\ 2700 \notin SecondHalf
        BY Halves
      <4> QED BY <3>1, <4>1, <4>2
    <3> QED BY <3>2, <3>3, <3>4
  <2>2. CASE i \notin 1..L
    <3>1. PICK j \in 1..4 : i = L + j
      BY <1>9, <2>2
    <3>2. all[i] = Markers[j]
      BY <1>8, <3>1
    <3>3. /\ Markers[j].type = "kickoff" <=> Markers[j].time = 0
          /\ Markers[j].type = "full_time" <=> Markers[j].time = 5400
          /\ Markers[j].type # "goal"
      <4>1. j = 1 \/ j = 2 \/ j = 3 \/ j = 4
        OBVIOUS
      <4>2. CASE j = 1
        BY <4>2, MarkerFacts
      <4>3. CASE j = 2
        BY <4>3, MarkerFacts
      <4>4. CASE j = 3
        BY <4>4, MarkerFacts
      <4>5. CASE j = 4
        BY <4>5, MarkerFacts
      <4> QED BY <4>1, <4>2, <4>3, <4>4, <4>5
    <3> QED BY <3>2, <3>3
  <2> QED BY <2>1, <2>2
<1>18. Gathered(all, score, statistics)
  <2> HIDE DEF all
  <2>1. \E i \in 1..Len(all) : all[i].type = "kickoff"
    BY <1>5, <1>15
  <2>2. \E i \in 1..Len(all) : all[i].type = "full_time"
    BY <1>5, <1>16
  <2>3. \A i \in 1..Len(all) : /\ all[i].type = "kickoff" <=> all[i].time = 0
                               /\ all[i].type = "full_time" <=> all[i].time = 5400
                               /\ all[i].type = "goal" => all[i].time # 2700
    BY <1>5, <1>17
  <2> QED BY <1>5, <1>14, <2>1, <2>2, <2>3, Zenon DEF Gathered
<1> QED BY <1>18 DEF all

\* The counts of all events are those of the record.
CountsOf(events, score, statistics) ==
    \A side \in Sides : /\ Count(events, side, {"goal"}) = score[side]
                        /\ CountedStatistics(events, side) = statistics[side]

LEMMA IntervalCount ==
    ASSUME NEW o \in Int, NEW n \in Nat
    PROVE  /\ IsFiniteSet((o + 1)..(o + n))
           /\ Cardinality((o + 1)..(o + n)) = n
<1>1. PICK a, b : a = o + 1 /\ b = o + n
  OBVIOUS
<1>2. a \in Int /\ b \in Int /\ (IF a > b THEN 0 ELSE b - a + 1) = n
  BY <1>1
<1>3. IsFiniteSet(a..b) /\ Cardinality(a..b) = n
  BY <1>2, FS_Interval
<1> QED BY <1>1, <1>3

LEMMA GatheredCounts ==
    ASSUME NEW score, NEW statistics, Made(score, statistics),
           NEW all, Gathered(all, score, statistics)
    PROVE  CountsOf(all, score, statistics)
<1> SUFFICES ASSUME NEW side \in Sides
             PROVE  /\ Count(all, side, {"goal"}) = score[side]
                    /\ CountedStatistics(all, side) = statistics[side]
  BY DEF CountsOf
<1> DEFINE o == Offset(side, statistics)
           n == Len(all)
           goals == score[side]
           s == statistics[side]
<1>1. n \in Nat /\ DOMAIN all = 1..n
  BY LenProperties DEF Gathered
<1>2. SideHas(all, side, o, goals, s) /\ Balanced(goals, s)
  BY DEF Gathered, Made
<1>3. /\ goals \in Nat /\ s.halfTime \in Nat /\ s.shots \in Nat /\ s.onTarget \in Nat
      /\ s.fouls \in Nat /\ s \in Statistics
  BY <1>2 DEF Balanced, Statistics
<1>4. /\ o \in Nat /\ Substitutions \in Nat
      /\ o + (s.shots + s.fouls + Substitutions) <= n
      /\ s.halfTime <= goals /\ goals <= s.onTarget /\ s.onTarget <= s.shots
  <2>1. o \in Nat /\ o + Length(s) <= n
    BY DEF Gathered
  <2>2. Substitutions \in Nat
    BY ReplayAssumption
  <2> HIDE DEF o, n, goals, s
  <2>3. s.halfTime <= goals /\ goals <= s.onTarget /\ s.onTarget <= s.shots
    BY <1>2 DEF Balanced
  <2> QED BY <2>1, <2>2, <2>3 DEF Length
<1> HIDE DEF o, n, goals, s
<1> DEFINE Own(i, types) == all[i].side = side /\ all[i].type \in types
<1>5. /\ {i \in 1..n : Own(i, {"goal"})} = (o + 1)..(o + goals)
      /\ {i \in 1..n : Own(i, {"goal"}) /\ all[i].time < 2700} = (o + 1)..(o + s.halfTime)
      /\ {i \in 1..n : Own(i, Shots)} = (o + 1)..(o + s.shots)
      /\ {i \in 1..n : Own(i, ShotsOnTarget)} = (o + 1)..(o + s.onTarget)
      /\ {i \in 1..n : Own(i, {"foul"})} = (o + s.shots + 1)..(o + s.shots + s.fouls)
  <2>1. ASSUME NEW i \in 1..n
        PROVE  /\ Own(i, {"goal"}) <=> i \in (o + 1)..(o + goals)
               /\ Own(i, {"goal"}) /\ all[i].time < 2700 <=> i \in (o + 1)..(o + s.halfTime)
               /\ Own(i, Shots) <=> i \in (o + 1)..(o + s.shots)
               /\ Own(i, ShotsOnTarget) <=> i \in (o + 1)..(o + s.onTarget)
               /\ Own(i, {"foul"}) <=> i \in (o + s.shots + 1)..(o + s.shots + s.fouls)
    <3>1. i \in 1..Len(all)
      BY DEF n
    <3> QED BY <1>2, <3>1 DEF SideHas
  <2>2. /\ (o + 1)..(o + goals) \subseteq 1..n
        /\ (o + 1)..(o + s.halfTime) \subseteq 1..n
        /\ (o + 1)..(o + s.shots) \subseteq 1..n
        /\ (o + 1)..(o + s.onTarget) \subseteq 1..n
        /\ (o + s.shots + 1)..(o + s.shots + s.fouls) \subseteq 1..n
    <3>1. \A x \in Nat : o + x <= n => (o + 1)..(o + x) \subseteq 1..n
      BY <1>1, <1>4
    <3>2. /\ o + goals <= n /\ o + s.halfTime <= n /\ o + s.shots <= n /\ o + s.onTarget <= n
          /\ o + s.shots + s.fouls <= n
      <4>1. o + s.shots + s.fouls <= n
        <5>1. \A a, b \in Nat : o + (a + b + Substitutions) <= n => o + a + b <= n
          BY <1>1, <1>4
        <5> QED BY <1>3, <1>4, <5>1
      <4>2. o + s.shots <= n
        BY <1>1, <1>3, <1>4, <4>1
      <4>3. \A x \in Nat : x <= s.shots => o + x <= n
        BY <1>1, <1>3, <1>4, <4>2
      <4>4. s.onTarget <= s.shots /\ goals <= s.shots /\ s.halfTime <= s.shots
        BY <1>3, <1>4
      <4>5. o + goals <= n
        BY <1>3, <4>3, <4>4, Zenon
      <4>6. o + s.halfTime <= n
        BY <1>3, <4>3, <4>4, Zenon
      <4>7. o + s.onTarget <= n
        BY <1>3, <4>3, <4>4, Zenon
      <4> QED BY <4>1, <4>2, <4>5, <4>6, <4>7, Zenon
    <3>3. (o + s.shots + 1)..(o + s.shots + s.fouls) \subseteq 1..n
      <4>1. \A u, v \in Int : (1 <= u /\ v <= n) => u..v \subseteq 1..n
        BY <1>1
      <4>2. o + s.shots + 1 \in Int /\ o + s.shots + s.fouls \in Int /\ 1 <= o + s.shots + 1
        BY <1>3, <1>4
      <4> QED BY <3>2, <4>1, <4>2, Zenon
    <3> QED BY <1>3, <3>1, <3>2, <3>3
  <2> HIDE DEF Own
  <2>3. {i \in 1..n : Own(i, {"goal"})} = (o + 1)..(o + goals)
    BY <2>1, <2>2
  <2>4. {i \in 1..n : Own(i, {"goal"}) /\ all[i].time < 2700} = (o + 1)..(o + s.halfTime)
    BY <2>1, <2>2
  <2>5. {i \in 1..n : Own(i, Shots)} = (o + 1)..(o + s.shots)
    BY <2>1, <2>2
  <2>6. {i \in 1..n : Own(i, ShotsOnTarget)} = (o + 1)..(o + s.onTarget)
    BY <2>1, <2>2
  <2>7. {i \in 1..n : Own(i, {"foul"})} = (o + s.shots + 1)..(o + s.shots + s.fouls)
    BY <2>1, <2>2
  <2> QED BY <2>3, <2>4, <2>5, <2>6, <2>7
<1>6. /\ Cardinality((o + 1)..(o + goals)) = goals
      /\ Cardinality((o + 1)..(o + s.halfTime)) = s.halfTime
      /\ Cardinality((o + 1)..(o + s.shots)) = s.shots
      /\ Cardinality((o + 1)..(o + s.onTarget)) = s.onTarget
      /\ Cardinality((o + s.shots + 1)..(o + s.shots + s.fouls)) = s.fouls
  <2>1. o \in Int /\ o + s.shots \in Int
    BY <1>3, <1>4
  <2> QED BY <1>3, <2>1, IntervalCount
<1>7. \A types : Count(all, side, types) = Cardinality({i \in 1..n : Own(i, types)})
  BY <1>1 DEF Count
<1>8. Cardinality({i \in DOMAIN all : /\ all[i].side = side /\ all[i].type = "goal"
                                      /\ all[i].time < 2700}) = s.halfTime
  <2>1. {i \in DOMAIN all : all[i].side = side /\ all[i].type = "goal" /\ all[i].time < 2700}
          = {i \in 1..n : Own(i, {"goal"}) /\ all[i].time < 2700}
    BY <1>1
  <2>2. Cardinality((o + 1)..(o + s.halfTime)) = s.halfTime
    BY <1>6
  <2> QED BY <1>5, <2>1, <2>2, Zenon
<1> HIDE DEF Own
<1>9. /\ Count(all, side, {"goal"}) = goals
      /\ Count(all, side, Shots) = s.shots
      /\ Count(all, side, ShotsOnTarget) = s.onTarget
      /\ Count(all, side, {"foul"}) = s.fouls
  <2> DEFINE kind(types) == {i \in 1..n : Own(i, types)}
  <2>1. /\ kind({"goal"}) = (o + 1)..(o + goals)
        /\ kind(Shots) = (o + 1)..(o + s.shots)
        /\ kind(ShotsOnTarget) = (o + 1)..(o + s.onTarget)
        /\ kind({"foul"}) = (o + s.shots + 1)..(o + s.shots + s.fouls)
    BY <1>5
  <2>2. \A types : Count(all, side, types) = Cardinality(kind(types))
    BY <1>7
  <2> HIDE DEF kind
  <2> QED BY <1>6, <2>1, <2>2, Zenon
<1>10. CountedStatistics(all, side) =
         [halfTime |-> s.halfTime, shots |-> s.shots, onTarget |-> s.onTarget,
          fouls |-> s.fouls]
  BY <1>8, <1>9 DEF CountedStatistics, Shots, ShotsOnTarget
<1>11. s = [halfTime |-> s.halfTime, shots |-> s.shots, onTarget |-> s.onTarget,
            fouls |-> s.fouls]
  BY <1>3 DEF Statistics
<1> QED BY <1>9, <1>10, <1>11 DEF goals, s

-----------------------------------------------------------------------------
(* Sorting the events keeps what they count and puts their times in order *)

Permutes(order, n) == order \in Bijection(1..n, 1..n)

SortedBy(all, order) ==
    /\ Ordered(all) = [i \in 1..Len(all) |-> all[order[i]]]
    /\ \A i, j \in 1..Len(all) : i < j => all[order[i]].time <= all[order[j]].time

LEMMA HappeningTimes == \A e \in Happening : e.time \in Int
<1>1. \A e \in Happening : e.time \in Clock
  BY DEF Happening
<1>2. \A x \in Clock : x \in Int
  BY DEF Clock
<1> QED BY <1>1, <1>2

LEMMA OrderOfEvents ==
    ASSUME NEW all \in Seq(Happening)
    PROVE  \E order : Permutes(order, Len(all)) /\ SortedBy(all, order)
<1> DEFINE n == Len(all)
           S == 1..n
           earlier == [i \in S |-> {j \in S : ComesBefore(all, j, i)}]
           order == InPlaces(S, earlier)
           t == [i \in S |-> all[i].time]
           p == [i \in S |-> Priority(all[i].type)]
           r == [i \in S |-> SideRank(all[i].side)]
<1>1. n \in Nat /\ DOMAIN all = S /\ \A i \in S : all[i] \in Happening
  BY LenProperties
<1>2. t \in [S -> Int] /\ p \in [S -> Int] /\ r \in [S -> Int]
  <2>1. \A i \in S : all[i].time \in Int
    BY <1>1, HappeningTimes
  <2>2. \A type : Priority(type) \in Int
    BY DEF Priority
  <2>3. \A side : SideRank(side) \in Int
    <3> SUFFICES ASSUME NEW side PROVE SideRank(side) \in Int
      OBVIOUS
    <3>1. CASE side = NoSide
      BY <3>1 DEF SideRank
    <3>2. CASE side # NoSide /\ side = "away"
      BY <3>2 DEF SideRank, NoSide
    <3>3. CASE side # NoSide /\ side # "away"
      BY <3>3 DEF SideRank
    <3> QED BY <3>1, <3>2, <3>3
  <2> QED BY <2>1, <2>2, <2>3
<1> DEFINE before(i, j) == \/ t[i] < t[j]
                           \/ t[i] = t[j] /\ p[i] < p[j]
                           \/ /\ t[i] = t[j] /\ p[i] = p[j]
                              /\ \/ r[i] < r[j]
                                 \/ r[i] = r[j] /\ i < j
<1>3. \A i, j \in S : ComesBefore(all, i, j) <=> before(i, j)
  BY DEF ComesBefore
<1>4. Ordered(all) = [i \in S |-> all[order[i]]]
  BY <1>1 DEF Ordered
<1>5. earlier \in [S -> SUBSET S] /\ \A i, j \in S : j \in earlier[i] <=> before(j, i)
  <2> HIDE DEF before
  <2> QED BY <1>3
<1> HIDE DEF earlier, order, t, p, r
<1>6. \A i \in S : t[i] \in Int /\ p[i] \in Int /\ r[i] \in Int /\ i \in Int
  BY <1>1, <1>2
<1>7. \A i \in S : i \notin earlier[i]
  BY <1>5, <1>6
<1>8. \A i, j \in S : i # j => i \in earlier[j] \/ j \in earlier[i]
  <2> SUFFICES ASSUME NEW i \in S, NEW j \in S, i # j PROVE before(i, j) \/ before(j, i)
    BY <1>5
  <2>1. i < j \/ j < i
    BY <1>6
  <2> QED BY <1>6, <2>1
<1>9. \A i, j \in S : i \in earlier[j] => earlier[i] \subseteq earlier[j]
  <2> SUFFICES ASSUME NEW i \in S, NEW j \in S, i \in earlier[j], NEW k \in earlier[i]
               PROVE  k \in earlier[j]
    OBVIOUS
  <2>1. k \in S
    BY <1>5
  <2>2. before(i, j) /\ before(k, i)
    BY <1>5, <2>1
  <2>3. before(k, j)
    <3>1. PICK ti, tj, tk, pi, pj, pk, ri, rj, rk \in Int :
            /\ ti = t[i] /\ tj = t[j] /\ tk = t[k]
            /\ pi = p[i] /\ pj = p[j] /\ pk = p[k]
            /\ ri = r[i] /\ rj = r[j] /\ rk = r[k]
      BY <1>6, <2>1
    <3>2. i \in Int /\ j \in Int /\ k \in Int
      BY <1>6, <2>1
    <3>3. ti < tj \/ (ti = tj /\ (pi < pj \/ (pi = pj /\ (ri < rj \/ (ri = rj /\ i < j)))))
      BY <2>2, <3>1, Zenon
    <3>4. tk < ti \/ (tk = ti /\ (pk < pi \/ (pk = pi /\ (rk < ri \/ (rk = ri /\ k < i)))))
      BY <2>2, <3>1, Zenon
    <3>5. tk < tj \/ (tk = tj /\ (pk < pj \/ (pk = pj /\ (rk < rj \/ (rk = rj /\ k < j)))))
      BY <3>2, <3>3, <3>4
    <3> QED BY <3>1, <3>5, Zenon
  <2> HIDE DEF before
  <2> QED BY <1>5, <2>1, <2>3
<1>10. IsFiniteSet(S) /\ Cardinality(S) = n
  <2>1. 1 \in Int /\ n \in Int
    BY <1>1
  <2>2. IsFiniteSet(1..n) /\ Cardinality(1..n) = IF 1 > n THEN 0 ELSE n - 1 + 1
    BY <2>1, FS_Interval
  <2> QED BY <1>1, <2>2
<1>11. Lists(order, S, earlier)
  <2> HIDE DEF S, before
  <2> QED BY <1>5, <1>7, <1>8, <1>9, <1>10, InPlacesLists DEF order
<1>12. Len(order) = n
  <2> HIDE DEF S, before, n
  <2> QED BY <1>7, <1>10, <1>11, ListCardinality
<1>13. /\ \A x \in S : \E i \in S : order[i] = x
       /\ \A i, j \in S : i < j => order[i] \in earlier[order[j]]
       /\ order \in [S -> S]
  <2>1. /\ \A x \in S : \E i \in S : order[i] = x
        /\ \A i, j \in S : i < j => order[i] \in earlier[order[j]]
    BY <1>11, <1>12 DEF Lists
  <2>2. order \in Seq(S)
    BY <1>11 DEF Lists
  <2>3. order \in [S -> S]
    BY <1>12, <2>2, LenProperties
  <2> QED BY <2>1, <2>3
<1>14. \A i, j \in S : order[i] = order[j] => i = j
  <2> SUFFICES ASSUME NEW i \in S, NEW j \in S, order[i] = order[j], i < j PROVE FALSE
    BY <1>6
  <2>1. order[i] \in earlier[order[j]] /\ order[i] \in S
    BY <1>13
  <2> QED BY <1>7, <2>1
<1>15. Permutes(order, n)
  BY <1>13, <1>14 DEF Permutes, Bijection, Injection, Surjection, IsInjective
<1>16. ASSUME NEW i \in S, NEW j \in S, i < j
       PROVE  all[order[i]].time <= all[order[j]].time
  <2>1. PICK a \in S : a = order[i]
    BY <1>13
  <2>2. PICK b \in S : b = order[j]
    BY <1>13
  <2>3. a \in earlier[b]
    BY <1>13, <1>16, <2>1, <2>2
  <2>4. t[a] <= t[b]
    BY <1>5, <1>6, <2>3
  <2> QED BY <2>1, <2>2, <2>4 DEF t
<1> QED BY <1>4, <1>15, <1>16 DEF SortedBy

LEMMA SameCount ==
    ASSUME NEW n \in Nat, NEW order, Permutes(order, n), NEW I \in SUBSET (1..n)
    PROVE  Cardinality({k \in 1..n : order[k] \in I}) = Cardinality(I)
<1> DEFINE K == {k \in 1..n : order[k] \in I}
           f == [k \in K |-> order[k]]
<1>1. /\ order \in [1..n -> 1..n]
      /\ \A i, j \in 1..n : order[i] = order[j] => i = j
      /\ \A x \in 1..n : \E i \in 1..n : order[i] = x
  BY DEF Permutes, Bijection, Injection, Surjection, IsInjective
<1>2. f \in [K -> I] /\ (\A i, j \in K : f[i] = f[j] => i = j) /\ \A x \in I : \E i \in K : f[i] = x
  BY <1>1
<1>3. IsFiniteSet(K)
  <2>1. IsFiniteSet(1..n) /\ K \in SUBSET (1..n)
    BY FS_Interval
  <2> HIDE DEF K
  <2> QED BY <2>1, FS_Subset
<1> HIDE DEF K, f
<1>4. f \in Bijection(K, I)
  BY <1>2 DEF Bijection, Injection, Surjection, IsInjective
<1>5. Cardinality(I) = Cardinality(K)
  BY <1>3, <1>4, FS_Bijection DEF ExistsBijection
<1> QED BY <1>5 DEF K

LEMMA OrderedCounts ==
    ASSUME NEW all \in Seq(Happening), NEW order, Permutes(order, Len(all)),
           SortedBy(all, order), NEW score, NEW statistics, CountsOf(all, score, statistics)
    PROVE  CountsOf(Ordered(all), score, statistics)
<1> DEFINE n == Len(all)
           q == Ordered(all)
<1>1. n \in Nat /\ DOMAIN all = 1..n
  BY LenProperties
<1>2. DOMAIN q = 1..n /\ (\A k \in 1..n : q[k] = all[order[k]]) /\ order \in [1..n -> 1..n]
  BY DEF SortedBy, Permutes, Bijection, Injection
<1>3. ASSUME NEW side, NEW types PROVE Count(q, side, types) = Count(all, side, types)
  <2> DEFINE I == {i \in 1..n : all[i].side = side /\ all[i].type \in types}
             K == {k \in 1..n : order[k] \in I}
  <2>1. {k \in DOMAIN q : q[k].side = side /\ q[k].type \in types} = K
    BY <1>2
  <2>2. Count(q, side, types) = Cardinality(K)
    BY <2>1, Zenon DEF Count
  <2>3. Count(all, side, types) = Cardinality(I)
    BY <1>1, Zenon DEF Count
  <2>4. Cardinality(K) = Cardinality(I)
    <3>1. I \in SUBSET (1..n)
      OBVIOUS
    <3> HIDE DEF I
    <3> QED BY <1>1, <3>1, SameCount
  <2> QED BY <2>2, <2>3, <2>4
<1>4. ASSUME NEW side PROVE CountedStatistics(q, side) = CountedStatistics(all, side)
  <2> DEFINE I == {i \in 1..n : /\ all[i].side = side /\ all[i].type = "goal"
                                /\ all[i].time < 2700}
             K == {k \in 1..n : order[k] \in I}
             J(e) == {i \in DOMAIN e : /\ e[i].side = side /\ e[i].type = "goal"
                                       /\ e[i].time < 2700}
  <2>1. J(q) = K
    BY <1>2
  <2>2. J(all) = I
    BY <1>1
  <2>3. Cardinality(K) = Cardinality(I)
    <3>1. I \in SUBSET (1..n)
      OBVIOUS
    <3> HIDE DEF I
    <3> QED BY <1>1, <3>1, SameCount
  <2>4. Cardinality(J(q)) = Cardinality(J(all))
    <3> HIDE DEF I, J, K
    <3> QED BY <2>1, <2>2, <2>3
  <2>5. \A e : CountedStatistics(e, side) =
          [halfTime |-> Cardinality(J(e)),
           shots |-> Count(e, side, {"shot", "shot_on_target", "goal"}),
           onTarget |-> Count(e, side, {"shot_on_target", "goal"}),
           fouls |-> Count(e, side, {"foul"})]
    BY DEF CountedStatistics
  <2> HIDE DEF I, J, K, q
  <2> QED BY <1>3, <2>4, <2>5
<1> QED BY <1>3, <1>4 DEF CountsOf

-----------------------------------------------------------------------------
(* What is stored tells the match *)

Reported == [side : Sides \cup {NoSide}, type : Types \cup MarkerTypes, time : Clock,
             score : [Sides -> Nat]]

Told(events, score, statistics) ==
    /\ events \in Seq(Reported)
    /\ Consistent(events, score, statistics)
    /\ \A i, j \in 1..Len(events) : i < j => events[i].time <= events[j].time
    /\ \A i \in 1..Len(events) : events[i].type = "goal" => events[i].time # 2700

Alike(p, q) ==
    /\ DOMAIN p = DOMAIN q
    /\ \A i \in DOMAIN p : p[i].side = q[i].side /\ p[i].type = q[i].type /\ p[i].time = q[i].time

LEMMA AlikeCounts ==
    ASSUME NEW p, NEW q, Alike(p, q)
    PROVE  /\ \A side, types : Count(p, side, types) = Count(q, side, types)
           /\ \A side : CountedStatistics(p, side) = CountedStatistics(q, side)
<1>1. ASSUME NEW side, NEW types PROVE Count(p, side, types) = Count(q, side, types)
  <2>1. {i \in DOMAIN p : p[i].side = side /\ p[i].type \in types}
          = {i \in DOMAIN q : q[i].side = side /\ q[i].type \in types}
    BY DEF Alike
  <2> QED BY <2>1, Zenon DEF Count
<1>2. ASSUME NEW side PROVE CountedStatistics(p, side) = CountedStatistics(q, side)
  <2> DEFINE J(e) == {i \in DOMAIN e : /\ e[i].side = side /\ e[i].type = "goal"
                                       /\ e[i].time < 2700}
  <2>1. J(p) = J(q)
    BY DEF Alike
  <2>2. \A e : CountedStatistics(e, side) =
          [halfTime |-> Cardinality(J(e)),
           shots |-> Count(e, side, {"shot", "shot_on_target", "goal"}),
           onTarget |-> Count(e, side, {"shot_on_target", "goal"}),
           fouls |-> Count(e, side, {"foul"})]
    BY DEF CountedStatistics
  <2> HIDE DEF J
  <2> QED BY <1>1, <2>1, <2>2
<1> QED BY <1>1, <1>2

LEMMA CountIsNatural ==
    ASSUME NEW S, NEW p \in Seq(S), NEW side, NEW types
    PROVE  Count(p, side, types) \in Nat
<1> DEFINE I == {i \in DOMAIN p : p[i].side = side /\ p[i].type \in types}
<1>1. Len(p) \in Nat /\ DOMAIN p = 1..Len(p)
  BY LenProperties
<1>2. IsFiniteSet(1..Len(p)) /\ I \in SUBSET (1..Len(p))
  BY <1>1, FS_Interval
<1>3. Count(p, side, types) = Cardinality(I)
  BY DEF Count
<1> HIDE DEF I
<1> QED BY <1>2, <1>3, FS_Subset, FS_CardinalityType

LEMMA AlikeStarts ==
    ASSUME NEW S, NEW T, NEW p \in Seq(S), NEW q \in Seq(T), Alike(p, q), NEW i \in 1..Len(p)
    PROVE  Alike(SubSeq(p, 1, i), SubSeq(q, 1, i))
<1> DEFINE a == SubSeq(p, 1, i)
           b == SubSeq(q, 1, i)
<1>1. /\ DOMAIN p = 1..Len(p) /\ DOMAIN q = 1..Len(q) /\ Len(p) \in Nat /\ Len(q) \in Nat
      /\ \A k \in 1..Len(p) : p[k] \in S
      /\ \A k \in 1..Len(q) : q[k] \in T
  BY LenProperties, ElementOfSeq
<1>2. 1..Len(q) = 1..Len(p)
  BY <1>1 DEF Alike
<1>3. i \in Int /\ 1 <= i /\ \A k \in 1..i : k \in 1..Len(p)
  BY <1>1
<1>4. /\ a \in Seq(S) /\ Len(a) = IF 1 <= i THEN i - 1 + 1 ELSE 0
      /\ \A k \in 1..(i - 1 + 1) : a[k] = p[1 + k - 1]
  BY <1>1, <1>3, SubSeqProperties
<1>5. /\ b \in Seq(T) /\ Len(b) = IF 1 <= i THEN i - 1 + 1 ELSE 0
      /\ \A k \in 1..(i - 1 + 1) : b[k] = q[1 + k - 1]
  <2>1. \A k \in 1..i : q[k] \in T
    BY <1>1, <1>2, <1>3
  <2> QED BY <1>3, <2>1, SubSeqProperties
<1> HIDE DEF a, b
<1>6. Len(a) = i /\ Len(b) = i /\ i - 1 + 1 = i /\ \A k \in 1..i : 1 + k - 1 = k
  BY <1>3, <1>4, <1>5
<1>7. DOMAIN a = 1..i /\ DOMAIN b = 1..i
  BY <1>4, <1>5, <1>6, LenProperties
<1>8. \A k \in 1..i : a[k] = p[k] /\ b[k] = q[k] /\ k \in DOMAIN p
  BY <1>1, <1>3, <1>4, <1>5, <1>6
<1>9. Alike(a, b)
  BY <1>7, <1>8 DEF Alike
<1> QED BY <1>9 DEF a, b

LEMMA GatheredTold ==
    ASSUME NEW score, NEW statistics, Made(score, statistics),
           NEW pending, Gathered(pending \o Markers, score, statistics)
    PROVE  Told(FinalizeEvents(pending), score, statistics)
<1> DEFINE all == pending \o Markers
           n == Len(all)
           q == Ordered(all)
           events == FinalizeEvents(pending)
           goals(i) == [s \in Sides |-> Count(SubSeq(q, 1, i), s, {"goal"})]
<1>1. events = [i \in DOMAIN q |-> [side |-> q[i].side, type |-> q[i].type,
                                    time |-> q[i].time, score |-> goals(i)]]
  BY DEF FinalizeEvents
<1> HIDE DEF all, events, q
<1>2. Gathered(all, score, statistics) /\ all \in Seq(Happening) /\ n \in Nat
  BY LenProperties DEF all, Gathered
<1>3. CountsOf(all, score, statistics)
  BY <1>2, GatheredCounts
<1>4. PICK order : Permutes(order, n) /\ SortedBy(all, order)
  BY <1>2, OrderOfEvents
<1>5. /\ q = [i \in 1..n |-> all[order[i]]]
      /\ \A i, j \in 1..n : i < j => all[order[i]].time <= all[order[j]].time
  BY <1>4 DEF SortedBy, q
<1>6. order \in [1..n -> 1..n] /\ \A k \in 1..n : \E j \in 1..n : order[j] = k
  BY <1>4 DEF Permutes, Bijection, Injection, Surjection
<1>7. CountsOf(q, score, statistics)
  BY <1>2, <1>3, <1>4, OrderedCounts DEF q
<1> HIDE DEF n
<1>8. \A k \in 1..n : all[k] \in Happening
  BY <1>2, ElementOfSeq DEF n
<1>9. /\ q \in [1..n -> Happening] /\ q \in Seq(Happening) /\ Len(q) = n /\ DOMAIN q = 1..n
      /\ \A i \in 1..n : q[i] = all[order[i]]
  <2>1. q \in [1..n -> Happening]
    BY <1>5, <1>6, <1>8
  <2>2. q \in Seq(Happening) /\ Len(q) = n
    BY <1>2, <2>1, SeqDef, LenProperties
  <2> QED BY <1>5, <2>1, <2>2
<1>10. /\ DOMAIN events = 1..n
       /\ \A i \in 1..n : /\ events[i].side = q[i].side /\ events[i].type = q[i].type
                          /\ events[i].time = q[i].time /\ events[i].score = goals(i)
  <2> HIDE DEF goals
  <2> QED BY <1>1, <1>9
<1>11. Alike(events, q)
  BY <1>9, <1>10 DEF Alike
<1>12. ASSUME NEW i \in 1..n PROVE goals(i) \in [Sides -> Nat]
  <2>1. SubSeq(q, 1, i) \in Seq(Happening)
    <3>1. 1 \in Int /\ i \in Int /\ \A k \in 1..i : q[k] \in Happening
      BY <1>2, <1>9
    <3> QED BY <3>1, SubSeqProperties
  <2>2. \A s \in Sides : Count(SubSeq(q, 1, i), s, {"goal"}) \in Nat
    BY <2>1, CountIsNatural
  <2> QED BY <2>2
<1>13. events \in Seq(Reported) /\ Len(events) = n
  <2>1. ASSUME NEW i \in 1..n PROVE events[i] \in Reported
    <3>1. q[i] \in Happening
      BY <1>9
    <3>2. events[i] = [side |-> q[i].side, type |-> q[i].type, time |-> q[i].time,
                       score |-> goals(i)]
      <4> HIDE DEF goals
      <4> QED BY <1>1, <1>9
    <3>3. q[i].side \in Sides \cup {NoSide} /\ q[i].type \in Types \cup MarkerTypes
      BY <3>1 DEF Happening
    <3>4. q[i].time \in Clock
      BY <3>1 DEF Happening
    <3>5. goals(i) \in [Sides -> Nat]
      BY <1>12
    <3> HIDE DEF goals
    <3> QED BY <3>2, <3>3, <3>4, <3>5 DEF Reported
  <2>2. events \in [1..n -> Reported]
    <3> HIDE DEF goals
    <3> QED BY <1>1, <1>9, <2>1
  <2> QED BY <1>2, <2>2, SeqDef, LenProperties
<1> HIDE DEF goals
<1>14. \A i, j \in 1..n : i < j => q[i].time <= q[j].time
  BY <1>5, <1>9
<1>15. PICK a \in 1..n : q[a].type = "kickoff"
  <2>1. PICK k \in 1..n : all[k].type = "kickoff"
    BY <1>2, Zenon DEF Gathered, n
  <2>2. PICK a \in 1..n : order[a] = k
    BY <1>6
  <2> QED BY <1>9, <2>1, <2>2
<1>16. PICK b \in 1..n : q[b].type = "full_time"
  <2>1. PICK k \in 1..n : all[k].type = "full_time"
    BY <1>2, Zenon DEF Gathered, n
  <2>2. PICK b \in 1..n : order[b] = k
    BY <1>6
  <2> QED BY <1>9, <2>1, <2>2
<1>17. \A i \in 1..n : /\ q[i].type = "kickoff" <=> q[i].time = 0
                       /\ q[i].type = "full_time" <=> q[i].time = 5400
                       /\ q[i].type = "goal" => q[i].time # 2700
  <2>1. \A k \in 1..n : /\ all[k].type = "kickoff" <=> all[k].time = 0
                        /\ all[k].type = "full_time" <=> all[k].time = 5400
                        /\ all[k].type = "goal" => all[k].time # 2700
    BY <1>2 DEF Gathered, n
  <2> SUFFICES ASSUME NEW i \in 1..n
               PROVE  /\ q[i].type = "kickoff" <=> q[i].time = 0
                      /\ q[i].type = "full_time" <=> q[i].time = 5400
                      /\ q[i].type = "goal" => q[i].time # 2700
    OBVIOUS
  <2>2. PICK k \in 1..n : k = order[i]
    BY <1>6
  <2>3. q[i] = all[k]
    BY <1>9, <2>2
  <2> QED BY <2>1, <2>3
<1>18. \A i \in 1..n : q[i].time \in Int /\ 0 <= q[i].time /\ q[i].time <= 5400
  <2>1. \A e \in Happening : e.time \in Clock
    BY DEF Happening
  <2>2. \A x \in Clock : x \in Int /\ 0 <= x /\ x <= 5400
    BY DEF Clock
  <2> QED BY <1>9, <2>1, <2>2
<1>19. 1 \in 1..n /\ n \in 1..n
  BY <1>2
<1>20. events[1].type = "kickoff"
  <2>1. a = 1 \/ 1 < a
    BY <1>2
  <2>2. q[1].time <= q[a].time
    BY <1>14, <1>18, <1>19, <2>1
  <2>3. q[a].time = 0
    BY <1>15, <1>17
  <2>4. q[1].time = 0
    BY <1>18, <1>19, <2>2, <2>3
  <2> QED BY <1>10, <1>17, <1>19, <2>4
<1>21. Last(events).type = "full_time"
  <2>1. b = n \/ b < n
    BY <1>2
  <2>2. q[b].time <= q[n].time
    BY <1>14, <1>18, <1>19, <2>1
  <2>3. q[b].time = 5400
    BY <1>16, <1>17
  <2>4. q[n].time = 5400
    BY <1>18, <1>19, <2>2, <2>3
  <2> QED BY <1>10, <1>13, <1>17, <1>19, <2>4 DEF Last
<1>22. \A i \in 2..Len(events) : events[i - 1].time <= events[i].time
  <2> SUFFICES ASSUME NEW i \in 2..n PROVE events[i - 1].time <= events[i].time
    BY <1>13
  <2>1. PICK k : k = i - 1
    OBVIOUS
  <2>2. k \in 1..n /\ i \in 1..n /\ k < i
    BY <1>2, <2>1
  <2> QED BY <1>10, <1>14, <2>1, <2>2
<1>23. \A i \in DOMAIN events : \A side \in Sides :
         events[i].score[side] = Count(SubSeq(events, 1, i), side, {"goal"})
  <2> SUFFICES ASSUME NEW i \in 1..n, NEW side \in Sides
               PROVE  events[i].score[side] = Count(SubSeq(events, 1, i), side, {"goal"})
    BY <1>10
  <2>1. events[i].score[side] = Count(SubSeq(q, 1, i), side, {"goal"})
    BY <1>10 DEF goals
  <2>2. Alike(SubSeq(events, 1, i), SubSeq(q, 1, i))
    BY <1>9, <1>11, <1>13, AlikeStarts
  <2> QED BY <2>1, <2>2, AlikeCounts
<1>24. \A side \in Sides :
         /\ Count(events, side, {"goal"}) = score[side]
         /\ CountedStatistics(events, side) = statistics[side]
  BY <1>7, <1>11, AlikeCounts DEF CountsOf
<1>25. Consistent(events, score, statistics)
  BY <1>20, <1>21, <1>22, <1>23, <1>24 DEF Consistent
<1>26. \A i \in 1..Len(events) : events[i].type = "goal" => events[i].time # 2700
  BY <1>10, <1>13, <1>17
<1>27. \A i, j \in 1..Len(events) : i < j => events[i].time <= events[j].time
  BY <1>10, <1>13, <1>14
<1> QED BY <1>13, <1>25, <1>26, <1>27 DEF Told, events

-----------------------------------------------------------------------------
(* The page shows a beginning of the events *)

LEMMA Beginnings ==
    ASSUME NEW S, NEW q \in Seq(S), NEW m \in 0..Len(q)
    PROVE  /\ SubSeq(q, 1, m) \in Seq(S) /\ Len(SubSeq(q, 1, m)) = m
           /\ DOMAIN SubSeq(q, 1, m) = 1..m
           /\ \A k \in 1..m : SubSeq(q, 1, m)[k] = q[k] /\ k \in 1..Len(q)
<1> DEFINE a == SubSeq(q, 1, m)
<1>1. Len(q) \in Nat /\ m \in Nat /\ \A k \in 1..m : k \in 1..Len(q) /\ q[k] \in S
  BY LenProperties, ElementOfSeq
<1>2. /\ a \in Seq(S) /\ Len(a) = IF 1 <= m THEN m - 1 + 1 ELSE 0
      /\ \A k \in 1..(m - 1 + 1) : a[k] = q[1 + k - 1]
  BY <1>1, SubSeqProperties
<1> HIDE DEF a
<1>3. Len(a) = m /\ m - 1 + 1 = m /\ \A k \in 1..m : 1 + k - 1 = k
  BY <1>1, <1>2
<1>4. DOMAIN a = 1..m
  BY <1>2, <1>3, LenProperties
<1>5. \A k \in 1..m : a[k] = q[k] /\ k \in 1..Len(q)
  BY <1>1, <1>2, <1>3
<1> QED BY <1>2, <1>3, <1>4, <1>5 DEF a

LEMMA BeginningsPrefix ==
    ASSUME NEW S, NEW q \in Seq(S), NEW m \in 0..Len(q), NEW l \in 0..m
    PROVE  IsPrefix(SubSeq(q, 1, l), SubSeq(q, 1, m))
<1> DEFINE a == SubSeq(q, 1, l)
           b == SubSeq(q, 1, m)
<1>1. l \in 0..Len(q) /\ m \in Nat /\ l \in Nat /\ l <= m
  BY LenProperties
<1>2. a \in Seq(S) /\ Len(a) = l /\ \A k \in 1..l : a[k] = q[k]
  BY <1>1, Beginnings
<1>3. b \in Seq(S) /\ Len(b) = m /\ \A k \in 1..m : b[k] = q[k]
  BY Beginnings
<1> HIDE DEF a, b
<1> DEFINE c == SubSeq(a, 1, l)
           d == SubSeq(b, 1, l)
<1>4. c \in Seq(S) /\ Len(c) = l /\ \A k \in 1..l : c[k] = a[k]
  <2>1. l \in 0..Len(a)
    BY <1>1, <1>2
  <2> QED BY <1>2, <2>1, Beginnings
<1>5. d \in Seq(S) /\ Len(d) = l /\ \A k \in 1..l : d[k] = b[k]
  <2>1. l \in 0..Len(b)
    BY <1>1, <1>3
  <2> QED BY <1>3, <2>1, Beginnings
<1> HIDE DEF c, d
<1>6. \A k \in 1..l : k \in 1..m
  BY <1>1
<1>7. \A k \in 1..Len(c) : c[k] = d[k]
  BY <1>2, <1>3, <1>4, <1>5, <1>6
<1>8. c = d
  BY <1>4, <1>5, <1>7, SeqEqual
<1> QED BY <1>1, <1>2, <1>3, <1>8 DEF IsPrefix, a, b, c, d

LEMMA Lowest ==
    ASSUME NEW n \in Nat, NEW I \in SUBSET (1..n), \A i \in I : \A j \in 1..n : j < i => j \in I
    PROVE  \E m \in 0..n : I = 1..m
<1>1. CASE I = {}
  <2>1. I = 1..0 /\ 0 \in 0..n
    BY <1>1
  <2> QED BY <2>1
<1>2. CASE I # {}
  <2>1. IsFiniteSet(I) /\ I \subseteq Int
    <3>1. IsFiniteSet(1..n)
      BY FS_Interval
    <3>2. IsFiniteSet(I)
      BY <3>1, FS_Subset
    <3>3. 1..n \subseteq Int
      OBVIOUS
    <3> QED BY <3>2, <3>3
  <2>2. PICK m \in I : \A i \in I : i <= m
    BY <1>2, <2>1, LeastAndGreatest
  <2>3. m \in 1..n
    OBVIOUS
  <2>4. I \subseteq 1..m
    BY <2>1, <2>2, <2>3
  <2>5. \A j \in 1..m : j \in I
    <3> SUFFICES ASSUME NEW j \in 1..m PROVE j \in I
      OBVIOUS
    <3>1. j \in 1..n /\ (j = m \/ j < m)
      BY <2>3
    <3> QED BY <3>1
  <2>6. I = 1..m
    BY <2>4, <2>5
  <2>7. m \in 0..n
    BY <2>3
  <2> QED BY <2>6, <2>7
<1> QED BY <1>1, <1>2

LEMMA PickedBeginning ==
    ASSUME NEW S, NEW q \in Seq(S), NEW m \in 0..Len(q)
    PROVE  Picked(q, 1..m) = SubSeq(q, 1, m)
<1> DEFINE I == 1..m
           lower == [i \in I |-> {j \in I : j < i}]
           at == InPlaces(I, lower)
           place(k) == CHOOSE x \in I : Cardinality(lower[x]) = k - 1
<1>1. Len(q) \in Nat /\ m \in Nat
  BY LenProperties
<1>2. Cardinality(I) = m
  <2>1. 1 \in Int /\ m \in Int
    BY <1>1
  <2>2. Cardinality(1..m) = IF 1 > m THEN 0 ELSE m - 1 + 1
    BY <2>1, FS_Interval
  <2> QED BY <1>1, <2>2
<1>3. ASSUME NEW x \in I PROVE Cardinality(lower[x]) = x - 1
  <2>1. x \in Int /\ 1 <= x
    BY <1>1
  <2>2. {j \in I : j < x} = 1..(x - 1)
    BY <1>1, <1>3
  <2>3. lower[x] = 1..(x - 1)
    BY <2>2
  <2>4. PICK y : y = x - 1
    OBVIOUS
  <2>5. 1 \in Int /\ y \in Int /\ y >= 0
    BY <2>1, <2>4
  <2>6. Cardinality(1..y) = IF 1 > y THEN 0 ELSE y - 1 + 1
    BY <2>5, FS_Interval
  <2>7. Cardinality(1..y) = y
    BY <2>5, <2>6
  <2> QED BY <2>3, <2>4, <2>7
<1> HIDE DEF lower
<1>4. ASSUME NEW k \in I PROVE place(k) = k
  <2>1. \A x \in I : Cardinality(lower[x]) = k - 1 <=> x = k
    BY <1>1, <1>3
  <2>2. place(k) = CHOOSE x \in I : x = k
    BY <2>1
  <2> QED BY <2>2
<1>5. at = [k \in 1..m |-> place(k)]
  BY <1>2, Zenon DEF InPlaces
<1>6. \A k \in 1..m : at[k] = k
  <2> HIDE DEF at, place
  <2> QED BY <1>4, <1>5
<1>7. Picked(q, 1..m) = [k \in 1..m |-> q[at[k]]]
  BY <1>2, Zenon DEF Picked, lower
<1> HIDE DEF at
<1>8. Picked(q, 1..m) = [k \in 1..m |-> q[k]]
  BY <1>6, <1>7
<1>9. SubSeq(q, 1, m) = [k \in 1..m |-> q[k]]
  <2> DEFINE a == SubSeq(q, 1, m)
  <2>1. a \in Seq(S) /\ Len(a) = m /\ \A k \in 1..m : a[k] = q[k]
    BY Beginnings
  <2>2. a \in [1..m -> S]
    <3> HIDE DEF a
    <3> QED BY <2>1, LenProperties
  <2> HIDE DEF a
  <2>3. a = [k \in 1..m |-> q[k]]
    BY <2>1, <2>2
  <2> QED BY <2>3 DEF a
<1> QED BY <1>8, <1>9

LEMMA ClockRuns ==
    /\ \A e \in Nat : FootballSecond(e) \in Int
    /\ \A e \in Nat : FootballSecond(e) <= FootballSecond(e + 1)
    /\ \A e \in 25..34 : FootballSecond(e) = 2700 /\ ~Complete(e) /\ e \in Nat
    /\ \A e \in Nat : Complete(e) => Complete(e + 1)
    /\ \A e \in Nat : Complete(e) <=> e >= 60
<1>1. \A e \in Nat : /\ e < 25 => FootballSecond(e) = 108 * e
                     /\ (e >= 25 /\ e < 35) => FootballSecond(e) = 2700
                     /\ (e >= 35 /\ e < 60) => FootballSecond(e) = 2700 + 108 * (e - 35)
                     /\ e >= 60 => FootballSecond(e) = 5400
  BY DEF FootballSecond, Duration
<1>2. \A e \in Nat : Complete(e) <=> e >= 60
  BY DEF Complete, Duration
<1>3. \A e \in Nat : FootballSecond(e) \in Int
  BY <1>1
<1>4. \A e \in Nat : FootballSecond(e) <= FootballSecond(e + 1)
  <2> SUFFICES ASSUME NEW e \in Nat PROVE FootballSecond(e) <= FootballSecond(e + 1)
    OBVIOUS
  <2>1. PICK d \in Nat : d = e + 1
    OBVIOUS
  <2>2. FootballSecond(e) <= FootballSecond(d)
    BY <1>1, <2>1
  <2> QED BY <2>1, <2>2
<1>5. \A e \in 25..34 : FootballSecond(e) = 2700 /\ ~Complete(e) /\ e \in Nat
  BY <1>1, <1>2
<1>6. \A e \in Nat : Complete(e) => Complete(e + 1)
  BY <1>2
<1> QED BY <1>2, <1>3, <1>4, <1>5, <1>6

LEMMA ClockSteps ==
    ASSUME NEW d \in Nat
    PROVE  /\ FootballSecond(d) \in Int
           /\ FootballSecond(d) <= FootballSecond(d + 1)
           /\ Complete(d) => Complete(d + 1)
<1>1. /\ \A e \in Nat : FootballSecond(e) \in Int
      /\ \A e \in Nat : FootballSecond(e) <= FootballSecond(e + 1)
      /\ \A e \in Nat : Complete(e) => Complete(e + 1)
  BY ClockRuns
<1> QED BY <1>1

\* The first m events are those the page shows at a time.
ShownAt(e, m) ==
    \A i \in 1..Len(rpEvents) :
      i <= m <=> (Complete(e) \/ rpEvents[i].time <= FootballSecond(e))

LEMMA VisibleStart ==
    ASSUME Told(rpEvents, rpScore, rpStatistics), NEW e \in Nat
    PROVE  \E m \in 0..Len(rpEvents) :
             VisibleEvents(e) = SubSeq(rpEvents, 1, m) /\ ShownAt(e, m)
<1>1. PICK q : q = rpEvents
  OBVIOUS
<1> DEFINE n == Len(q)
           shown(i) == Complete(e) \/ q[i].time <= FootballSecond(e)
           I == {i \in 1..n : shown(i)}
<1>2. q \in Seq(Reported) /\ n \in Nat /\ DOMAIN q = 1..n /\ \A i \in 1..n : q[i] \in Reported
  BY <1>1, LenProperties, ElementOfSeq DEF Told
<1>3. \A i \in 1..n : q[i].time \in Int
  <2>1. \A x \in Reported : x.time \in Clock
    BY DEF Reported
  <2>2. \A x \in Clock : x \in Int
    BY DEF Clock
  <2> QED BY <1>2, <2>1, <2>2
<1>4. \A i, j \in 1..n : i < j => q[i].time <= q[j].time
  BY <1>1 DEF Told
<1>5. FootballSecond(e) \in Int
  BY ClockRuns
<1>6. \A i \in I : \A j \in 1..n : j < i => j \in I
  <2> SUFFICES ASSUME NEW i \in I, NEW j \in 1..n, j < i PROVE shown(j)
    OBVIOUS
  <2>1. CASE Complete(e)
    BY <2>1
  <2>2. CASE ~Complete(e)
    <3>1. q[i].time <= FootballSecond(e) /\ q[j].time <= q[i].time
      BY <1>4, <2>2
    <3>2. q[i].time \in Int /\ q[j].time \in Int
      BY <1>3
    <3> QED BY <1>5, <3>1, <3>2
  <2> QED BY <2>1, <2>2
<1>7. I \in SUBSET (1..n)
  OBVIOUS
<1>8. VisibleEvents(e) = Picked(q, I)
  BY <1>1, <1>2 DEF VisibleEvents
<1>9. \A i \in 1..n : i \in I <=> shown(i)
  OBVIOUS
<1> HIDE DEF I, shown
<1>10. PICK m \in 0..n : I = 1..m
  BY <1>2, <1>6, <1>7, Lowest
<1>11. VisibleEvents(e) = SubSeq(q, 1, m)
  BY <1>2, <1>8, <1>10, PickedBeginning
<1>12. \A i \in 1..n : i <= m <=> shown(i)
  BY <1>2, <1>9, <1>10
<1>13. ShownAt(e, m)
  BY <1>1, <1>12 DEF ShownAt, shown
<1> QED BY <1>1, <1>11, <1>13

\* The part of ReplayTellsTheMatch about the page.
PageTells ==
    LET page == Page(rpElapsed)
        visible == VisibleEvents(rpElapsed)
    IN  /\ IsPrefix(visible, rpEvents)
        /\ rpElapsed > 0 => IsPrefix(VisibleEvents(rpElapsed - 1), visible)
        /\ \A s \in Sides :
             /\ page.score[s] = Count(visible, s, {"goal"})
             /\ rpElapsed \in 25..34 => page.score[s] = rpStatistics[s].halfTime
             /\ page.finished =>
                  page.score[s] = rpScore[s] /\ page.statistics[s] = rpStatistics[s]

LEMMA PageOfTold ==
    ASSUME Told(rpEvents, rpScore, rpStatistics), rpElapsed \in Nat
    PROVE  PageTells
<1>1. PICK q : q = rpEvents
  OBVIOUS
<1>2. PICK e : e = rpElapsed
  OBVIOUS
<1> DEFINE n == Len(q)
           page == Page(e)
           visible == VisibleEvents(e)
<1>3. /\ q \in Seq(Reported) /\ n \in Nat /\ DOMAIN q = 1..n
      /\ \A i \in 1..n : q[i] \in Reported
      /\ e \in Nat
  BY <1>1, <1>2, LenProperties, ElementOfSeq DEF Told
<1>4. PICK m \in 0..n : visible = SubSeq(q, 1, m) /\ ShownAt(e, m)
  BY <1>1, <1>3, VisibleStart
<1>5. \A i \in 1..n : i <= m <=> (Complete(e) \/ q[i].time <= FootballSecond(e))
  BY <1>1, <1>4 DEF ShownAt
<1>6. \A i \in 1..n : q[i].time \in Int
  <2>1. \A x \in Reported : x.time \in Clock
    BY DEF Reported
  <2>2. \A x \in Clock : x \in Int
    BY DEF Clock
  <2> QED BY <1>3, <2>1, <2>2
<1> HIDE DEF n, page, visible
<1>7. /\ visible \in Seq(Reported) /\ Len(visible) = m /\ DOMAIN visible = 1..m
      /\ \A k \in 1..m : visible[k] = q[k] /\ k \in 1..n
  BY <1>3, <1>4, Beginnings DEF n
<1>8. SubSeq(q, 1, n) = q
  BY <1>3, SubSeqFull DEF n
<1>9. IsPrefix(visible, q)
  <2>1. n \in 0..n /\ m \in 0..n
    BY <1>3
  <2>2. IsPrefix(SubSeq(q, 1, m), SubSeq(q, 1, n))
    BY <1>3, <2>1, BeginningsPrefix DEF n
  <2> QED BY <1>4, <1>8, <2>2
<1>10. e > 0 => IsPrefix(VisibleEvents(e - 1), visible)
  <2> SUFFICES ASSUME e > 0 PROVE IsPrefix(VisibleEvents(e - 1), visible)
    OBVIOUS
  <2>1. PICK d \in Nat : d = e - 1 /\ d + 1 = e
    <3>1. e - 1 \in Nat /\ e - 1 + 1 = e
      BY <1>3
    <3> QED BY <3>1
  <2>2. PICK l \in 0..n : VisibleEvents(d) = SubSeq(q, 1, l) /\ ShownAt(d, l)
    BY <1>1, VisibleStart DEF n
  <2>3. \A i \in 1..n : i <= l <=> (Complete(d) \/ q[i].time <= FootballSecond(d))
    BY <1>1, <2>2 DEF ShownAt, n
  <2>4. /\ FootballSecond(d) <= FootballSecond(e) /\ (Complete(d) => Complete(e))
        /\ FootballSecond(d) \in Int /\ FootballSecond(e) \in Int
    <3>1. FootballSecond(d) <= FootballSecond(d + 1) /\ (Complete(d) => Complete(d + 1))
      BY ClockSteps
    <3>2. FootballSecond(d) \in Int /\ FootballSecond(e) \in Int
      BY <1>3, ClockSteps
    <3> QED BY <2>1, <3>1, <3>2
  <2>5. \A i \in 1..n : i <= l => i <= m
    BY <1>5, <1>6, <2>3, <2>4
  <2>6. l \in 0..m
    <3>1. l \in Nat /\ m \in Nat /\ l <= n /\ m <= n
      BY <1>3
    <3>2. l = 0 \/ l <= m
      <4>1. l = 0 \/ l \in 1..n
        BY <1>3, <3>1
      <4> QED BY <2>5, <3>1, <4>1
    <3> QED BY <3>1, <3>2
  <2>7. IsPrefix(SubSeq(q, 1, l), SubSeq(q, 1, m))
    BY <1>3, <2>6, BeginningsPrefix DEF n
  <2> QED BY <1>4, <2>1, <2>2, <2>7
<1>11. Consistent(q, rpScore, rpStatistics)
  BY <1>1 DEF Told
<1>12. page.statistics = [s \in Sides |-> CountedStatistics(visible, s)] /\ page.finished = Complete(e)
       /\ page.score = IF visible = <<>> THEN [s \in Sides |-> 0] ELSE Last(visible).score
  BY DEF page, visible, Page
<1>13. ASSUME NEW s \in Sides
       PROVE  page.score[s] = Count(visible, s, {"goal"})
  <2>1. CASE m = 0
    <3>1. visible = <<>>
      BY <1>7, <2>1, EmptySeq
    <3>2. page.score[s] = 0
      BY <1>12, <3>1
    <3>3. {i \in DOMAIN visible : visible[i].side = s /\ visible[i].type \in {"goal"}} = {}
      BY <1>7, <2>1
    <3>4. Count(visible, s, {"goal"}) = Cardinality({})
      BY <3>3, Zenon DEF Count
    <3> QED BY <3>2, <3>4, FS_EmptySet
  <2>2. CASE m # 0
    <3>1. m \in 1..m /\ m \in 1..n
      BY <1>3, <2>2
    <3>2. visible # <<>>
      BY <1>7, <2>2
    <3>3. Last(visible) = q[m]
      BY <1>7, <3>1 DEF Last
    <3>4. q[m].score[s] = Count(SubSeq(q, 1, m), s, {"goal"})
      BY <1>3, <1>11, <3>1 DEF Consistent
    <3> QED BY <1>4, <1>12, <3>2, <3>3, <3>4
  <2> QED BY <2>1, <2>2
<1>14. ASSUME NEW s \in Sides, e \in 25..34
       PROVE  page.score[s] = rpStatistics[s].halfTime
  <2>1. FootballSecond(e) = 2700 /\ ~Complete(e)
    BY <1>14, ClockRuns
  <2>2. \A i \in 1..n : q[i].type = "goal" => q[i].time # 2700
    BY <1>1 DEF Told, n
  <2>3. \A i \in 1..n : q[i].type = "goal" => (i <= m <=> q[i].time < 2700)
    BY <1>5, <1>6, <2>1, <2>2
  <2>4. {i \in DOMAIN visible : visible[i].side = s /\ visible[i].type \in {"goal"}}
          = {i \in DOMAIN q : q[i].side = s /\ q[i].type = "goal" /\ q[i].time < 2700}
    <3>1. \A i \in 1..n : i \in 1..m <=> i <= m
      BY <1>3
    <3> QED BY <1>3, <1>7, <2>3, <3>1
  <2>5. Count(visible, s, {"goal"}) = CountedStatistics(q, s).halfTime
    BY <2>4 DEF Count, CountedStatistics
  <2>6. CountedStatistics(q, s) = rpStatistics[s]
    BY <1>11 DEF Consistent
  <2> QED BY <1>13, <2>5, <2>6
<1>15. ASSUME NEW s \in Sides, page.finished
       PROVE  page.score[s] = rpScore[s] /\ page.statistics[s] = rpStatistics[s]
  <2>1. Complete(e)
    BY <1>12, <1>15
  <2>2. m = n
    <3>1. \A i \in 1..n : i <= m
      BY <1>5, <2>1
    <3>2. n = 0 \/ n \in 1..n
      BY <1>3
    <3> QED BY <1>3, <3>1, <3>2
  <2>3. visible = q
    BY <1>4, <1>8, <2>2
  <2>4. Count(q, s, {"goal"}) = rpScore[s] /\ CountedStatistics(q, s) = rpStatistics[s]
    BY <1>11 DEF Consistent
  <2> QED BY <1>12, <1>13, <2>3, <2>4
<1> QED BY <1>1, <1>2, <1>9, <1>10, <1>13, <1>14, <1>15 DEF PageTells, page, visible

-----------------------------------------------------------------------------
(* The inductive invariant *)

NothingYet == StoredReplayStart

\* the events that have a time and those to come make up the plan
Growing ==
    LET plan == Plan(rpScore, rpStatistics)
    IN  /\ KeepsPlan(rpEvents, plan)
        /\ rpToCome \in Seq(Untimed)
        /\ Len(rpEvents) + Len(rpToCome) = Len(plan)
        /\ \A i \in 1..Len(rpToCome) : rpToCome[i] = plan[Len(rpEvents) + i]

ReplayInv ==
    \/ NothingYet
    \/ /\ Made(rpScore, rpStatistics) /\ rpElapsed \in Nat
       /\ \/ rpStored = FALSE /\ Growing
          \/ rpStored = TRUE /\ rpToCome = <<>> /\ Told(rpEvents, rpScore, rpStatistics)

LEMMA ScoreIsSome ==
    ASSUME NEW score, NEW statistics, Made(score, statistics) PROVE score # <<>>
<1>1. DOMAIN score = Sides /\ "home" \in Sides
  BY DEF Made, Sides
<1>2. \A f : f = <<>> => DOMAIN f = {}
  OBVIOUS
<1> QED BY <1>1, <1>2

LEMMA SampleStep == ReplayInv /\ Sample => ReplayInv'
<1> SUFFICES ASSUME ReplayInv, Sample PROVE ReplayInv'
  OBVIOUS
<1>1. /\ rpScore = <<>> /\ rpScore' \in Scorelines
      /\ rpEvents' = rpEvents /\ rpStored' = rpStored /\ rpElapsed' = rpElapsed
  BY DEF Sample
<1>2. StoredReplayStart
  BY <1>1, ScoreIsSome DEF ReplayInv, NothingYet
<1>3. PICK home \in Samples, away \in Samples :
        /\ rpStatistics' = [s \in Sides |->
             Adjusted(rpScore'[s], IF s = "home" THEN home ELSE away)]
        /\ rpToCome' = Plan(rpScore', rpStatistics')
  BY DEF Sample
<1>4. PICK score, statistics : score = rpScore' /\ statistics = rpStatistics'
  OBVIOUS
<1>5. score \in [Sides -> Nat]
  BY <1>1, <1>4, ReplayAssumption
<1>6. \A s \in Sides : Balanced(score[s], statistics[s])
  <2> SUFFICES ASSUME NEW s \in Sides PROVE Balanced(score[s], statistics[s])
    OBVIOUS
  <2>1. PICK sample \in Samples : sample = IF s = "home" THEN home ELSE away
    OBVIOUS
  <2>2. statistics[s] = Adjusted(score[s], sample)
    BY <1>3, <1>4, <2>1
  <2>3. score[s] \in Nat
    BY <1>5
  <2> QED BY <2>2, <2>3, AdjustedBalances
<1>7. statistics \in [Sides -> Statistics]
  <2>1. statistics = [s \in Sides |-> statistics[s]]
    BY <1>3, <1>4
  <2>2. \A s \in Sides : statistics[s] \in Statistics
    BY <1>6 DEF Balanced
  <2> QED BY <2>1, <2>2
<1>8. Made(score, statistics)
  BY <1>5, <1>6, <1>7 DEF Made
<1>9. PICK plan : plan = Plan(score, statistics)
  OBVIOUS
<1>10. PlansBoth(plan, score, statistics)
  BY <1>8, <1>9, BothArePlanned
<1>11. plan \in Seq(Untimed) /\ Len(plan) \in Nat
  BY <1>10, LenProperties DEF PlansBoth
<1>12. rpToCome' = plan /\ rpEvents' = <<>> /\ rpStored' = FALSE /\ rpElapsed' = 0
  BY <1>1, <1>2, <1>3, <1>4, <1>9 DEF StoredReplayStart
<1>13. KeepsPlan(<<>>, plan) /\ Len(<<>>) = 0
  <2>1. <<>> \in Seq(Happening) /\ Len(<<>>) = 0
    BY EmptySeq
  <2> QED BY <1>11, <2>1 DEF KeepsPlan
<1>14. \A i \in 1..Len(plan) : plan[i] = plan[0 + i]
  BY <1>11
<1>15. Growing'
  <2>1. Len(<<>>) + Len(plan) = Len(plan)
    BY <1>11, <1>13
  <2> QED BY <1>4, <1>9, <1>11, <1>12, <1>13, <1>14, <2>1 DEF Growing
<1> QED BY <1>4, <1>8, <1>12, <1>15 DEF ReplayInv

LEMMA SampleTimeStep == ReplayInv /\ SampleTime => ReplayInv'
<1> SUFFICES ASSUME ReplayInv, SampleTime PROVE ReplayInv'
  OBVIOUS
<1>1. /\ rpToCome # <<>> /\ rpToCome' = Tail(rpToCome)
      /\ rpScore' = rpScore /\ rpStatistics' = rpStatistics /\ rpStored' = rpStored
      /\ rpElapsed' = rpElapsed
  BY DEF SampleTime
<1>2. Made(rpScore, rpStatistics) /\ rpElapsed \in Nat /\ rpStored = FALSE /\ Growing
  BY <1>1 DEF ReplayInv, NothingYet, StoredReplayStart
<1>3. PICK time \in Head(rpToCome).period :
        rpEvents' = Append(rpEvents, [side |-> Head(rpToCome).side, type |-> Head(rpToCome).type,
                                      time |-> time])
  BY DEF SampleTime
<1>4. PICK plan : plan = Plan(rpScore, rpStatistics)
  OBVIOUS
<1>5. /\ KeepsPlan(rpEvents, plan) /\ rpToCome \in Seq(Untimed)
      /\ Len(rpEvents) + Len(rpToCome) = Len(plan)
      /\ \A i \in 1..Len(rpToCome) : rpToCome[i] = plan[Len(rpEvents) + i]
  BY <1>2, <1>4 DEF Growing
<1>6. PICK q : q = rpEvents
  OBVIOUS
<1>7. PICK c : c = rpToCome
  OBVIOUS
<1> DEFINE m == Len(q)
           n == Len(c)
           e == [side |-> c[1].side, type |-> c[1].type, time |-> time]
<1>8. /\ q \in Seq(Happening) /\ m \in Nat /\ c \in Seq(Untimed) /\ n \in Nat /\ n > 0
      /\ m + n = Len(plan) /\ (\A i \in 1..n : c[i] = plan[m + i])
  <2>1. q \in Seq(Happening) /\ c \in Seq(Untimed)
    BY <1>5, <1>6, <1>7 DEF KeepsPlan
  <2>2. m \in Nat /\ n \in Nat
    BY <2>1, LenProperties
  <2>3. n > 0
    BY <1>1, <1>7, <2>1, EmptySeq
  <2> QED BY <1>5, <1>6, <1>7, <2>1, <2>2, <2>3
<1>9. /\ \A i \in 1..m : /\ q[i].side = plan[i].side /\ q[i].type = plan[i].type
                         /\ q[i].time \in plan[i].period
  BY <1>5, <1>6 DEF KeepsPlan
<1>10. Head(c) = c[1] /\ c[1] \in Untimed /\ c[1] = plan[m + 1]
  <2>1. 1 \in 1..n
    BY <1>8
  <2> QED BY <1>8, <2>1, ElementOfSeq
<1>11. /\ Tail(c) \in Seq(Untimed) /\ Len(Tail(c)) = n - 1
       /\ \A i \in 1..(n - 1) : Tail(c)[i] = c[i + 1]
  <2>1. c # <<>>
    BY <1>1, <1>7
  <2>2. /\ Tail(c) \in Seq(Untimed) /\ Len(Tail(c)) = Len(c) - 1
        /\ \A i \in 1..Len(Tail(c)) : Tail(c)[i] = c[i + 1]
    BY <1>8, <2>1, HeadTailProperties
  <2> QED BY <2>2
<1>12. time \in c[1].period /\ e \in Happening
  <2>1. time \in c[1].period
    BY <1>3, <1>7, <1>10
  <2>2. /\ c[1].side \in Sides /\ c[1].type \in Types /\ c[1].period \in SUBSET Playing
    BY <1>10 DEF Untimed
  <2>3. time \in Clock
    <3>1. \A x \in Playing : x \in Clock
      BY DEF Playing, Clock
    <3>2. PICK p \in SUBSET Playing : p = c[1].period
      BY <2>2
    <3>3. time \in Playing
      BY <2>1, <3>2
    <3> QED BY <3>1, <3>3
  <2> QED BY <2>1, <2>2, <2>3 DEF Happening
<1>13. rpEvents' = Append(q, e)
  BY <1>3, <1>6, <1>7, <1>10
<1>14. PICK r : r = Append(q, e)
  OBVIOUS
<1>15. e.side = plan[m + 1].side /\ e.type = plan[m + 1].type /\ e.time \in plan[m + 1].period
  BY <1>10, <1>12
<1> HIDE DEF m, n, e
<1>16. /\ r \in Seq(Happening) /\ Len(r) = m + 1 /\ r[m + 1] = e
       /\ \A i \in 1..m : r[i] = q[i]
  BY <1>8, <1>12, <1>14, AppendProperties DEF m
<1>17. KeepsPlan(r, plan)
  <2>1. \A i \in 1..(m + 1) : i \in 1..m \/ i = m + 1
    BY <1>8
  <2>2. Len(r) <= Len(plan)
    BY <1>8, <1>16
  <2>3. \A i \in 1..(m + 1) : /\ r[i].side = plan[i].side /\ r[i].type = plan[i].type
                              /\ r[i].time \in plan[i].period
    BY <1>9, <1>15, <1>16, <2>1
  <2> QED BY <1>16, <2>2, <2>3 DEF KeepsPlan
<1>18. /\ Len(r) + Len(Tail(c)) = Len(plan)
       /\ \A i \in 1..Len(Tail(c)) : Tail(c)[i] = plan[Len(r) + i]
  <2>1. Len(r) + Len(Tail(c)) = Len(plan)
    BY <1>8, <1>11, <1>16
  <2>2. ASSUME NEW i \in 1..(n - 1) PROVE Tail(c)[i] = plan[m + 1 + i]
    <3>1. PICK k : k = i + 1
      OBVIOUS
    <3>2. k \in 1..n /\ m + k = m + 1 + i
      BY <1>8, <3>1
    <3>3. c[k] = plan[m + k]
      BY <1>8, <3>2
    <3> QED BY <1>11, <3>1, <3>2, <3>3
  <2> QED BY <1>11, <1>16, <2>1, <2>2
<1>19. Growing'
  <2>1. plan = Plan(rpScore, rpStatistics)' /\ rpEvents' = r /\ rpToCome' = Tail(c)
    BY <1>1, <1>4, <1>7, <1>13, <1>14
  <2> QED BY <1>11, <1>17, <1>18, <2>1 DEF Growing
<1>20. Made(rpScore, rpStatistics)'
  BY <1>1, <1>2
<1> QED BY <1>1, <1>2, <1>19, <1>20 DEF ReplayInv

LEMMA StoreTold ==
    ASSUME ReplayInv, rpScore # <<>>, rpToCome = <<>>, ~rpStored
    PROVE  /\ Made(rpScore, rpStatistics) /\ rpElapsed \in Nat
           /\ Told(FinalizeEvents(rpEvents), rpScore, rpStatistics)
<1>1. Made(rpScore, rpStatistics) /\ rpElapsed \in Nat /\ Growing
  BY DEF ReplayInv, NothingYet, StoredReplayStart
<1>2. PICK plan : plan = Plan(rpScore, rpStatistics)
  OBVIOUS
<1>3. PlansBoth(plan, rpScore, rpStatistics)
  BY <1>1, <1>2, BothArePlanned
<1>4. KeepsPlan(rpEvents, plan) /\ Len(rpEvents) + Len(rpToCome) = Len(plan)
  BY <1>1, <1>2 DEF Growing
<1>5. Len(rpEvents) = Len(plan)
  <2>1. Len(rpToCome) = 0 /\ Len(rpEvents) \in Nat
    BY <1>4, EmptySeq, LenProperties DEF KeepsPlan
  <2> QED BY <1>4, <2>1
<1>6. Gathered(rpEvents \o Markers, rpScore, rpStatistics)
  BY <1>1, <1>3, <1>4, <1>5, EventsGathered
<1>7. Told(FinalizeEvents(rpEvents), rpScore, rpStatistics)
  BY <1>1, <1>6, GatheredTold
<1> QED BY <1>1, <1>7

LEMMA StoreStep == ReplayInv /\ StoreSimulation => ReplayInv'
<1> SUFFICES ASSUME ReplayInv, StoreSimulation PROVE ReplayInv'
  OBVIOUS
<1>1. /\ rpScore # <<>> /\ rpToCome = <<>> /\ ~rpStored
      /\ rpEvents' = FinalizeEvents(rpEvents) /\ rpStored' = TRUE
      /\ rpScore' = rpScore /\ rpStatistics' = rpStatistics /\ rpToCome' = rpToCome
      /\ rpElapsed' = rpElapsed
  BY DEF StoreSimulation
<1>2. /\ Made(rpScore, rpStatistics) /\ rpElapsed \in Nat
      /\ Told(FinalizeEvents(rpEvents), rpScore, rpStatistics)
  BY <1>1, StoreTold
<1>3. Made(rpScore, rpStatistics)' /\ Told(rpEvents, rpScore, rpStatistics)'
  BY <1>1, <1>2
<1> QED BY <1>1, <1>2, <1>3 DEF ReplayInv

LEMMA TimeElapsesStep == ReplayInv /\ TimeElapses => ReplayInv'
<1> SUFFICES ASSUME ReplayInv, TimeElapses PROVE ReplayInv'
  OBVIOUS
<1>1. /\ rpStored /\ rpElapsed' = rpElapsed + 1
      /\ rpScore' = rpScore /\ rpStatistics' = rpStatistics /\ rpToCome' = rpToCome
      /\ rpEvents' = rpEvents /\ rpStored' = rpStored
  BY DEF TimeElapses
<1>2. /\ Made(rpScore, rpStatistics) /\ rpElapsed \in Nat
      /\ rpStored = TRUE /\ rpToCome = <<>> /\ Told(rpEvents, rpScore, rpStatistics)
  BY <1>1 DEF ReplayInv, NothingYet, StoredReplayStart
<1>3. Made(rpScore, rpStatistics)' /\ Told(rpEvents, rpScore, rpStatistics)'
  BY <1>1, <1>2
<1>4. rpElapsed' \in Nat
  BY <1>1, <1>2
<1> QED BY <1>1, <1>2, <1>3, <1>4 DEF ReplayInv

LEMMA ReplayStutters == ReplayInv /\ UNCHANGED replayVars => ReplayInv'
<1> SUFFICES ASSUME ReplayInv, UNCHANGED replayVars PROVE ReplayInv'
  OBVIOUS
<1>1. /\ rpScore' = rpScore /\ rpStatistics' = rpStatistics /\ rpToCome' = rpToCome
      /\ rpEvents' = rpEvents /\ rpStored' = rpStored /\ rpElapsed' = rpElapsed
  BY DEF replayVars
<1>2. Made(rpScore, rpStatistics)' <=> Made(rpScore, rpStatistics)
  BY <1>1
<1>3. Growing' <=> Growing
  BY <1>1 DEF Growing
<1>4. Told(rpEvents, rpScore, rpStatistics)' <=> Told(rpEvents, rpScore, rpStatistics)
  BY <1>1
<1>5. NothingYet' <=> NothingYet
  BY <1>1 DEF NothingYet, StoredReplayStart
<1> QED BY <1>1, <1>2, <1>3, <1>4, <1>5 DEF ReplayInv

LEMMA ReplayInit == StoredReplayInit => ReplayInv
BY DEF StoredReplayInit, ReplayInv, NothingYet

LEMMA ReplayStep == ReplayInv /\ [StoredReplayNext]_replayVars => ReplayInv'
BY SampleStep, SampleTimeStep, StoreStep, TimeElapsesStep, ReplayStutters
   DEF StoredReplayNext

\* At every step of a generation the events that have their times and those still to
\* come make up the plan of the score and the statistics; once stored they are told in
\* the order of the match, and what a page shows is a beginning of them.
THEOREM ReplayInvariance == StoredReplaySpec => []ReplayInv
BY ReplayInit, ReplayStep, PTL DEF StoredReplaySpec

\* The stored events of a match add up to its score and its statistics, in the order of
\* the match, and what a page shows at any moment is what has happened by then.
THEOREM ReplayTells == StoredReplaySpec => []ReplayTellsTheMatch
<1>1. ReplayInv => ReplayTellsTheMatch
  <2> SUFFICES ASSUME ReplayInv PROVE ReplayTellsTheMatch
    OBVIOUS
  <2>1. ASSUME rpScore # <<>>, rpToCome = <<>>
        PROVE  Consistent(IF rpStored THEN rpEvents ELSE FinalizeEvents(rpEvents),
                          rpScore, rpStatistics)
    <3>1. CASE rpStored
      <4>1. Told(rpEvents, rpScore, rpStatistics)
        BY <3>1 DEF ReplayInv, NothingYet, StoredReplayStart
      <4> QED BY <3>1, <4>1 DEF Told
    <3>2. CASE ~rpStored
      <4>1. Told(FinalizeEvents(rpEvents), rpScore, rpStatistics)
        BY <2>1, <3>2, StoreTold
      <4> QED BY <3>2, <4>1 DEF Told
    <3> QED BY <3>1, <3>2
  <2>2. ASSUME rpStored PROVE PageTells
    <3>1. Told(rpEvents, rpScore, rpStatistics) /\ rpElapsed \in Nat
      BY <2>2 DEF ReplayInv, NothingYet, StoredReplayStart
    <3> QED BY <3>1, PageOfTold
  <2> QED BY <2>1, <2>2 DEF ReplayTellsTheMatch, PageTells
<1> QED BY <1>1, ReplayInvariance, PTL
=============================================================================

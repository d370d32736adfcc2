------------------------------- MODULE IngestionProofs ------------------------------
(***************************************************************************)
(* Proofs about what the provider's answers do to the database.  Fixtures,  *)
(* for any kickoffs, scores, devices and clients: the type invariant and    *)
(* the refinement of PlayLedger hold for any number of ingestions at a      *)
(* time; that row, revision and results agree needs one, which the run with *)
(* two shows to be necessary.  Player context, for any budget, any limits   *)
(* and any answers: the requests kept for the match details are still there *)
(* when their turn comes, and a stored performance is kept.                 *)
(***************************************************************************)
EXTENDS FixtureLifecycle, PlayerSync, FiniteSetTheorems, SequenceTheorems, TLAPS

-------------------------------------------------------------------------------
(* The helpers on schedule revisions and results                             *)

\* A sequence mapped element by element.
LEMMA MappedSeq ==
  ASSUME NEW S, NEW T, NEW s \in Seq(S), NEW t,
         DOMAIN t = DOMAIN s, t = [n \in DOMAIN s |-> t[n]],
         \A n \in DOMAIN s : t[n] \in T
  PROVE  t \in Seq(T) /\ Len(t) = Len(s)
<1>1. Len(s) \in Nat /\ DOMAIN s = 1..Len(s)
  BY LenProperties
<1>2. t \in [1..Len(s) -> T]
  BY <1>1
<1>3. t \in Seq(T)
  BY <1>1, <1>2, SeqDef
<1>4. Len(t) = Len(s)
  BY <1>1, <1>3, LenProperties
<1> QED
  BY <1>3, <1>4

\* A new revision is the only current one if the old ones are superseded.
LEMMA RevisedSchedule ==
  ASSUME revisions \in Seq(Revision), NEW status \in Status, NEW kickoff \in Kickoff
  PROVE  LET new == Revised(status, kickoff)
             len == Len(revisions) + 1
         IN  /\ new \in Seq(Revision) /\ Len(new) = len /\ DOMAIN new = 1..len
             /\ new[len] = [status |-> status, kickoff |-> kickoff, current |-> TRUE]
             /\ \A n \in DOMAIN new : new[n].current <=> n = len
<1> DEFINE old == [n \in DOMAIN revisions |-> [revisions[n] EXCEPT !.current = FALSE]]
           last == [status |-> status, kickoff |-> kickoff, current |-> TRUE]
<1>1. Len(revisions) \in Nat /\ DOMAIN revisions = 1..Len(revisions)
  BY LenProperties
<1>2. \A n \in DOMAIN revisions : revisions[n] \in Revision
  BY <1>1, ElementOfSeq
<1>3. \A n \in DOMAIN revisions : old[n] \in Revision /\ old[n].current = FALSE
  BY <1>2 DEF Revision
<1>4. old \in Seq(Revision) /\ Len(old) = Len(revisions)
  BY <1>3, MappedSeq
<1>5. last \in Revision
  BY DEF Revision
<1> HIDE DEF old, last
<1>6. Revised(status, kickoff) = Append(old, last)
  BY DEF Revised, old, last
<1>7. /\ Append(old, last) \in Seq(Revision)
      /\ Len(Append(old, last)) = Len(revisions) + 1
      /\ Append(old, last)[Len(revisions) + 1] = last
      /\ \A n \in 1..Len(revisions) : Append(old, last)[n] = old[n]
  BY <1>1, <1>4, <1>5, AppendProperties
<1>8. DOMAIN Append(old, last) = 1..(Len(revisions) + 1)
  BY <1>7, LenProperties
<1>9. last.current = TRUE
  BY DEF last
<1>10. \A n \in 1..(Len(revisions) + 1) :
         Append(old, last)[n].current <=> n = Len(revisions) + 1
  BY <1>1, <1>3, <1>7, <1>9
<1> QED
  BY <1>6, <1>7, <1>8, <1>10 DEF last

\* The accepted result is the newest one that was not voided.
NewestAccepted(rows) ==
  \A n \in DOMAIN rows :
    rows[n].accepted <=> /\ rows[n].eligible
                         /\ \A k \in DOMAIN rows : rows[k].eligible => k <= n

NoneEligible(rows) == \A n \in DOMAIN rows : ~rows[n].eligible

\* Voiding leaves no result that counts.
LEMMA VoidedRows ==
  ASSUME results \in Seq(Result)
  PROVE  /\ VoidedResults \in Seq(Result)
         /\ NewestAccepted(VoidedResults) /\ NoneEligible(VoidedResults)
<1> DEFINE new == [n \in DOMAIN results |->
                     [results[n] EXCEPT !.accepted = FALSE, !.eligible = FALSE]]
<1>1. \A n \in DOMAIN results : results[n] \in Result
  BY LenProperties, ElementOfSeq
<1>2. \A n \in DOMAIN results :
        new[n] \in Result /\ new[n].accepted = FALSE /\ new[n].eligible = FALSE
  BY <1>1 DEF Result
<1>3. new \in Seq(Result)
  BY <1>2, MappedSeq
<1>4. NewestAccepted(new) /\ NoneEligible(new)
  BY <1>2 DEF NewestAccepted, NoneEligible
<1> QED
  BY <1>3, <1>4 DEF VoidedResults

\* A final score is accepted as the newest result, anything else changes nothing.
LEMMA ResultRows ==
  ASSUME NEW old \in Seq(Result), NEW p \in Payload
  PROVE  /\ WithResult(old, p) \in Seq(Result)
         /\ NewestAccepted(old) => NewestAccepted(WithResult(old, p))
         /\ p.status # "finished" => WithResult(old, p) = old
<1> DEFINE kept == [n \in DOMAIN old |-> [old[n] EXCEPT !.accepted = FALSE]]
           last == [score |-> p.score, accepted |-> TRUE, eligible |-> TRUE]
           skip == \/ p.status # "finished" \/ p.score = NoScore
                   \/ \E n \in DOMAIN old : old[n].accepted /\ old[n].score = p.score
<1>1. WithResult(old, p) = IF skip THEN old ELSE Append(kept, last)
  BY DEF WithResult
<1>2. CASE skip
  BY <1>1, <1>2
<1>3. CASE ~skip
  <2>1. Len(old) \in Nat /\ DOMAIN old = 1..Len(old)
    BY LenProperties
  <2>2. \A n \in DOMAIN old : old[n] \in Result
    BY <2>1, ElementOfSeq
  <2>3. \A n \in DOMAIN old : kept[n] \in Result /\ kept[n].accepted = FALSE
    BY <2>2 DEF Result
  <2>4. kept \in Seq(Result) /\ Len(kept) = Len(old)
    BY <2>3, MappedSeq
  <2>5. last \in Result /\ last.accepted = TRUE /\ last.eligible = TRUE
    BY <1>3 DEF Result, Payload
  <2> HIDE DEF kept, last, skip
  <2> DEFINE new == Append(kept, last)
  <2>6. /\ new \in Seq(Result) /\ Len(new) = Len(old) + 1
        /\ new[Len(old) + 1] = last
        /\ \A n \in 1..Len(old) : new[n] = kept[n]
    BY <2>1, <2>4, <2>5, AppendProperties
  <2>7. DOMAIN new = 1..(Len(old) + 1)
    BY <2>6, LenProperties
  <2> HIDE DEF new
  <2>8. \A n \in DOMAIN new : new[n].accepted <=> n = Len(old) + 1
    BY <2>1, <2>3, <2>5, <2>6, <2>7
  <2>9. NewestAccepted(new)
    BY <2>1, <2>5, <2>6, <2>7, <2>8 DEF NewestAccepted
  <2>10. p.status = "finished"
    BY <1>3 DEF skip
  <2> QED
    BY <1>1, <1>3, <2>6, <2>9, <2>10 DEF new
<1> QED
  BY <1>2, <1>3

-------------------------------------------------------------------------------
(* Any number of ingestions                                                  *)

\* A copy that holds a row was read from a match that existed, and matches stay.
Known ==
  \A i \in Ingestor : loaded[i] # NotLoaded /\ loaded[i] # Absent => match # Absent

\* The newest revision is the current one.
NewestCurrent ==
  /\ match = Absent <=> Len(revisions) = 0
  /\ \A n \in DOMAIN revisions : revisions[n].current <=> n = Len(revisions)

\* The outcomes of superseded revisions are void.
OldVoid == \A key \in DOMAIN sims : key[2] # Len(revisions) => sims[key].state = "void"

Sound == TypeOK /\ Known /\ NewestCurrent /\ OldVoid

LEMMA Rows ==
  /\ \A row \in Row : row # Absent /\ row # NotLoaded
  /\ \A copy \in Copy : copy # Absent /\ copy # NotLoaded => copy \in Row
  /\ \A row \in Row, status \in Status : [row EXCEPT !.status = status] \in Row
  /\ \A row \in Row : row.status \in Status /\ row.kickoff \in Kickoff
<1>1. \A row \in Row : row.status \in Status /\ row.kickoff \in Kickoff
  BY DEF Row
<1>2. Absent.status \notin Status /\ NotLoaded.status \notin Status
  BY DEF Absent, NotLoaded, Status, Off
<1>3. \A row \in Row : row # Absent /\ row # NotLoaded
  BY <1>1, <1>2
<1>4. \A copy \in Copy : copy # Absent /\ copy # NotLoaded => copy \in Row
  BY DEF Copy
<1>5. \A row \in Row, status \in Status : [row EXCEPT !.status = status] \in Row
  BY DEF Row
<1> QED
  BY <1>1, <1>3, <1>4, <1>5

LEMMA SoundInit == Init => Sound
<1> SUFFICES ASSUME Init PROVE Sound
  OBVIOUS
<1> USE LifecycleBounds DEF Init
<1>1. revisions \in Seq(Revision) /\ results \in Seq(Result) /\ Len(revisions) = 0
  BY EmptySeq
<1>2. loaded \in [Ingestor -> Copy] /\ Known
  BY DEF Copy, Known
<1>3. request \in [Client -> [kind : {"none", "play", "view"}, at : 0..MaxTime]]
  BY DEF NoRequest
<1>4. DOMAIN sims \subseteq Device \X DOMAIN revisions /\ sims \in [DOMAIN sims -> Outcome]
  OBVIOUS
<1>5. TypeOK
  BY <1>1, <1>2, <1>3, <1>4 DEF TypeOK
<1>6. NewestCurrent /\ OldVoid
  BY <1>1 DEF NewestCurrent, OldVoid
<1> QED
  BY <1>2, <1>5, <1>6 DEF Sound

\* The current revision is the last one, once there is one.
LEMMA CurrentIsLast ==
  ASSUME TypeOK, NewestCurrent
  PROVE  /\ Len(revisions) \in Nat /\ DOMAIN revisions = 1..Len(revisions)
         /\ \A n \in DOMAIN revisions : revisions[n] \in Revision
         /\ \A n : n \in Current <=> n = Len(revisions) /\ n > 0
<1>1. revisions \in Seq(Revision)
  BY DEF TypeOK
<1>2. Len(revisions) \in Nat /\ DOMAIN revisions = 1..Len(revisions)
  BY <1>1, LenProperties
<1>3. \A n \in DOMAIN revisions : revisions[n] \in Revision
  BY <1>1, <1>2, ElementOfSeq
<1>4. \A n : n \in Current <=> n = Len(revisions) /\ n > 0
  BY <1>2 DEF Current, NewestCurrent
<1> QED
  BY <1>2, <1>3, <1>4

\* What an ingestion does to the row and the revisions: a match exists afterwards,
\* and either the schedule is a new one or no revision was added.
LEMMA ScheduleStep ==
  ASSUME Sound, NEW i \in Ingestor, NEW p \in Payload, Apply(i, p)
  PROVE  /\ match' \in Row /\ revisions' \in Seq(Revision) /\ NewestCurrent'
         /\ Len(revisions') \in Nat
         /\ \/ /\ Len(revisions') = Len(revisions) + 1
               /\ sims' = VoidedSimulations \/ (Len(revisions) = 0 /\ sims' = sims)
            \/ /\ ChangeStatus(i, p) \/ Confirm(i, p)
               /\ Len(revisions') = Len(revisions) /\ sims' = sims
<1> USE DEF Sound
<1>1. /\ p.status \in Status /\ p.kickoff \in Kickoff
      /\ revisions \in Seq(Revision) /\ match \in Row \cup {Absent}
      /\ loaded[i] \in Copy /\ loaded[i] # NotLoaded
  BY DEF Payload, TypeOK, Apply
<1>2. /\ Len(revisions) \in Nat /\ DOMAIN revisions = 1..Len(revisions)
      /\ \A n \in DOMAIN revisions : revisions[n] \in Revision
      /\ \A n : n \in Current <=> n = Len(revisions) /\ n > 0
  BY CurrentIsLast
<1>3. \A status \in Status, kickoff \in Kickoff :
        /\ match' \in Row /\ revisions' = Revised(status, kickoff)
        => /\ revisions' \in Seq(Revision) /\ NewestCurrent'
           /\ Len(revisions') = Len(revisions) + 1 /\ Len(revisions') \in Nat
  <2> SUFFICES ASSUME NEW status \in Status, NEW kickoff \in Kickoff,
                      match' \in Row, revisions' = Revised(status, kickoff)
               PROVE  /\ revisions' \in Seq(Revision) /\ NewestCurrent'
                      /\ Len(revisions') = Len(revisions) + 1 /\ Len(revisions') \in Nat
    OBVIOUS
  <2>1. /\ revisions' \in Seq(Revision) /\ Len(revisions') = Len(revisions) + 1
        /\ \A n \in DOMAIN revisions' : revisions'[n].current <=> n = Len(revisions')
    BY <1>1, RevisedSchedule
  <2>2. match' # Absent /\ Len(revisions') # 0
    BY <1>2, <2>1, Rows
  <2> QED
    BY <1>2, <2>1, <2>2 DEF NewestCurrent
<1>4. loaded[i] # Absent => loaded[i] \in Row /\ match \in Row /\ Len(revisions) > 0
  BY <1>1, <1>2, Rows DEF Known, NewestCurrent
<1>5. CASE Create(i, p)
  <2>1. match' \in Row /\ revisions' = Revised(p.status, p.kickoff)
    BY <1>1, <1>5 DEF Create, Row
  <2>2. Len(revisions) = 0 /\ sims' = sims
    BY <1>5 DEF Create, NewestCurrent
  <2> QED
    BY <1>1, <1>3, <2>1, <2>2
<1>6. CASE CallOff(i, p)
  <2>1. match' \in Row /\ revisions' = Revised(p.status, loaded[i].kickoff)
    BY <1>1, <1>4, <1>6, Rows DEF CallOff
  <2>2. loaded[i].kickoff \in Kickoff
    BY <1>4, <1>6, Rows DEF CallOff
  <2>3. sims' = VoidedSimulations
    BY <1>6 DEF CallOff
  <2> QED
    BY <1>1, <1>3, <2>1, <2>2, <2>3
<1>7. CASE Reschedule(i, p)
  <2>1. match.status \in Status
    BY <1>4, <1>7, Rows DEF Reschedule
  <2>2. match' \in Row /\ revisions' = Revised(p.status, p.kickoff)
    BY <1>1, <1>7, <2>1 DEF Reschedule, Row
  <2>3. sims' = VoidedSimulations
    BY <1>7 DEF Reschedule
  <2> QED
    BY <1>1, <1>3, <2>2, <2>3
<1>8. CASE ChangeStatus(i, p)
  <2> DEFINE new == [n \in DOMAIN revisions |->
                       IF n \in Current THEN [revisions[n] EXCEPT !.status = p.status]
                       ELSE revisions[n]]
  <2>1. match' \in Row /\ revisions' = new /\ sims' = sims
    BY <1>1, <1>4, <1>8, Rows DEF ChangeStatus
  <2>2. \A n \in DOMAIN revisions :
          new[n] \in Revision /\ new[n].current = revisions[n].current
    BY <1>1, <1>2 DEF Revision
  <2>3. new \in Seq(Revision) /\ Len(new) = Len(revisions)
    BY <1>1, <2>2, MappedSeq
  <2>4. Len(revisions) > 0 /\ match' # Absent
    BY <1>4, <1>8, <2>1, Rows DEF ChangeStatus
  <2>5. NewestCurrent'
    BY <2>1, <2>2, <2>3, <2>4 DEF NewestCurrent
  <2> QED
    BY <1>2, <1>8, <2>1, <2>3, <2>5
<1>9. CASE Confirm(i, p)
  <2>1. match' = match /\ revisions' = revisions /\ sims' = sims /\ match \in Row
    BY <1>4, <1>9 DEF Confirm
  <2>2. NewestCurrent'
    BY <2>1 DEF NewestCurrent
  <2> QED
    BY <1>1, <1>2, <1>9, <2>1, <2>2
<1> QED
  BY <1>5, <1>6, <1>7, <1>8, <1>9 DEF Apply

LEMMA WiderProduct ==
  ASSUME NEW A, NEW B, NEW C, NEW D, A \subseteq B \X C, C \subseteq D
  PROVE  A \subseteq B \X D
  OBVIOUS

\* What an ingestion does to the simulations: a new schedule leaves them all void.
LEMMA SimulationStep ==
  ASSUME Sound, NEW i \in Ingestor, NEW p \in Payload, Apply(i, p)
  PROVE  /\ DOMAIN sims' = DOMAIN sims /\ sims' \in [DOMAIN sims' -> Outcome]
         /\ DOMAIN sims' \subseteq Device \X DOMAIN revisions'
         /\ \/ \A key \in DOMAIN sims' : sims'[key].state = "void"
            \/ sims' = sims
         /\ Len(revisions') = Len(revisions) + 1
              => \A key \in DOMAIN sims' : sims'[key].state = "void"
<1> USE DEF Sound
<1>1. /\ sims \in [DOMAIN sims -> Outcome]
      /\ DOMAIN sims \subseteq Device \X DOMAIN revisions
  BY DEF TypeOK
<1>2. /\ Len(revisions) \in Nat /\ DOMAIN revisions = 1..Len(revisions)
      /\ \A n : n \in Current <=> n = Len(revisions) /\ n > 0
  BY CurrentIsLast
<1>3. /\ revisions' \in Seq(Revision) /\ Len(revisions') \in Nat
      /\ \/ /\ Len(revisions') = Len(revisions) + 1
            /\ sims' = VoidedSimulations \/ (Len(revisions) = 0 /\ sims' = sims)
         \/ Len(revisions') = Len(revisions) /\ sims' = sims
  BY ScheduleStep
<1>4. DOMAIN revisions \subseteq DOMAIN revisions'
  <2>1. DOMAIN revisions' = 1..Len(revisions')
    BY <1>3, LenProperties
  <2>2. \A n \in 1..Len(revisions) : n \in 1..Len(revisions')
    BY <1>2, <1>3
  <2> QED
    BY <1>2, <2>1, <2>2
<1>5. DOMAIN sims \subseteq Device \X DOMAIN revisions'
  BY <1>1, <1>4, WiderProduct
<1>6. CASE sims' = VoidedSimulations
  <2>1. DOMAIN sims' = DOMAIN sims
    BY <1>6 DEF VoidedSimulations
  <2>2. \A key \in DOMAIN sims : sims'[key] \in Outcome /\ sims'[key].state = "void"
    <3> SUFFICES ASSUME NEW key \in DOMAIN sims
                 PROVE  sims'[key] \in Outcome /\ sims'[key].state = "void"
      OBVIOUS
    <3>1. key[2] \in Current \/ key[2] # Len(revisions)
      BY <1>1, <1>2
    <3>2. CASE key[2] \in Current
      BY <1>1, <1>6, <3>2 DEF VoidedSimulations, Outcome
    <3>3. CASE key[2] \notin Current
      BY <1>1, <1>6, <3>1, <3>3 DEF VoidedSimulations, OldVoid
    <3> QED
      BY <3>2, <3>3
  <2>3. sims' = [key \in DOMAIN sims' |-> sims'[key]]
    BY <1>6 DEF VoidedSimulations
  <2>4. sims' \in [DOMAIN sims' -> Outcome]
    BY <2>1, <2>2, <2>3
  <2> QED
    BY <1>5, <2>1, <2>2, <2>4
<1>7. CASE sims' = sims /\ Len(revisions') = Len(revisions)
  <2>1. Len(revisions) \in Nat
    BY <1>2
  <2>2. Len(revisions') # Len(revisions) + 1
    BY <1>7, <2>1
  <2> QED
    BY <1>1, <1>7, <1>5, <2>2
<1>8. CASE Len(revisions) = 0 /\ sims' = sims
  <2>1. DOMAIN revisions = {}
    BY <1>2, <1>8
  <2>2. DOMAIN sims = {}
    BY <1>1, <2>1
  <2> QED
    BY <1>1, <1>8, <1>5, <2>2
<1> QED
  BY <1>3, <1>6, <1>7, <1>8

\* What a request does: at most one new outcome, for the last revision.
LEMMA RequestStep ==
  ASSUME Sound, NEW c \in Client, Respond(c)
  PROVE  /\ request' \in [Client -> [kind : {"none", "play", "view"}, at : 0..MaxTime]]
         /\ sims' \in [DOMAIN sims' -> Outcome]
         /\ DOMAIN sims' \subseteq Device \X DOMAIN revisions
         /\ \/ sims' = sims
            \/ \E state \in {"played", "missed"} :
                 /\ Len(revisions) > 0 /\ <<DeviceOf[c], Len(revisions)>> \notin DOMAIN sims
                 /\ Record(c, Len(revisions), state)
<1> USE DEF Sound
<1>1. /\ sims \in [DOMAIN sims -> Outcome]
      /\ DOMAIN sims \subseteq Device \X DOMAIN revisions
      /\ request \in [Client -> [kind : {"none", "play", "view"}, at : 0..MaxTime]]
  BY DEF TypeOK
<1>2. \A n : n \in Current <=> n = Len(revisions) /\ n > 0
  BY CurrentIsLast
<1>3. Len(revisions) \in Nat /\ DOMAIN revisions = 1..Len(revisions)
  BY CurrentIsLast
<1>4. request' \in [Client -> [kind : {"none", "play", "view"}, at : 0..MaxTime]]
  BY <1>1, LifecycleBounds DEF Respond, NoRequest
<1>5. CASE sims' = sims
  BY <1>1, <1>4, <1>5
<1>6. ASSUME NEW n \in Undecided(c), NEW state \in {"played", "missed"}, Record(c, n, state)
      PROVE  /\ sims' \in [DOMAIN sims' -> Outcome]
             /\ DOMAIN sims' \subseteq Device \X DOMAIN revisions
             /\ n = Len(revisions) /\ Len(revisions) > 0
             /\ <<DeviceOf[c], n>> \notin DOMAIN sims
  <2> DEFINE cell == <<DeviceOf[c], n>>
  <2>1. n \in Current /\ cell \notin DOMAIN sims
    BY <1>6 DEF Undecided
  <2>2. n = Len(revisions) /\ Len(revisions) > 0
    BY <1>2, <2>1
  <2>3. cell \in Device \X DOMAIN revisions
    BY <1>3, <2>2, WindowAssumption
  <2>4. [state |-> state, generated |-> state = "played", at |-> request[c].at] \in Outcome
    <3>1. request[c].at \in Nat
      BY <1>1, LifecycleBounds
    <3>2. (state = "played") \in BOOLEAN
      OBVIOUS
    <3> QED
      BY <3>1, <3>2 DEF Outcome
  <2>5. sims' = [key \in DOMAIN sims \cup {cell} |->
                  IF key = cell
                  THEN [state |-> state, generated |-> state = "played", at |-> request[c].at]
                  ELSE sims[key]]
    BY <1>6 DEF Record
  <2>6. sims' \in [DOMAIN sims' -> Outcome] /\ DOMAIN sims' = DOMAIN sims \cup {cell}
    BY <1>1, <2>4, <2>5
  <2>7. DOMAIN sims' \subseteq Device \X DOMAIN revisions
    BY <1>1, <2>3, <2>6
  <2> QED
    BY <2>1, <2>2, <2>6, <2>7
<1>7. CASE RecordMissed(c)
  <2>1. PICK n \in Undecided(c) : Record(c, n, "missed")
    BY <1>7 DEF RecordMissed
  <2>2. /\ sims' \in [DOMAIN sims' -> Outcome]
        /\ DOMAIN sims' \subseteq Device \X DOMAIN revisions
        /\ n = Len(revisions) /\ Len(revisions) > 0
        /\ <<DeviceOf[c], n>> \notin DOMAIN sims
    BY <1>6, <2>1
  <2> QED
    BY <1>4, <2>1, <2>2
<1>8. CASE Play(c)
  <2>1. PICK n \in Undecided(c) : Record(c, n, "played")
    BY <1>8 DEF Play
  <2>2. /\ sims' \in [DOMAIN sims' -> Outcome]
        /\ DOMAIN sims' \subseteq Device \X DOMAIN revisions
        /\ n = Len(revisions) /\ Len(revisions) > 0
        /\ <<DeviceOf[c], n>> \notin DOMAIN sims
    BY <1>6, <2>1
  <2> QED
    BY <1>4, <2>1, <2>2
<1> QED
  BY <1>5, <1>7, <1>8 DEF Respond

\* The results stay well-formed.
LEMMA ResultStep ==
  ASSUME Sound, NEW i \in Ingestor, NEW p \in Payload, Apply(i, p)
  PROVE  results' \in Seq(Result)
<1>1. results \in Seq(Result) /\ VoidedResults \in Seq(Result)
  BY VoidedRows DEF Sound, TypeOK
<1>2. /\ WithResult(results, p) \in Seq(Result)
      /\ WithResult(VoidedResults, p) \in Seq(Result)
  BY <1>1, ResultRows
<1> QED
  BY <1>1, <1>2 DEF Apply, Create, CallOff, Reschedule, ChangeStatus, Confirm

LEMMA SoundApply ==
  ASSUME Sound, NEW i \in Ingestor, NEW p \in Payload, Apply(i, p)
  PROVE  Sound'
<1>1. /\ match' \in Row /\ revisions' \in Seq(Revision) /\ NewestCurrent'
      /\ results' \in Seq(Result)
  BY ScheduleStep, ResultStep
<1>2. /\ sims' \in [DOMAIN sims' -> Outcome]
      /\ DOMAIN sims' \subseteq Device \X DOMAIN revisions'
  BY SimulationStep
<1>3. time' = time /\ request' = request /\ loaded' = [loaded EXCEPT ![i] = NotLoaded]
  BY DEF Apply
<1>4. loaded' \in [Ingestor -> Copy]
  BY <1>3 DEF Sound, TypeOK, Copy
<1>5. TypeOK'
  BY <1>1, <1>2, <1>3, <1>4 DEF Sound, TypeOK
<1>6. Known'
  BY <1>1, Rows DEF Known
<1>7. OldVoid'
  <2>1. CASE \A key \in DOMAIN sims' : sims'[key].state = "void"
    BY <2>1 DEF OldVoid
  <2>2. CASE sims' = sims /\ Len(revisions') = Len(revisions)
    BY <2>2 DEF Sound, OldVoid
  <2>3. Len(revisions') = Len(revisions) + 1 \/ (Len(revisions') = Len(revisions) /\ sims' = sims)
    BY ScheduleStep
  <2> QED
    BY <2>1, <2>2, <2>3, SimulationStep
<1> QED
  BY <1>1, <1>5, <1>6, <1>7 DEF Sound

LEMMA SoundNext == Sound /\ [Next]_vars => Sound'
<1> SUFFICES ASSUME Sound, [Next]_vars PROVE Sound'
  OBVIOUS
<1>1. /\ TypeOK /\ Known /\ NewestCurrent /\ OldVoid
  BY DEF Sound
<1>2. CASE Tick
  <2>1. time' \in 0..MaxTime
    BY <1>1, <1>2, LifecycleBounds DEF Tick, TypeOK
  <2> QED
    BY <1>1, <1>2, <2>1
       DEF Tick, Sound, TypeOK, Known, NewestCurrent, OldVoid, schedule
<1>3. ASSUME NEW i \in Ingestor, Load(i) PROVE Sound'
  <2>1. loaded' \in [Ingestor -> Copy] /\ Known'
    BY <1>1, <1>3 DEF Load, schedule, TypeOK, Known, Copy
  <2> QED
    BY <1>1, <1>3, <2>1 DEF Load, Sound, TypeOK, NewestCurrent, OldVoid, schedule
<1>4. ASSUME NEW i \in Ingestor, Abort(i) PROVE Sound'
  <2>1. loaded' \in [Ingestor -> Copy] /\ Known'
    BY <1>1, <1>4 DEF Abort, schedule, TypeOK, Known, Copy
  <2> QED
    BY <1>1, <1>4, <2>1 DEF Abort, Sound, TypeOK, NewestCurrent, OldVoid, schedule
<1>5. ASSUME NEW c \in Client, Ask(c) PROVE Sound'
  <2>1. request' \in [Client -> [kind : {"none", "play", "view"}, at : 0..MaxTime]]
    BY <1>1, <1>5 DEF Ask, TypeOK
  <2> QED
    BY <1>1, <1>5, <2>1 DEF Ask, Sound, TypeOK, Known, NewestCurrent, OldVoid, schedule
<1>6. ASSUME NEW c \in Client, Respond(c) PROVE Sound'
  <2>1. /\ request' \in [Client -> [kind : {"none", "play", "view"}, at : 0..MaxTime]]
        /\ sims' \in [DOMAIN sims' -> Outcome]
        /\ DOMAIN sims' \subseteq Device \X DOMAIN revisions
    BY <1>6, RequestStep
  <2>2. UNCHANGED <<time, match, revisions, results, loaded>>
    BY <1>6 DEF Respond, schedule
  <2>3. OldVoid'
    <3>1. CASE sims' = sims
      BY <1>1, <2>2, <3>1 DEF OldVoid
    <3>2. ASSUME NEW state, Record(c, Len(revisions), state) PROVE OldVoid'
      BY <1>1, <2>2, <3>2 DEF OldVoid, Record
    <3> QED
      BY <1>6, <3>1, <3>2, RequestStep
  <2> QED
    BY <1>1, <2>1, <2>2, <2>3 DEF Sound, TypeOK, Known, NewestCurrent
<1>7. CASE UNCHANGED vars
  BY <1>1, <1>7 DEF vars, schedule, Sound, TypeOK, Known, NewestCurrent, OldVoid
<1> QED
  BY <1>2, <1>3, <1>4, <1>5, <1>6, <1>7, SoundApply DEF Next, Ingest

\* Reachable states are sound, whatever the number of ingestions.
THEOREM LifecycleSound == Spec => []Sound
  BY SoundInit, SoundNext, PTL DEF Spec

\* Row, revisions, results, simulations, copies and requests keep their types.
THEOREM LifecycleTypeCorrect == Spec => []TypeOK
<1>1. Sound => TypeOK
  BY DEF Sound
<1> QED
  BY <1>1, LifecycleSound, PTL

-------------------------------------------------------------------------------
(* The ledger                                                                *)

\* Devices and ingestions together keep the promise of PlayLedger: a device has
\* one outcome per schedule revision, it is never replaced, and none counts under
\* a new schedule; also with several ingestions at a time, stale copies included.
THEOREM ImplementsLedger == Spec => LedgerSpec
<1> DEFINE states == [key \in DOMAIN sims |-> sims[key].state]
<1>1. Init => Ledger!LedgerInit
  <2> SUFFICES ASSUME Init PROVE Ledger!LedgerInit
    OBVIOUS
  <2>1. DOMAIN sims = {} /\ Len(revisions) = 0
    BY EmptySeq DEF Init
  <2> QED
    BY <2>1 DEF Ledger!LedgerInit
<1>2. Sound /\ [Next]_vars => [Ledger!LedgerNext]_(Ledger!ledgerVars)
  <2> SUFFICES ASSUME Sound, [Next]_vars
               PROVE  Ledger!LedgerNext \/ UNCHANGED Ledger!ledgerVars
    OBVIOUS
  <2> USE DEF Ledger!ledgerVars
  <2>1. CASE revisions' = revisions /\ sims' = sims
    BY <2>1
  <2>2. ASSUME NEW i \in Ingestor, NEW p \in Payload, Apply(i, p)
        PROVE  Ledger!LedgerNext \/ UNCHANGED Ledger!ledgerVars
    <3>1. CASE Len(revisions') = Len(revisions) /\ sims' = sims
      BY <3>1
    <3>2. CASE Len(revisions') = Len(revisions) + 1
      <4>1. DOMAIN sims' = DOMAIN sims /\ \A key \in DOMAIN sims' : sims'[key].state = "void"
        BY <2>2, <3>2, SimulationStep
      <4>2. /\ states' \in [DOMAIN states -> {"missed", "void"}]
            /\ \A key \in DOMAIN states : states'[key] = "void"
        BY <4>1
      <4> QED
        BY <3>2, <4>2 DEF Ledger!LedgerNext, Ledger!Reopen
    <3> QED
      BY <2>2, <3>1, <3>2, ScheduleStep
  <2>3. ASSUME NEW c \in Client, Respond(c)
        PROVE  Ledger!LedgerNext \/ UNCHANGED Ledger!ledgerVars
    <3>1. revisions' = revisions
      BY <2>3 DEF Respond, schedule
    <3>2. CASE sims' = sims
      BY <3>1, <3>2
    <3>3. ASSUME NEW state \in {"played", "missed"}, Len(revisions) > 0,
                 <<DeviceOf[c], Len(revisions)>> \notin DOMAIN sims,
                 Record(c, Len(revisions), state)
          PROVE  Ledger!LedgerNext
      <4> DEFINE cell == <<DeviceOf[c], Len(revisions)>>
      <4>1. states' = [key \in DOMAIN sims \cup {cell} |->
                         IF key = cell THEN state ELSE sims[key].state]
        BY <3>3 DEF Record
      <4>2. DOMAIN states = DOMAIN sims /\ \A key \in DOMAIN sims : states[key] = sims[key].state
        OBVIOUS
      <4>3. DeviceOf[c] \in Device
        BY WindowAssumption
      <4> HIDE DEF states
      <4>4. states' = [key \in DOMAIN states \cup {cell} |->
                         IF key = cell THEN state ELSE states[key]]
        BY <4>1, <4>2
      <4>5. Ledger!Decide(DeviceOf[c])
        BY <3>1, <3>3, <4>2, <4>4 DEF Ledger!Decide, states
      <4> QED
        BY <3>3, <4>3, <4>5 DEF Ledger!LedgerNext
    <3> QED
      BY <2>3, <3>2, <3>3, RequestStep
  <2>4. \/ revisions' = revisions /\ sims' = sims
        \/ \E i \in Ingestor : \E p \in Payload : Apply(i, p)
        \/ \E c \in Client : Respond(c)
    BY DEF Next, Tick, Ingest, Load, Abort, Ask, vars, schedule
  <2> QED
    BY <2>1, <2>2, <2>3, <2>4
<1> QED
  BY <1>1, <1>2, LifecycleSound, PTL DEF Spec, LedgerSpec, Ledger!LedgerSpec

-------------------------------------------------------------------------------
(* One ingestion at a time                                                   *)

OneIngestor == \A i, j \in Ingestor : i = j

\* With one ingestion nothing changes the row between its reading and its use.
FreshCopy == \A i \in Ingestor : loaded[i] # NotLoaded => loaded[i] = match

\* A match that does not exist yet has no result.
NoEarlyResult == match = Absent => NoneEligible(results)

Agreed ==
  /\ Sound /\ FreshCopy /\ NoEarlyResult
  /\ RevisionMatchesFixture /\ AcceptedIsNewest /\ CountedPlayInWindow

LEMMA AgreedInit == Init => Agreed
<1> SUFFICES ASSUME Init PROVE Agreed
  OBVIOUS
<1>1. Sound
  BY SoundInit
<1>2. DOMAIN sims = {} /\ DOMAIN results = {} /\ match = Absent
  BY DEF Init
<1>3. FreshCopy /\ NoEarlyResult /\ CountedPlayInWindow
  BY <1>2 DEF Init, FreshCopy, NoEarlyResult, NoneEligible, CountedPlayInWindow
<1>4. RevisionMatchesFixture /\ AcceptedIsNewest
  BY <1>2 DEF RevisionMatchesFixture, AcceptedIsNewest, Absent, Off
<1> QED
  BY <1>1, <1>3, <1>4 DEF Agreed

LEMMA RevisionStep ==
  ASSUME Agreed, NEW i \in Ingestor, NEW p \in Payload, Apply(i, p)
  PROVE  RevisionMatchesFixture'
<1> DEFINE last == revisions'[Len(revisions')]
<1>1. /\ revisions' \in Seq(Revision) /\ NewestCurrent' /\ Len(revisions') \in Nat
      /\ match' \in Row /\ match' # Absent
  BY ScheduleStep, Rows DEF Agreed
<1>2. Current' = {Len(revisions')}
  <2>1. Len(revisions') # 0 /\ DOMAIN revisions' = 1..Len(revisions')
    BY <1>1, LenProperties DEF NewestCurrent
  <2>2. Len(revisions') \in DOMAIN revisions'
    BY <1>1, <2>1
  <2> QED
    BY <1>1, <2>2 DEF Current, NewestCurrent
<1>3. /\ loaded[i] = match /\ p.status \in Status /\ p.kickoff \in Kickoff
      /\ revisions \in Seq(Revision) /\ match \in Row \cup {Absent}
  BY DEF Agreed, Sound, TypeOK, FreshCopy, Apply, Payload
<1>4. \A status \in Status, kickoff \in Kickoff :
        revisions' = Revised(status, kickoff) => last.kickoff = kickoff /\ last.status = status
  <2> SUFFICES ASSUME NEW status \in Status, NEW kickoff \in Kickoff,
                      revisions' = Revised(status, kickoff)
               PROVE  last.kickoff = kickoff /\ last.status = status
    OBVIOUS
  <2>1. /\ Len(revisions') = Len(revisions) + 1
        /\ revisions'[Len(revisions) + 1]
             = [status |-> status, kickoff |-> kickoff, current |-> TRUE]
    BY <1>3, RevisedSchedule
  <2> QED
    BY <2>1
<1>5. last.kickoff = match'.kickoff /\ last.status = match'.status
  <2>1. CASE Create(i, p)
    BY <1>3, <1>4, <2>1 DEF Create
  <2>2. CASE CallOff(i, p)
    <3>1. match \in Row
      BY <1>3, <2>2 DEF CallOff
    <3>2. match'.kickoff = match.kickoff /\ match'.status = p.status
      BY <2>2, <3>1 DEF CallOff, Row
    <3>3. match.kickoff \in Kickoff /\ revisions' = Revised(p.status, match.kickoff)
      BY <1>3, <2>2, <3>1, Rows DEF CallOff
    <3> QED
      BY <1>3, <1>4, <3>2, <3>3
  <2>3. CASE Reschedule(i, p)
    <3>1. match'.kickoff = p.kickoff /\ match'.status = p.status
      BY <1>3, <2>3 DEF Reschedule
    <3>2. revisions' = Revised(p.status, p.kickoff)
      BY <2>3 DEF Reschedule
    <3> QED
      BY <1>3, <1>4, <3>1, <3>2
  <2>4. CASE ChangeStatus(i, p)
    <3>1. match \in Row /\ match # Absent
      BY <1>3, <2>4, Rows DEF ChangeStatus
    <3>2. match'.kickoff = match.kickoff /\ match'.status = p.status
      BY <2>4, <3>1 DEF ChangeStatus, Row
    <3>3. /\ Current = {Len(revisions)}
          /\ revisions[Len(revisions)].kickoff = match.kickoff
      BY <3>1 DEF Agreed, RevisionMatchesFixture
    <3>4. Len(revisions) \in DOMAIN revisions /\ revisions[Len(revisions)] \in Revision
      BY <3>3, CurrentIsLast DEF Agreed, Sound, Current
    <3>5. /\ revisions'[Len(revisions)].kickoff = match.kickoff
          /\ revisions'[Len(revisions)].status = p.status
      BY <2>4, <3>3, <3>4 DEF ChangeStatus, Revision
    <3>6. Len(revisions') = Len(revisions)
      <4>1. \A n \in DOMAIN revisions : revisions'[n] \in Revision
        <5>1. \A n \in DOMAIN revisions : revisions[n] \in Revision
          BY CurrentIsLast DEF Agreed, Sound
        <5> QED
          BY <1>3, <2>4, <5>1 DEF ChangeStatus, Revision
      <4>2. revisions' = [n \in DOMAIN revisions |-> revisions'[n]]
        BY <2>4 DEF ChangeStatus
      <4> QED
        BY <1>3, <4>1, <4>2, MappedSeq
    <3> QED
      BY <3>2, <3>5, <3>6
  <2>5. CASE Confirm(i, p)
    <3>1. match' = match /\ revisions' = revisions
      BY <2>5 DEF Confirm
    <3> QED
      BY <1>1, <3>1 DEF Agreed, RevisionMatchesFixture
  <2> QED
    BY <2>1, <2>2, <2>3, <2>4, <2>5 DEF Apply
<1> QED
  BY <1>2, <1>5 DEF RevisionMatchesFixture

LEMMA AcceptedStep ==
  ASSUME Agreed, NEW i \in Ingestor, NEW p \in Payload, Apply(i, p)
  PROVE  AcceptedIsNewest'
<1>1. /\ loaded[i] = match /\ match \in Row \cup {Absent} /\ results \in Seq(Result)
      /\ NewestAccepted(results) /\ (match = Absent => NoneEligible(results))
      /\ (match.status \in Off => NoneEligible(results))
  BY DEF Agreed, Sound, TypeOK, FreshCopy, Apply, NoEarlyResult, AcceptedIsNewest,
         NewestAccepted, NoneEligible
<1>2. /\ VoidedResults \in Seq(Result)
      /\ NewestAccepted(VoidedResults) /\ NoneEligible(VoidedResults)
  BY <1>1, VoidedRows
<1>3. /\ NewestAccepted(WithResult(results, p))
      /\ NewestAccepted(WithResult(VoidedResults, p))
      /\ p.status # "finished" => WithResult(results, p) = results
  BY <1>1, <1>2, ResultRows
<1>4. p.status \in Off => p.status # "finished"
  BY DEF Off
<1>5. NewestAccepted(results') /\ (match'.status \in Off => NoneEligible(results'))
  <2>1. CASE Create(i, p)
    BY <1>1, <1>3, <1>4, <2>1 DEF Create
  <2>2. CASE CallOff(i, p)
    BY <1>2, <2>2 DEF CallOff
  <2>3. CASE Reschedule(i, p)
    <3>1. match'.status = p.status
      BY <1>1, <2>3 DEF Reschedule
    <3> QED
      BY <1>3, <2>3, <3>1 DEF Reschedule
  <2>4. CASE ChangeStatus(i, p)
    <3>1. match \in Row
      BY <1>1, <2>4 DEF ChangeStatus
    <3>2. match'.status = p.status
      BY <2>4, <3>1 DEF ChangeStatus, Row
    <3> QED
      BY <1>3, <2>4, <3>2 DEF ChangeStatus
  <2>5. CASE Confirm(i, p)
    <3>1. match' = match /\ results' = WithResult(results, p) /\ p.status = match.status
      BY <1>1, <2>5 DEF Confirm
    <3> QED
      BY <1>1, <1>3, <1>4, <3>1
  <2> QED
    BY <2>1, <2>2, <2>3, <2>4, <2>5 DEF Apply
<1> QED
  BY <1>5 DEF AcceptedIsNewest, NewestAccepted, NoneEligible

LEMMA CountedStep ==
  ASSUME Agreed, NEW i \in Ingestor, NEW p \in Payload, Apply(i, p)
  PROVE  CountedPlayInWindow'
<1>1. CASE \A key \in DOMAIN sims' : sims'[key].state = "void"
  BY <1>1 DEF CountedPlayInWindow
<1>2. CASE /\ ChangeStatus(i, p) \/ Confirm(i, p)
           /\ Len(revisions') = Len(revisions) /\ sims' = sims
  <2>1. NewestCurrent' /\ revisions' \in Seq(Revision)
    BY ScheduleStep DEF Agreed
  <2>2. /\ DOMAIN revisions' = 1..Len(revisions) /\ DOMAIN revisions = 1..Len(revisions)
    BY <1>2, <2>1, CurrentIsLast, LenProperties DEF Agreed, Sound
  <2>3. Current' = Current
    BY <1>2, <2>1, <2>2 DEF Current, Agreed, Sound, NewestCurrent
  <2>4. loaded[i] = match /\ match \in Row \cup {Absent}
    BY DEF Agreed, Sound, TypeOK, FreshCopy, Apply
  <2>5. match'.kickoff = match.kickoff /\ (match'.status \in Off => match'.status = match.status)
    <3>1. CASE ChangeStatus(i, p)
      BY <2>4, <3>1 DEF ChangeStatus, Row
    <3>2. CASE Confirm(i, p)
      BY <3>2 DEF Confirm
    <3> QED
      BY <1>2, <3>1, <3>2
  <2> QED
    BY <1>2, <2>3, <2>5 DEF Agreed, CountedPlayInWindow
<1>3. Sound
  BY DEF Agreed
<1>4. \/ Len(revisions') = Len(revisions) + 1
      \/ /\ ChangeStatus(i, p) \/ Confirm(i, p)
         /\ Len(revisions') = Len(revisions) /\ sims' = sims
  BY <1>3, ScheduleStep
<1> QED
  BY <1>1, <1>2, <1>3, <1>4, SimulationStep

\* A request decides the outcome of the current schedule by the clock it read.
LEMMA DecidedStep ==
  ASSUME Agreed, NEW c \in Client, Respond(c)
  PROVE  CountedPlayInWindow'
<1>1. match' = match /\ revisions' = revisions /\ Current' = Current
  BY DEF Respond, schedule, Current
<1>2. Sound /\ RevisionMatchesFixture /\ CountedPlayInWindow
  BY DEF Agreed
<1>3. \A n \in Undecided(c) :
        /\ n \in Current /\ <<DeviceOf[c], n>> \notin DOMAIN sims
        /\ revisions[n].kickoff = match.kickoff /\ revisions[n].status = match.status
  <2>1. match # Absent => /\ Current = {Len(revisions)}
                          /\ revisions[Len(revisions)].kickoff = match.kickoff
                          /\ revisions[Len(revisions)].status = match.status
    BY <1>2 DEF RevisionMatchesFixture
  <2>2. match = Absent => Current = {}
    BY <1>2, CurrentIsLast DEF Sound, NewestCurrent
  <2> QED
    BY <2>1, <2>2 DEF Undecided
<1>4. CASE sims' = sims
  BY <1>1, <1>2, <1>4 DEF CountedPlayInWindow
<1>5. CASE RecordMissed(c)
  <2>1. PICK n \in Undecided(c) : /\ request[c].at > Closes(n)
                                  /\ Record(c, n, "missed")
    BY <1>5 DEF RecordMissed
  <2>2. request[c].at > match.kickoff + After
    BY <1>3, <2>1 DEF Closes
  <2>3. \A key \in DOMAIN sims' :
          \/ key \in DOMAIN sims /\ sims'[key] = sims[key]
          \/ /\ key[2] = n /\ sims'[key].state = "missed" /\ sims'[key].at = request[c].at
             /\ ~sims'[key].generated
    <3>1. \A key \in DOMAIN sims' :
            \/ key \in DOMAIN sims /\ sims'[key] = sims[key]
            \/ /\ key[2] = n
               /\ sims'[key] = [state |-> "missed", generated |-> "missed" = "played",
                                at |-> request[c].at]
      BY <2>1 DEF Record
    <3>2. ~[state |-> "missed", generated |-> "missed" = "played",
            at |-> request[c].at].generated
      BY Zenon
    <3> QED
      BY <3>1, <3>2
  <2> QED
    BY <1>1, <1>2, <1>3, <2>1, <2>2, <2>3 DEF CountedPlayInWindow
<1>6. CASE Play(c)
  <2>1. PICK n \in Undecided(c) :
          /\ revisions[n].status \notin Off
          /\ Opens(n) <= request[c].at /\ request[c].at <= Closes(n)
          /\ Record(c, n, "played")
    BY <1>6 DEF Play
  <2>2. /\ match.kickoff - Before <= request[c].at /\ request[c].at <= match.kickoff + After
        /\ match.status \notin Off
    BY <1>3, <2>1 DEF Opens, Closes
  <2>3. \A key \in DOMAIN sims' :
          \/ key \in DOMAIN sims /\ sims'[key] = sims[key]
          \/ key[2] = n /\ sims'[key].state = "played" /\ sims'[key].at = request[c].at
    BY <2>1 DEF Record
  <2> QED
    BY <1>1, <1>2, <1>3, <2>1, <2>2, <2>3 DEF CountedPlayInWindow
<1> QED
  BY <1>4, <1>5, <1>6 DEF Respond

LEMMA AgreedNext ==
  ASSUME OneIngestor, Agreed, [Next]_vars
  PROVE  Agreed'
<1>1. Sound /\ FreshCopy /\ NoEarlyResult
      /\ RevisionMatchesFixture /\ AcceptedIsNewest /\ CountedPlayInWindow
  BY DEF Agreed
<1>2. Sound'
  BY <1>1, SoundNext
<1>3. ASSUME UNCHANGED <<schedule, results, sims>>
      PROVE  /\ NoEarlyResult' /\ RevisionMatchesFixture'
             /\ AcceptedIsNewest' /\ CountedPlayInWindow'
  BY <1>1, <1>3 DEF schedule, NoEarlyResult, NoneEligible, RevisionMatchesFixture, Current,
                    AcceptedIsNewest, CountedPlayInWindow
<1>4. ASSUME NEW i \in Ingestor, NEW p \in Payload, Apply(i, p) PROVE Agreed'
  <2>1. RevisionMatchesFixture' /\ AcceptedIsNewest' /\ CountedPlayInWindow'
    BY <1>4, RevisionStep, AcceptedStep, CountedStep
  <2>2. NoEarlyResult'
    BY <1>1, <1>4, ScheduleStep, Rows DEF NoEarlyResult
  <2>3. FreshCopy'
    <3>1. loaded \in [Ingestor -> Copy] /\ loaded' = [loaded EXCEPT ![i] = NotLoaded]
      BY <1>1, <1>4 DEF Apply, Sound, TypeOK
    <3> QED
      BY <3>1, OneIngestor DEF FreshCopy, OneIngestor
  <2> QED
    BY <1>2, <2>1, <2>2, <2>3 DEF Agreed
<1>5. ASSUME NEW i \in Ingestor, Load(i) \/ Abort(i) PROVE Agreed'
  <2>1. loaded \in [Ingestor -> Copy] /\ match' = match
    BY <1>1, <1>5 DEF Load, Abort, schedule, Sound, TypeOK
  <2>2. FreshCopy'
    BY <1>1, <1>5, <2>1 DEF FreshCopy, Load, Abort
  <2> QED
    BY <1>2, <1>3, <1>5, <2>2 DEF Agreed, Load, Abort
<1>6. CASE Tick \/ (\E c \in Client : Ask(c)) \/ UNCHANGED vars
  <2>1. UNCHANGED <<schedule, results, sims, loaded>>
    BY <1>6 DEF Tick, Ask, vars
  <2>2. FreshCopy'
    BY <1>1, <2>1 DEF FreshCopy, schedule
  <2> QED
    BY <1>2, <1>3, <2>1, <2>2 DEF Agreed
<1>7. ASSUME NEW c \in Client, Respond(c) PROVE Agreed'
  <2>1. UNCHANGED <<schedule, results, loaded>>
    BY <1>7 DEF Respond
  <2>2. FreshCopy' /\ NoEarlyResult' /\ RevisionMatchesFixture' /\ AcceptedIsNewest'
    BY <1>1, <2>1 DEF schedule, FreshCopy, NoEarlyResult, NoneEligible,
                      RevisionMatchesFixture, Current, AcceptedIsNewest
  <2>3. CountedPlayInWindow'
    BY <1>7, DecidedStep
  <2> QED
    BY <1>2, <2>2, <2>3 DEF Agreed
<1> QED
  BY <1>4, <1>5, <1>6, <1>7 DEF Next, Ingest

LEMMA AgreedAlways ==
  ASSUME OneIngestor
  PROVE  Spec => []Agreed
<1>1. Agreed /\ [Next]_vars => Agreed'
  BY AgreedNext
<1> QED
  BY <1>1, AgreedInit, PTL DEF Spec

\* With one ingestion at a time the match row and its current schedule revision
\* always show the same kickoff and status.
THEOREM ScheduleAgrees ==
  ASSUME OneIngestor
  PROVE  Spec => []RevisionMatchesFixture
<1>1. Agreed => RevisionMatchesFixture
  BY DEF Agreed
<1> QED
  BY <1>1, AgreedAlways, PTL

\* With one ingestion at a time the accepted result is the newest one that was
\* not voided, and a match that is off has none.
THEOREM ResultsAgree ==
  ASSUME OneIngestor
  PROVE  Spec => []AcceptedIsNewest
<1>1. Agreed => AcceptedIsNewest
  BY DEF Agreed
<1> QED
  BY <1>1, AgreedAlways, PTL

\* With one ingestion at a time every simulation that counts was played inside
\* the window of the kickoff the match has, for any kickoffs and window lengths.
THEOREM PlaysInWindow ==
  ASSUME OneIngestor
  PROVE  Spec => []CountedPlayInWindow
<1>1. Agreed => CountedPlayInWindow
  BY DEF Agreed
<1> QED
  BY <1>1, AgreedAlways, PTL

-------------------------------------------------------------------------------
(* The budget of a synchronization                                           *)

Step == {"idle", "injuries", "transfers", "squads", "fallback", "lineups",
         "performances", "done"}
Run == [step : Step, used : Nat, global : Nat, page : Nat, clubs : Seq(SquadReferences),
        matches : Seq(MatchReferences), fallback : SUBSET SquadClubs, requested : Nat]

\* The requests that the match details were promised when the squads began:
\* two for each match, those that were asked for included, or what was left.
Promised(run) ==
    LET wanted == 2 * (Len(run.matches) + run.requested)
    IN  IF wanted < SyncRequests - run.global THEN wanted ELSE SyncRequests - run.global

\* What was spent on anything but match details leaves room for them.
Affords(run, spent) == run.global <= spent /\ spent + Promised(run) <= SyncRequests

Budgeted(run) ==
    /\ run.used <= SyncRequests
    /\ run.step \in {"injuries", "transfers", "squads", "fallback"} => run.requested = 0
    /\ run.step = "squads" => Affords(run, run.used + Len(run.clubs))
    /\ run.step = "squads" => run.global <= run.used
    /\ run.step = "fallback" => Affords(run, run.used)
    /\ run.step = "lineups" => Affords(run, run.used - 2 * run.requested)
    /\ run.step = "performances" =>
         /\ run.matches # <<>> /\ run.used < SyncRequests
         /\ Affords(run, run.used - 1 - 2 * run.requested)
    /\ run.step = "done" =>
         \/ run.matches = <<>>
         \/ run.requested = (SyncRequests - run.global) \div 2

WithinBudget == psRun \in Run /\ Budgeted(psRun)

-----------------------------------------------------------------------------
(* Runs                                                                     *)

LEMMA SpendRun ==
    ASSUME NEW run \in Run
    PROVE  /\ Spend(run) \in Run /\ Spend(run).used = run.used + 1
           /\ Spend(run).step = run.step /\ Spend(run).global = run.global
           /\ Spend(run).clubs = run.clubs /\ Spend(run).matches = run.matches
           /\ Spend(run).fallback = run.fallback /\ Spend(run).requested = run.requested
<1> DEFINE more == run.used + 1
<1>1. more \in Nat
  BY DEF Run
<1>2. Spend(run) = [run EXCEPT !.used = more]
  BY DEF Spend
<1> HIDE DEF more
<1>3. Spend(run) \in Run
  BY <1>1, <1>2, Zenon DEF Run
<1>4. /\ Spend(run).used = more
      /\ Spend(run).step = run.step /\ Spend(run).global = run.global
      /\ Spend(run).clubs = run.clubs /\ Spend(run).matches = run.matches
      /\ Spend(run).fallback = run.fallback /\ Spend(run).requested = run.requested
  BY <1>2, Zenon DEF Run
<1> QED
  BY <1>3, <1>4 DEF more

LEMMA TurnedRun ==
    ASSUME NEW run \in Run
    PROVE  LET turned == [run EXCEPT !.page = @ + 1]
           IN  /\ turned \in Run /\ turned.used = run.used /\ turned.step = run.step
               /\ turned.requested = run.requested
<1> DEFINE page == run.page + 1
           turned == [run EXCEPT !.page = page]
<1>1. page \in Nat
  BY DEF Run
<1>2. [run EXCEPT !.page = @ + 1] = turned
  OBVIOUS
<1> HIDE DEF page
<1>3. turned \in Run
  BY <1>1, Zenon DEF Run
<1>4. /\ turned.used = run.used /\ turned.step = run.step
      /\ turned.requested = run.requested
  BY Zenon DEF Run
<1> QED
  BY <1>2, <1>3, <1>4, Zenon

LEMMA Lengths ==
    ASSUME NEW run \in Run
    PROVE  /\ Len(run.clubs) \in Nat /\ Len(run.matches) \in Nat
           /\ run.matches = <<>> <=> Len(run.matches) = 0
           /\ run.used \in Nat /\ run.global \in Nat /\ run.requested \in Nat
           /\ SyncRequests \in Nat
<1>1. run.clubs \in Seq(SquadReferences) /\ run.matches \in Seq(MatchReferences)
  BY DEF Run
<1>2. Len(run.clubs) \in Nat /\ Len(run.matches) \in Nat
      /\ (run.matches = <<>> <=> Len(run.matches) = 0)
  BY <1>1, LenProperties, EmptySeq
<1> QED
  BY <1>2, PlayerSyncAssumption DEF Run

LEMMA TruncatedLength ==
    ASSUME NEW S, NEW seq \in Seq(S), NEW n \in Nat
    PROVE  Truncated(seq, n) \in Seq(S) /\ Len(Truncated(seq, n)) <= n
<1>1. Len(seq) \in Nat
  BY LenProperties
<1>2. CASE Len(seq) > n
  <2>1. SubSeq(seq, 1, n) \in Seq(S) /\ Len(SubSeq(seq, 1, n)) = n
    BY <1>1, <1>2, SubSeqProperties
  <2> QED
    BY <1>2, <2>1 DEF Truncated
<1>3. CASE ~(Len(seq) > n)
  BY <1>1, <1>3 DEF Truncated
<1> QED
  BY <1>2, <1>3

LEMMA TailLength ==
    ASSUME NEW S, NEW seq \in Seq(S), seq # <<>>
    PROVE  Tail(seq) \in Seq(S) /\ Len(Tail(seq)) = Len(seq) - 1
           /\ Len(seq) > 0 /\ Head(seq) \in S
BY HeadTailProperties, LenProperties, EmptySeq

\* The promise depends on how many matches there are, not on how far the walk is.
LEMMA PromiseStays ==
    ASSUME NEW run \in Run, NEW next \in Run, next.global = run.global,
           Len(next.matches) + next.requested = Len(run.matches) + run.requested
    PROVE  Promised(next) = Promised(run) /\ Promised(run) \in Int
<1> DEFINE wanted == 2 * (Len(run.matches) + run.requested)
           left == SyncRequests - run.global
<1>1. wanted \in Int /\ left \in Int
  BY Lengths
<1>2. Promised(run) = IF wanted < left THEN wanted ELSE left
  BY DEF Promised
<1>3. Promised(next) = IF wanted < left THEN wanted ELSE left
  BY Zenon DEF Promised
<1> HIDE DEF wanted, left
<1> QED
  BY <1>1, <1>2, <1>3

\* With a match left and fewer than two requests, all that was left is spent.
LEMMA RoomSpent ==
    ASSUME NEW used \in Nat, NEW global \in Nat, NEW asked \in Nat, NEW wanted \in Nat,
           NEW limit \in Nat, used <= limit, used + 2 > limit, wanted >= asked + 2,
           global <= used - asked,
           used - asked + (IF wanted < limit - global THEN wanted ELSE limit - global) <= limit
    PROVE  asked <= limit - global /\ limit - global < asked + 2
OBVIOUS

LEMMA IdleBudgeted == NoRun \in Run /\ Budgeted(NoRun)
<1>1. <<>> \in Seq(SquadReferences) /\ <<>> \in Seq(MatchReferences)
  BY EmptySeq
<1>2. NoRun \in Run
  BY <1>1 DEF NoRun, Run, Step
<1>3. NoRun.used = 0 /\ NoRun.step = "idle"
  BY DEF NoRun
<1> QED
  BY <1>2, <1>3, PlayerSyncAssumption DEF Budgeted

\* Before the squads nothing has been promised.
LEMMA GlobalBudgeted ==
    ASSUME NEW run \in Run, run.used <= SyncRequests, run.requested = 0,
           run.step \in {"injuries", "transfers"}
    PROVE  Budgeted(run)
BY DEF Budgeted

LEMMA AfterInjuriesBudgeted ==
    ASSUME NEW run \in Run, run.used <= SyncRequests, run.requested = 0
    PROVE  AfterInjuries(run) \in Run /\ Budgeted(AfterInjuries(run))
<1>1. /\ AfterInjuries(run) \in Run /\ AfterInjuries(run).used = run.used
      /\ AfterInjuries(run).requested = run.requested
      /\ AfterInjuries(run).step = "transfers"
  BY DEF AfterInjuries, Run, Step
<1> QED
  BY <1>1, GlobalBudgeted

\* The squads get what is left beyond the reserve.
LEMMA AfterTransfersBudgeted ==
    ASSUME NEW run \in Run, run.used <= SyncRequests, run.requested = 0
    PROVE  AfterTransfers(run) \in Run /\ Budgeted(AfterTransfers(run))
<1> DEFINE left == Left(run) - MatchReserve(run)
           clubs == Truncated(run.clubs, left)
           next == AfterTransfers(run)
<1>1. /\ Len(run.matches) \in Nat /\ run.used \in Nat /\ SyncRequests \in Nat
      /\ run.clubs \in Seq(SquadReferences)
  BY Lengths DEF Run
<1>2. left \in Nat
  BY <1>1 DEF Left, MatchReserve
<1>3. clubs \in Seq(SquadReferences) /\ Len(clubs) <= left /\ Len(clubs) \in Nat
  <2> HIDE DEF left
  <2>1. clubs \in Seq(SquadReferences) /\ Len(clubs) <= left
    BY <1>1, <1>2, TruncatedLength
  <2> HIDE DEF clubs
  <2> QED
    BY <2>1, LenProperties
<1>4. next = [run EXCEPT !.step = "squads", !.global = run.used, !.clubs = clubs]
  BY DEF AfterTransfers, Run
<1> HIDE DEF clubs
<1>5. /\ next \in Run /\ next.step = "squads" /\ next.global = run.used
      /\ next.clubs = clubs /\ next.used = run.used /\ next.requested = 0
      /\ next.matches = run.matches
  BY <1>1, <1>3, <1>4 DEF Run, Step
<1> HIDE DEF next
<1>6. Affords(next, next.used + Len(next.clubs))
  BY <1>1, <1>3, <1>5 DEF left, Left, MatchReserve, Affords, Promised
<1>7. next.global <= next.used
  BY <1>1, <1>5
<1> QED
  BY <1>5, <1>6, <1>7 DEF Budgeted, next

-----------------------------------------------------------------------------
(* Steps                                                                    *)

LEMMA InjuriesBudgeted ==
    ASSUME WithinBudget, SyncInjuries
    PROVE  WithinBudget'
<1> DEFINE turned == [Spend(psRun) EXCEPT !.page = @ + 1]
<1>1. /\ psRun \in Run /\ psRun.used <= SyncRequests /\ psRun.requested = 0
      /\ psRun.step = "injuries"
  BY DEF WithinBudget, Budgeted, SyncInjuries, PagedStep
<1>2. \/ psRun' = NoRun \/ psRun' = AfterInjuries(psRun)
      \/ /\ psRun.used < SyncRequests
         /\ psRun' = AfterInjuries(Spend(psRun)) \/ psRun' = turned
  BY DEF SyncInjuries, PagedStep
<1>3. CASE psRun' = NoRun
  BY <1>3, IdleBudgeted DEF WithinBudget
<1>4. CASE psRun' = AfterInjuries(psRun)
  BY <1>1, <1>4, AfterInjuriesBudgeted DEF WithinBudget
<1>5. ASSUME psRun.used < SyncRequests
      PROVE  /\ Spend(psRun) \in Run /\ Spend(psRun).used <= SyncRequests
             /\ Spend(psRun).requested = 0 /\ Spend(psRun).step = "injuries"
  BY <1>1, <1>5, SpendRun, Lengths
<1>6. CASE psRun.used < SyncRequests /\ psRun' = AfterInjuries(Spend(psRun))
  BY <1>5, <1>6, AfterInjuriesBudgeted DEF WithinBudget
<1>7. CASE psRun.used < SyncRequests /\ psRun' = turned
  <2>1. /\ turned \in Run /\ turned.used = Spend(psRun).used
        /\ turned.requested = Spend(psRun).requested /\ turned.step = Spend(psRun).step
    BY <1>5, <1>7, TurnedRun, Zenon
  <2> HIDE DEF turned
  <2> QED
    BY <1>5, <1>7, <2>1, GlobalBudgeted DEF WithinBudget
<1> QED
  BY <1>2, <1>3, <1>4, <1>6, <1>7

LEMMA TransfersBudgeted ==
    ASSUME WithinBudget, SyncTransfers
    PROVE  WithinBudget'
<1> DEFINE turned == [Spend(psRun) EXCEPT !.page = @ + 1]
<1>1. /\ psRun \in Run /\ psRun.used <= SyncRequests /\ psRun.requested = 0
      /\ psRun.step = "transfers"
  BY DEF WithinBudget, Budgeted, SyncTransfers, PagedStep
<1>2. \/ psRun' = NoRun \/ psRun' = AfterTransfers(psRun)
      \/ /\ psRun.used < SyncRequests
         /\ psRun' = AfterTransfers(Spend(psRun)) \/ psRun' = turned
  BY DEF SyncTransfers, PagedStep
<1>3. CASE psRun' = NoRun
  BY <1>3, IdleBudgeted DEF WithinBudget
<1>4. CASE psRun' = AfterTransfers(psRun)
  BY <1>1, <1>4, AfterTransfersBudgeted DEF WithinBudget
<1>5. ASSUME psRun.used < SyncRequests
      PROVE  /\ Spend(psRun) \in Run /\ Spend(psRun).used <= SyncRequests
             /\ Spend(psRun).requested = 0 /\ Spend(psRun).step = "transfers"
  BY <1>1, <1>5, SpendRun, Lengths
<1>6. CASE psRun.used < SyncRequests /\ psRun' = AfterTransfers(Spend(psRun))
  BY <1>5, <1>6, AfterTransfersBudgeted DEF WithinBudget
<1>7. CASE psRun.used < SyncRequests /\ psRun' = turned
  <2>1. /\ turned \in Run /\ turned.used = Spend(psRun).used
        /\ turned.requested = Spend(psRun).requested /\ turned.step = Spend(psRun).step
    BY <1>5, <1>7, TurnedRun, Zenon
  <2> HIDE DEF turned
  <2> QED
    BY <1>5, <1>7, <2>1, GlobalBudgeted DEF WithinBudget
<1> QED
  BY <1>2, <1>3, <1>4, <1>6, <1>7

\* Each request for a squad takes it off the list.
LEMMA SquadBudgeted ==
    ASSUME WithinBudget, SyncSquad
    PROVE  WithinBudget'
<1> DEFINE club == SquadClub[Head(psRun.clubs)]
           next == [Spend(psRun) EXCEPT !.clubs = Tail(@)]
           asked == [next EXCEPT !.fallback = @ \cup {club}]
<1>1. /\ psRun \in Run /\ psRun.step = "squads" /\ psRun.clubs # <<>>
      /\ psRun.requested = 0 /\ psRun.global <= psRun.used
      /\ Affords(psRun, psRun.used + Len(psRun.clubs))
  BY DEF WithinBudget, Budgeted, SyncSquad
<1>2. /\ Tail(psRun.clubs) \in Seq(SquadReferences)
      /\ Len(Tail(psRun.clubs)) = Len(psRun.clubs) - 1
      /\ Len(psRun.clubs) > 0 /\ club \in SquadClubs
  <2>1. psRun.clubs \in Seq(SquadReferences)
    BY <1>1 DEF Run
  <2>2. Head(psRun.clubs) \in SquadReferences
    BY <1>1, <2>1, TailLength
  <2> QED
    BY <1>1, <2>1, <2>2, TailLength DEF SquadClubs
<1>3. psRun' = next \/ psRun' = asked
  BY DEF SyncSquad
<1>4. /\ next \in Run /\ next.step = "squads" /\ next.used = psRun.used + 1
      /\ next.global = psRun.global /\ next.clubs = Tail(psRun.clubs)
      /\ next.matches = psRun.matches /\ next.requested = 0
  <2> DEFINE spent == Spend(psRun)
             rest == Tail(psRun.clubs)
  <2>1. /\ spent \in Run /\ spent.used = psRun.used + 1 /\ spent.step = "squads"
        /\ spent.global = psRun.global /\ spent.matches = psRun.matches
        /\ spent.requested = 0 /\ spent.clubs = psRun.clubs
    BY <1>1, SpendRun
  <2>2. next = [spent EXCEPT !.clubs = rest]
    BY <2>1
  <2>3. rest \in Seq(SquadReferences)
    BY <1>2
  <2> HIDE DEF spent, next, rest
  <2>4. next \in Run /\ next.clubs = rest
    BY <2>1, <2>2, <2>3, Zenon DEF Run
  <2>5. /\ next.used = spent.used /\ next.step = spent.step /\ next.global = spent.global
        /\ next.matches = spent.matches /\ next.requested = spent.requested
    BY <2>1, <2>2, Zenon DEF Run
  <2> QED
    BY <2>1, <2>4, <2>5 DEF rest
<1> HIDE DEF next
<1>5. /\ asked \in Run /\ asked.step = next.step /\ asked.used = next.used
      /\ asked.global = next.global /\ asked.clubs = next.clubs
      /\ asked.matches = next.matches /\ asked.requested = next.requested
  <2> DEFINE more == next.fallback \cup {club}
  <2>1. more \in SUBSET SquadClubs
    BY <1>2, <1>4 DEF Run
  <2>2. asked = [next EXCEPT !.fallback = more]
    BY <1>4 DEF Run
  <2> HIDE DEF more, asked
  <2>3. asked \in Run
    BY <1>4, <2>1, <2>2, Zenon DEF Run
  <2>4. /\ asked.step = next.step /\ asked.used = next.used
        /\ asked.global = next.global /\ asked.clubs = next.clubs
        /\ asked.matches = next.matches /\ asked.requested = next.requested
    BY <1>4, <2>2, Zenon DEF Run
  <2> QED
    BY <2>3, <2>4
<1> HIDE DEF asked
<1>6. ASSUME NEW run \in Run, run.step = "squads", run.used = psRun.used + 1,
             run.global = psRun.global, run.clubs = Tail(psRun.clubs),
             run.matches = psRun.matches, run.requested = 0
      PROVE  Budgeted(run)
  <2>1. /\ Len(psRun.matches) \in Nat /\ Len(psRun.clubs) \in Nat
        /\ psRun.used \in Nat /\ psRun.global \in Nat /\ SyncRequests \in Nat
    BY <1>1, Lengths
  <2>2. Affords(run, run.used + Len(run.clubs))
    <3>1. Len(run.matches) + run.requested = Len(psRun.matches) + psRun.requested
      BY <1>1, <1>6
    <3>2. Promised(run) = Promised(psRun) /\ Promised(psRun) \in Int
      BY <1>1, <1>6, <3>1, PromiseStays
    <3>3. run.used + Len(run.clubs) = psRun.used + Len(psRun.clubs)
      <4> DEFINE rest == Tail(psRun.clubs)
      <4>1. Len(rest) = Len(psRun.clubs) - 1 /\ run.clubs = rest
        BY <1>2, <1>6
      <4> HIDE DEF rest
      <4>2. Len(run.clubs) = Len(psRun.clubs) - 1 /\ run.used = psRun.used + 1
        BY <1>6, <4>1
      <4>3. \A u, l \in Nat : (u + 1) + (l - 1) = u + l
        OBVIOUS
      <4> QED
        BY <2>1, <4>2, <4>3, Zenon
    <3> QED
      BY <1>1, <1>6, <3>2, <3>3 DEF Affords
  <2>3. run.used <= SyncRequests
    <3> DEFINE wanted == 2 * (Len(psRun.matches) + psRun.requested)
               squads == Len(psRun.clubs)
    <3>1. wanted \in Nat /\ squads \in Nat /\ squads > 0
      BY <1>1, <1>2, <2>1, Lengths
    <3>2. psRun.used + squads
            + (IF wanted < SyncRequests - psRun.global
               THEN wanted ELSE SyncRequests - psRun.global) <= SyncRequests
      BY <1>1 DEF Affords, Promised
    <3> HIDE DEF wanted, squads
    <3>3. psRun.used + 1 <= SyncRequests
      BY <1>1, <2>1, <3>1, <3>2
    <3> QED
      BY <1>6, <3>3, Zenon
  <2>4. run.global <= run.used
    BY <1>1, <1>6, <2>1
  <2> QED
    BY <1>6, <2>2, <2>3, <2>4 DEF Budgeted
<1> QED
  BY <1>3, <1>4, <1>5, <1>6 DEF WithinBudget

LEMMA EndSquadsBudgeted ==
    ASSUME WithinBudget, EndSquads
    PROVE  WithinBudget'
<1> DEFINE next == AfterSquads(psRun)
<1>1. /\ psRun \in Run /\ psRun.used <= SyncRequests
      /\ psRun.requested = 0 /\ psRun.global <= psRun.used
      /\ Affords(psRun, psRun.used + Len(psRun.clubs)) /\ psRun.clubs = <<>>
  BY DEF WithinBudget, Budgeted, EndSquads
<1>2. /\ next \in Run /\ next.step \in {"lineups", "fallback"}
      /\ next.used = psRun.used /\ next.global = psRun.global
      /\ next.matches = psRun.matches /\ next.requested = 0
  <2> DEFINE step == IF psRun.fallback = {} THEN "lineups" ELSE "fallback"
  <2>1. step \in Step /\ step \in {"lineups", "fallback"}
    BY DEF Step
  <2>2. next = [psRun EXCEPT !.step = step]
    BY DEF AfterSquads
  <2> HIDE DEF step, next
  <2>3. next \in Run /\ next.step = step
    BY <1>1, <2>1, <2>2, Zenon DEF Run
  <2>4. /\ next.used = psRun.used /\ next.global = psRun.global
        /\ next.matches = psRun.matches /\ next.requested = psRun.requested
    BY <1>1, <2>2, Zenon DEF Run
  <2> QED
    BY <1>1, <2>1, <2>3, <2>4
<1>3. psRun' = next
  BY DEF EndSquads
<1> HIDE DEF next
<1>4. Len(psRun.clubs) = 0
  BY <1>1, EmptySeq
<1>5. Affords(next, next.used) /\ next.used - 2 * next.requested = next.used
  BY <1>1, <1>2, <1>4, Lengths DEF Affords, Promised
<1>6. Budgeted(next)
  BY <1>1, <1>2, <1>5 DEF Budgeted
<1> QED
  BY <1>2, <1>3, <1>6 DEF WithinBudget

LEMMA FallbackBudgeted ==
    ASSUME WithinBudget, SyncFallback
    PROVE  WithinBudget'
<1>1. /\ psRun \in Run /\ psRun.used <= SyncRequests
      /\ psRun.requested = 0 /\ Affords(psRun, psRun.used)
  BY DEF WithinBudget, Budgeted, SyncFallback
<1>2. psRun' = [psRun EXCEPT !.step = "lineups"]
  BY DEF SyncFallback
<1>3. /\ psRun' \in Run /\ psRun'.step = "lineups"
      /\ psRun'.used = psRun.used /\ psRun'.global = psRun.global
      /\ psRun'.matches = psRun.matches /\ psRun'.requested = psRun.requested
  BY <1>1, <1>2, Zenon DEF Run, Step
<1>4. Affords(psRun', psRun'.used - 2 * psRun'.requested)
  BY <1>1, <1>3, Lengths DEF Affords, Promised
<1>5. Budgeted(psRun')
  BY <1>1, <1>3, <1>4 DEF Budgeted
<1> QED
  BY <1>3, <1>5 DEF WithinBudget

\* The walk over the matches ends when they or the requests are used up: then
\* as many were asked for as were affordable.
LEMMA LineupsBudgeted ==
    ASSUME WithinBudget, SyncLineups
    PROVE  WithinBudget'
<1> DEFINE over == psRun.matches = <<>> \/ psRun.used + 2 > SyncRequests
<1>1. /\ psRun \in Run /\ psRun.used <= SyncRequests
      /\ Affords(psRun, psRun.used - 2 * psRun.requested)
  BY DEF WithinBudget, Budgeted, SyncLineups
<1>2. /\ Len(psRun.matches) \in Nat /\ (psRun.matches = <<>> <=> Len(psRun.matches) = 0)
      /\ psRun.used \in Nat /\ psRun.global \in Nat /\ psRun.requested \in Nat
      /\ SyncRequests \in Nat
  BY <1>1, Lengths
<1>3. CASE over /\ psRun' = [psRun EXCEPT !.step = "done"]
  <2>1. /\ psRun' \in Run /\ psRun'.step = "done"
        /\ psRun'.used = psRun.used /\ psRun'.global = psRun.global
        /\ psRun'.matches = psRun.matches /\ psRun'.requested = psRun.requested
    BY <1>1, <1>3, Zenon DEF Run, Step
  <2>2. \/ psRun.matches = <<>>
        \/ psRun.requested = (SyncRequests - psRun.global) \div 2
    <3> DEFINE room == SyncRequests - psRun.global
    <3>1. CASE Len(psRun.matches) > 0
      <4>1. psRun.used + 2 > SyncRequests
        BY <1>2, <1>3, <3>1
      <4>2. 2 * psRun.requested <= room /\ room < 2 * psRun.requested + 2
        <5> DEFINE asked == 2 * psRun.requested
                   wanted == 2 * (Len(psRun.matches) + psRun.requested)
        <5>1. asked \in Nat /\ wanted \in Nat /\ wanted >= asked + 2
          <6> DEFINE left == Len(psRun.matches)
          <6>1. left \in Nat /\ left >= 1
            BY <1>2, <3>1
          <6> HIDE DEF left
          <6>2. /\ 2 * psRun.requested \in Nat /\ 2 * (left + psRun.requested) \in Nat
                /\ 2 * (left + psRun.requested) >= 2 * psRun.requested + 2
            BY <1>2, <6>1
          <6> QED
            BY <6>2 DEF left
        <5>2. /\ psRun.global <= psRun.used - asked
              /\ psRun.used - asked + (IF wanted < room THEN wanted ELSE room) <= SyncRequests
          BY <1>1 DEF Affords, Promised
        <5>3. psRun.used <= SyncRequests
          BY <1>1
        <5> HIDE DEF asked, wanted
        <5>4. asked <= room /\ room < asked + 2
          BY <1>2, <4>1, <5>1, <5>2, <5>3, RoomSpent
        <5> QED
          BY <5>4 DEF asked
      <4>3. room \in Nat
        BY <1>2, <4>2
      <4> HIDE DEF room
      <4>4. psRun.requested = room \div 2
        BY <1>2, <4>2, <4>3
      <4> QED
        BY <4>4 DEF room
    <3> QED
      BY <1>2, <3>1
  <2>3. Budgeted(psRun')
    BY <1>1, <2>1, <2>2 DEF Budgeted
  <2> QED
    BY <2>1, <2>3 DEF WithinBudget
<1>4. CASE ~over /\ psRun' = [Spend(psRun) EXCEPT !.step = "performances"]
  <2> DEFINE spent == Spend(psRun)
  <2>1. /\ spent \in Run /\ spent.used = psRun.used + 1 /\ spent.global = psRun.global
        /\ spent.matches = psRun.matches /\ spent.requested = psRun.requested
    BY <1>1, SpendRun
  <2>2. psRun' = [spent EXCEPT !.step = "performances"]
    BY <1>4
  <2> HIDE DEF spent
  <2>3. /\ psRun' \in Run /\ psRun'.step = "performances"
        /\ psRun'.used = spent.used /\ psRun'.global = spent.global
        /\ psRun'.matches = spent.matches /\ psRun'.requested = spent.requested
    BY <2>1, <2>2, Zenon DEF Run, Step
  <2>4. psRun'.used < SyncRequests /\ psRun'.matches # <<>>
    BY <1>2, <1>4, <2>1, <2>3
  <2>5. Affords(psRun', psRun'.used - 1 - 2 * psRun'.requested)
    <3>1. Promised(psRun') = Promised(psRun) /\ Promised(psRun) \in Int
      BY <1>1, <2>1, <2>3, PromiseStays
    <3>2. /\ psRun'.used = psRun.used + 1 /\ psRun'.global = psRun.global
          /\ psRun'.requested = psRun.requested
      BY <2>1, <2>3, Zenon
    <3>3. psRun'.used - 1 - 2 * psRun'.requested = psRun.used - 2 * psRun.requested
      <4>1. \A u, r \in Nat : (u + 1) - 1 - 2 * r = u - 2 * r
        OBVIOUS
      <4> QED
        <5>1. (psRun.used + 1) - 1 - 2 * psRun.requested = psRun.used - 2 * psRun.requested
          BY <1>2, <4>1, Zenon
        <5>2. psRun'.used - 1 - 2 * psRun'.requested
                = (psRun.used + 1) - 1 - 2 * psRun.requested
          BY <3>2, Zenon
        <5> QED
          BY <5>1, <5>2, Zenon
    <3> QED
      BY <1>1, <3>1, <3>2, <3>3, Zenon DEF Affords
  <2>6. psRun'.used <= SyncRequests
    BY <1>2, <2>1, <2>3, <2>4
  <2>7. Budgeted(psRun')
    BY <2>3, <2>4, <2>5, <2>6 DEF Budgeted
  <2> QED
    BY <2>3, <2>7 DEF WithinBudget
<1> QED
  BY <1>3, <1>4 DEF SyncLineups

LEMMA PerformancesBudgeted ==
    ASSUME WithinBudget, SyncPerformances
    PROVE  WithinBudget'
<1> DEFINE spent == Spend(psRun)
           rest == Tail(psRun.matches)
           more == psRun.requested + 1
<1>1. /\ psRun \in Run /\ psRun.matches # <<>> /\ psRun.used < SyncRequests
      /\ Affords(psRun, psRun.used - 1 - 2 * psRun.requested)
  BY DEF WithinBudget, Budgeted, SyncPerformances
<1>2. /\ Len(psRun.matches) \in Nat
      /\ psRun.used \in Nat /\ psRun.global \in Nat /\ psRun.requested \in Nat
      /\ SyncRequests \in Nat
  BY <1>1, Lengths
<1>3. /\ rest \in Seq(MatchReferences) /\ Len(rest) = Len(psRun.matches) - 1
  <2>1. psRun.matches \in Seq(MatchReferences)
    BY <1>1 DEF Run
  <2> QED
    BY <1>1, <2>1, TailLength
<1>4. /\ spent \in Run /\ spent.used = psRun.used + 1 /\ spent.global = psRun.global
      /\ spent.matches = psRun.matches /\ spent.requested = psRun.requested
  BY <1>1, SpendRun
<1>5. psRun' = [spent EXCEPT !.step = "lineups", !.matches = rest, !.requested = more]
  BY <1>4 DEF SyncPerformances
<1>6. more \in Nat /\ more = psRun.requested + 1
  BY <1>2
<1> HIDE DEF spent, rest, more
<1>7. psRun' \in Run /\ psRun'.step = "lineups" /\ psRun'.matches = rest
      /\ psRun'.requested = more
  BY <1>3, <1>4, <1>5, <1>6, Zenon DEF Run, Step
<1>8. psRun'.used = spent.used /\ psRun'.global = spent.global
  BY <1>4, <1>5, Zenon DEF Run
<1>9. Affords(psRun', psRun'.used - 2 * psRun'.requested)
  <2>1. Len(psRun'.matches) + psRun'.requested = Len(psRun.matches) + psRun.requested
    <3>1. \A l, r \in Nat : (l - 1) + (r + 1) = l + r
      OBVIOUS
    <3>2. (Len(psRun.matches) - 1) + (psRun.requested + 1)
            = Len(psRun.matches) + psRun.requested
      BY <1>2, <3>1, Zenon
    <3>3. Len(psRun'.matches) + psRun'.requested
            = (Len(psRun.matches) - 1) + (psRun.requested + 1)
      BY <1>3, <1>6, <1>7, Zenon
    <3> QED
      BY <3>2, <3>3, Zenon
  <2>2. Promised(psRun') = Promised(psRun) /\ Promised(psRun) \in Int
    BY <1>1, <1>4, <1>7, <1>8, <2>1, PromiseStays
  <2>3. psRun'.used - 2 * psRun'.requested = psRun.used - 1 - 2 * psRun.requested
    <3>1. \A u, r \in Nat : (u + 1) - 2 * (r + 1) = u - 1 - 2 * r
      OBVIOUS
    <3>2. (psRun.used + 1) - 2 * (psRun.requested + 1)
            = psRun.used - 1 - 2 * psRun.requested
      BY <1>2, <3>1, Zenon
    <3>3. psRun'.used - 2 * psRun'.requested
            = (psRun.used + 1) - 2 * (psRun.requested + 1)
      BY <1>4, <1>6, <1>7, <1>8, Zenon
    <3> QED
      BY <3>2, <3>3, Zenon
  <2> QED
    BY <1>1, <1>4, <1>8, <2>2, <2>3, Zenon DEF Affords
<1>10. psRun'.used <= SyncRequests
  BY <1>1, <1>2, <1>4, <1>8
<1>11. Budgeted(psRun')
  BY <1>7, <1>9, <1>10 DEF Budgeted
<1> QED
  BY <1>7, <1>11 DEF WithinBudget

\* What is selected is the beginning of the list of candidates.
LEMMA ReachedBegins ==
    ASSUME NEW R, NEW order \in Seq(R)
    PROVE  /\ Reached(order) \in Seq(R)
           /\ \A i \in DOMAIN Reached(order) :
                i \in DOMAIN order /\ Reached(order)[i] = order[i]
<1>1. CASE Reached(order) = order
  BY <1>1
<1>2. CASE Reached(order) = Truncated(order, SyncMatches)
  <2>1. SyncMatches \in Nat
    BY PlayerSyncAssumption
  <2>2. Len(order) \in Nat /\ DOMAIN order = 1..Len(order)
    OBVIOUS
  <2>3. CASE Len(order) > SyncMatches
    <3>1. Truncated(order, SyncMatches) = SubSeq(order, 1, SyncMatches)
      BY <2>3 DEF Truncated
    <3>2. /\ SubSeq(order, 1, SyncMatches) \in Seq(R)
          /\ DOMAIN SubSeq(order, 1, SyncMatches) = 1..SyncMatches
          /\ \A i \in 1..SyncMatches : SubSeq(order, 1, SyncMatches)[i] = order[i]
      BY <2>1, <2>2, <2>3
    <3> QED BY <1>2, <2>1, <2>2, <2>3, <3>1, <3>2
  <2>4. CASE ~(Len(order) > SyncMatches)
    BY <1>2, <2>4 DEF Truncated
  <2> QED BY <2>3, <2>4
<1> QED BY <1>1, <1>2 DEF Reached

\* The targets are different identifiers of matches without a performance.
LEMMA TargetsOpen ==
    ASSUME NEW matches \in MatchTargets
    PROVE  /\ matches \in Seq(MatchReferences)
           /\ \A i \in DOMAIN matches : \A x \in psDb.performances : x.match # MatchOf[matches[i]]
           /\ \A i, j \in DOMAIN matches : i # j => matches[i] # matches[j]
<1> DEFINE unknown == {r \in MatchReferences :
                         \A x \in psDb.performances : x.match # MatchOf[r]}
<1>1. PICK order \in NewestFirst(unknown) : matches = Reached(order)
  BY DEF MatchTargets
<1>2. /\ order \in [1..Cardinality(unknown) -> unknown]
      /\ \A i, j \in DOMAIN order : i < j => order[i] # order[j]
  BY <1>1 DEF NewestFirst
<1>3. Cardinality(unknown) \in Nat
  BY PlayerSyncAssumption, FS_Subset, FS_CardinalityType
<1> HIDE DEF unknown
<1>4. order \in Seq(unknown)
  BY <1>2, <1>3, SeqDef
<1>5. /\ matches \in Seq(unknown)
      /\ \A i \in DOMAIN matches : i \in DOMAIN order /\ matches[i] = order[i]
  BY <1>1, <1>4, ReachedBegins
<1>6. \A i \in DOMAIN matches : matches[i] \in unknown
  BY <1>2, <1>5
<1>7. \A i, j \in DOMAIN matches : i # j => matches[i] # matches[j]
  <2> SUFFICES ASSUME NEW i \in DOMAIN matches, NEW j \in DOMAIN matches, i # j
               PROVE  matches[i] # matches[j]
    OBVIOUS
  <2>1. /\ i \in DOMAIN order /\ j \in DOMAIN order
        /\ matches[i] = order[i] /\ matches[j] = order[j]
    BY <1>5
  <2>2. i \in Int /\ j \in Int
    BY <1>2, <1>3, <2>1
  <2>3. i < j \/ j < i
    BY <2>2
  <2> QED BY <1>2, <2>1, <2>3
<1>8. matches \in Seq(MatchReferences)
  BY <1>5 DEF unknown
<1> QED BY <1>6, <1>7, <1>8 DEF unknown

\* The lists a run begins with are what the queries can return.
LEMMA StartBudgeted ==
    ASSUME WithinBudget, StartSync
    PROVE  WithinBudget'
<1>1. PICK clubs \in ClubTargets : \E matches \in MatchTargets :
        psRun' = [NoRun EXCEPT !.step = "injuries", !.clubs = clubs, !.matches = matches]
  BY DEF StartSync
<1>2. PICK matches \in MatchTargets :
        psRun' = [NoRun EXCEPT !.step = "injuries", !.clubs = clubs, !.matches = matches]
  BY <1>1
<1>3. clubs \in Seq(SquadReferences)
  <2> DEFINE limit == IF SyncSquads < SyncRequests THEN SyncSquads ELSE SyncRequests
  <2>1. PICK order \in [1..Cardinality(SquadReferences) -> SquadReferences] :
          clubs = Truncated(order, limit)
    BY DEF ClubTargets
  <2>2. Cardinality(SquadReferences) \in Nat
    BY PlayerSyncAssumption, FS_CardinalityType
  <2>3. order \in Seq(SquadReferences)
    BY <2>2, SeqDef
  <2>4. limit \in Nat
    BY PlayerSyncAssumption
  <2> HIDE DEF limit
  <2> QED
    BY <2>1, <2>3, <2>4, TruncatedLength
<1>4. matches \in Seq(MatchReferences)
  BY <1>2, TargetsOpen
<1>5. /\ psRun' \in Run /\ psRun'.step = "injuries"
      /\ psRun'.used = NoRun.used /\ psRun'.requested = NoRun.requested
  BY <1>2, <1>3, <1>4, IdleBudgeted, Zenon DEF Run, Step
<1>6. psRun'.used <= SyncRequests /\ psRun'.requested = 0
  BY <1>5, PlayerSyncAssumption DEF NoRun
<1>7. Budgeted(psRun')
  BY <1>5, <1>6 DEF Budgeted
<1> QED
  BY <1>5, <1>7 DEF WithinBudget

-----------------------------------------------------------------------------
(* Every behaviour                                                          *)

LEMMA InitBudgeted == PlayerSyncInit => WithinBudget
BY IdleBudgeted DEF PlayerSyncInit, PlayerSyncStart, WithinBudget

LEMMA NextBudgeted == WithinBudget /\ [PlayerSyncNext]_playerSyncVars => WithinBudget'
<1> SUFFICES ASSUME WithinBudget, [PlayerSyncNext]_playerSyncVars PROVE WithinBudget'
  OBVIOUS
<1>1. CASE EndSync \/ SyncRaises
  BY <1>1, IdleBudgeted DEF EndSync, SyncRaises, WithinBudget
<1>2. CASE UNCHANGED playerSyncVars
  BY <1>2 DEF playerSyncVars, WithinBudget
<1> QED
  BY <1>1, <1>2, StartBudgeted, InjuriesBudgeted, TransfersBudgeted, SquadBudgeted,
     EndSquadsBudgeted, FallbackBudgeted, LineupsBudgeted, PerformancesBudgeted
     DEF PlayerSyncNext

LEMMA BudgetedServed == WithinBudget => MatchDetailsNotStarved
BY DEF WithinBudget, Budgeted, MatchDetailsNotStarved

\* For any budget and limits, any catalogues and any failures: no run sends
\* more requests than max_requests, and one that comes to its end has asked for
\* the details of each of its matches, or of as many as the requests left by
\* the injuries and transfers pay for (match_reserve in sync_player_context).
THEOREM DetailsServed == PlayerSyncSpec => []MatchDetailsNotStarved
<1>1. PlayerSyncInit => WithinBudget
  BY InitBudgeted
<1>2. WithinBudget /\ [PlayerSyncNext]_playerSyncVars => WithinBudget'
  BY NextBudgeted
<1>3. WithinBudget => MatchDetailsNotStarved
  BY BudgetedServed
<1> QED
  BY <1>1, <1>2, <1>3, PTL DEF PlayerSyncSpec

-----------------------------------------------------------------------------
(* What is stored stays: the steps of the ingestions and their walks         *)

SquadStep(club, b, db, p) == SquadPlayer(club, db, p)
FplStep(targets, b, db, p) == FplPlayer(targets, db, p)
InjuryStep(rows, fetch, db, i) == InjuryReport(rows, fetch, db, i)
TransferStep(a, b, db, r) == Transfer(db, r)
LineupPlayerStep(a, b, db, p) == LineupPlayer(db, p)
LineupStep(game, b, db, lineup) == Lineup(game, db, lineup)
PerformanceStep(game, now, db, row) == Performance(game, now, db, row)

Shaped(db) ==
    db = [players |-> db.players, refs |-> db.refs, members |-> db.members,
          reports |-> db.reports, transfers |-> db.transfers, lineups |-> db.lineups,
          performances |-> db.performances]

\* Nothing of what was stored is lost; new performances, and those that get
\* another time, are of these matches and runs, and none changes its run.
Keeping(base, played, db) ==
    /\ Shaped(db)
    /\ base.refs \subseteq db.refs
    /\ base.reports \subseteq db.reports
    /\ base.lineups \subseteq db.lineups
    /\ \A x \in base.performances :
         \/ x \in db.performances
         \/ <<x.match, x.available[1]>> \in played /\ \E y \in db.performances : SameRun(x, y)
    /\ \A x \in db.performances :
         x \in base.performances \/ <<x.match, x.available[1]>> \in played

\* The same of the first k rows of an answer; g is what was stored and these
\* matches and runs.
RowsKeep(g, k, db) == Keeping(g[1], g[2], db)

SquadRows == INSTANCE Folding WITH Step <- SquadStep, Keeps <- RowsKeep
FplRows == INSTANCE Folding WITH Step <- FplStep, Keeps <- RowsKeep
InjuryRows == INSTANCE Folding WITH Step <- InjuryStep, Keeps <- RowsKeep
TransferRows == INSTANCE Folding WITH Step <- TransferStep, Keeps <- RowsKeep
LineupPlayers == INSTANCE Folding WITH Step <- LineupPlayerStep, Keeps <- RowsKeep
LineupRows == INSTANCE Folding WITH Step <- LineupStep, Keeps <- RowsKeep
PerformanceRows == INSTANCE Folding WITH Step <- PerformanceStep, Keeps <- RowsKeep

-----------------------------------------------------------------------------
(* One row                                                                  *)

\* A player that is added, named or referred to disturbs nothing stored.
LEMMA ResolveKeeps ==
    ASSUME NEW base, NEW played, NEW db, Keeping(base, played, db), NEW p
    PROVE  Keeping(base, played, ResolvePlayer(db, p))
  BY DEF Keeping, Shaped, ResolvePlayer, Refer, AddPlayer

LEMMA ResolveFplKeeps ==
    ASSUME NEW base, NEW played, NEW db, Keeping(base, played, db), NEW p, NEW club
    PROVE  Keeping(base, played, ResolveFplPlayer(db, p, club))
  BY DEF Keeping, Shaped, ResolveFplPlayer, Refer, AddPlayer

LEMMA MemberKeeps ==
    ASSUME NEW base, NEW played, NEW db, Keeping(base, played, db),
           NEW club, NEW player, NEW position
    PROVE  Keeping(base, played, AddMember(db, club, player, position))
<1>1. ASSUME NEW members
      PROVE  Keeping(base, played, [db EXCEPT !.members = members])
  BY DEF Keeping, Shaped
<1> QED BY <1>1, Zenon DEF AddMember

LEMMA SquadPlayerKeeps ==
    ASSUME NEW base, NEW played, NEW db, Keeping(base, played, db), NEW club, NEW p
    PROVE  Keeping(base, played, SquadPlayer(club, db, p))
  BY ResolveKeeps, MemberKeeps DEF SquadPlayer, ForPlayer

LEMMA FplPlayerKeeps ==
    ASSUME NEW base, NEW played, NEW db, Keeping(base, played, db), NEW targets, NEW p
    PROVE  Keeping(base, played, FplPlayer(targets, db, p))
  BY ResolveFplKeeps, MemberKeeps DEF FplPlayer

LEMMA InjuryKeeps ==
    ASSUME NEW base, NEW played, NEW db, Keeping(base, played, db),
           NEW rows, NEW fetch, NEW i
    PROVE  Keeping(base, played, InjuryReport(rows, fetch, db, i))
<1>1. ASSUME NEW d, Keeping(base, played, d), NEW report
      PROVE  Keeping(base, played, [d EXCEPT !.reports = @ \cup {report}])
  <2>1. ASSUME NEW reports, d.reports \subseteq reports
        PROVE  Keeping(base, played, [d EXCEPT !.reports = reports])
    BY <1>1, <2>1 DEF Keeping, Shaped
  <2>2. d.reports \subseteq d.reports \cup {report}
    OBVIOUS
  <2> QED BY <2>1, <2>2
<1> DEFINE resolved == ResolvePlayer(db, rows[i].player)
<1>2. Keeping(base, played, resolved)
  BY ResolveKeeps
<1> HIDE DEF resolved
<1> QED BY <1>1, <1>2, Zenon DEF InjuryReport, ForPlayer, resolved

LEMMA TransferKeeps ==
    ASSUME NEW base, NEW played, NEW db, Keeping(base, played, db), NEW r
    PROVE  Keeping(base, played, Transfer(db, r))
<1>1. ASSUME NEW d, Keeping(base, played, d), NEW transfer
      PROVE  Keeping(base, played, [d EXCEPT !.transfers = @ \cup {transfer}])
  <2>1. ASSUME NEW transfers
        PROVE  Keeping(base, played, [d EXCEPT !.transfers = transfers])
    BY <1>1 DEF Keeping, Shaped
  <2> QED BY <2>1
<1> DEFINE resolved == ResolvePlayer(db, r.player)
<1>2. Keeping(base, played, resolved)
  BY ResolveKeeps
<1> HIDE DEF resolved
<1> QED BY <1>1, <1>2, Zenon DEF Transfer, ForPlayer, resolved

LEMMA LineupPlayerKeeps ==
    ASSUME NEW base, NEW played, NEW db, Keeping(base, played, db), NEW p
    PROVE  Keeping(base, played, LineupPlayer(db, p))
  BY ResolveKeeps DEF LineupPlayer, ForPlayer

\* What is overwritten was stored by this run.
LEMMA PerformanceKeeps ==
    ASSUME NEW base, NEW game, NEW run,
           \A x \in base.performances : x.match = game => x.available[1] = run,
           NEW db, Keeping(base, {<<game, run>>}, db), NEW now, now[1] = run, NEW row
    PROVE  Keeping(base, {<<game, run>>}, Performance(game, now, db, row))
<1>1. ASSUME NEW d, Keeping(base, {<<game, run>>}, d), NEW player
      PROVE  Keeping(base, {<<game, run>>},
               [d EXCEPT !.performances =
                  {x \in @ : <<x.match, x.club, x.player>> # <<game, row.club, player>>}
                    \cup {[match |-> game, club |-> row.club, player |-> player,
                           available |-> now]}])
  <2> DEFINE new == [match |-> game, club |-> row.club, player |-> player, available |-> now]
             other == {x \in d.performances :
                         <<x.match, x.club, x.player>> # <<game, row.club, player>>}
             result == other \cup {new}
  <2>1. ASSUME NEW performances,
               \A x \in base.performances :
                 \/ x \in performances
                 \/ <<x.match, x.available[1]>> \in {<<game, run>>} /\ \E y \in performances : SameRun(x, y),
               \A x \in performances :
                 x \in base.performances \/ <<x.match, x.available[1]>> \in {<<game, run>>}
        PROVE  Keeping(base, {<<game, run>>}, [d EXCEPT !.performances = performances])
    BY <1>1, <2>1 DEF Keeping, Shaped
  <2>2. /\ new.match = game /\ new.club = row.club /\ new.player = player
        /\ new.available[1] = run
    OBVIOUS
  <2> HIDE DEF new
  <2>3. ASSUME NEW x \in base.performances
        PROVE  \/ x \in result
               \/ <<x.match, x.available[1]>> \in {<<game, run>>} /\ \E y \in result : SameRun(x, y)
    <3>1. new \in result /\ other \subseteq result
      OBVIOUS
    <3>2. CASE x \in other
      BY <3>1, <3>2
    <3>3. CASE x \in d.performances /\ x \notin other
      <4>1. /\ x.match = game /\ x.club = row.club /\ x.player = player
            /\ x.available[1] = run
        BY <3>3
      <4>2. SameRun(x, new)
        BY <2>2, <4>1 DEF SameRun
      <4> QED BY <3>1, <4>1, <4>2
    <3>4. CASE x \notin d.performances
      <4>1. PICK y \in d.performances :
              x.match = game /\ x.available[1] = run /\ SameRun(x, y)
        BY <1>1, <3>4 DEF Keeping
      <4>2. CASE y \in other
        BY <3>1, <4>1, <4>2
      <4>3. CASE y \notin other
        <5>1. y.match = game /\ y.club = row.club /\ y.player = player
          BY <4>1, <4>3
        <5>2. SameRun(x, new)
          BY <2>2, <4>1, <5>1 DEF SameRun
        <5> QED BY <3>1, <4>1, <5>2
      <4> QED BY <4>2, <4>3
    <3> QED BY <3>2, <3>3, <3>4
  <2>4. ASSUME NEW x \in result
        PROVE  x \in base.performances \/ <<x.match, x.available[1]>> \in {<<game, run>>}
    <3>1. CASE x = new
      BY <2>2, <3>1
    <3>2. CASE x \in d.performances
      BY <1>1, <3>2 DEF Keeping
    <3> QED BY <3>1, <3>2
  <2> HIDE DEF result
  <2>5. Keeping(base, {<<game, run>>}, [d EXCEPT !.performances = result])
    BY <2>1, <2>3, <2>4
  <2> QED BY <2>5 DEF result, new
<1> DEFINE resolved == ResolvePlayer(db, row.player)
<1>2. Keeping(base, {<<game, run>>}, resolved)
  BY ResolveKeeps
<1> HIDE DEF resolved
<1> QED BY <1>1, <1>2, Zenon DEF Performance, ForPlayer, resolved

-----------------------------------------------------------------------------
(* One answer                                                               *)

\* What each row of an answer keeps, its transaction keeps.
LEMMA SquadKeeps ==
    ASSUME NEW base, NEW played, NEW db, Keeping(base, played, db),
           NEW club, NEW players,
           IsList(players)
    PROVE  Keeping(base, played, IngestSquad(db, club, players))
<1> DEFINE g == <<base, played>>
           rows == players
           n == Len(rows)
<1>1. IngestSquad(db, club, players) = SquadRows!Folded(club, 0, db, rows)
  BY Zenon DEF IngestSquad, SquadStep, SquadRows!Folded, SquadRows!FoldLeft,
               SquadRows!MapThenFoldSet, SquadRows!Max, FoldLeft, MapThenFoldSet, Max
<1>2. \A k, d : RowsKeep(g, k, d) <=> Keeping(base, played, d)
  BY DEF RowsKeep
<1>3. ASSUME NEW d, Keeping(base, played, d), NEW x
      PROVE  Keeping(base, played, SquadStep(club, 0, d, x))
  BY <1>3, SquadPlayerKeeps, Zenon DEF SquadStep
<1>4. n \in Nat /\ DOMAIN rows = 1..n
  BY DEF IsList
<1> HIDE DEF g, n, rows
<1>5. RowsKeep(g, 0, db)
  BY <1>2
<1>6. ASSUME NEW k \in 1..n, NEW d, RowsKeep(g, k - 1, d)
      PROVE  RowsKeep(g, k, SquadStep(club, 0, d, rows[k]))
  BY <1>2, <1>3, <1>6, Zenon
<1>7. RowsKeep(g, n, SquadRows!Folded(club, 0, db, rows))
  BY <1>4, <1>5, <1>6, SquadRows!FoldKeeps
<1> QED BY <1>1, <1>2, <1>7, Zenon

LEMMA FplKeeps ==
    ASSUME NEW base, NEW played, NEW db, Keeping(base, played, db),
           NEW targets, NEW elements,
           IsList(elements)
    PROVE  Keeping(base, played, IngestFplSquads(db, elements, targets))
<1> DEFINE g == <<base, played>>
           rows == elements
           n == Len(rows)
<1>1. IngestFplSquads(db, elements, targets) = FplRows!Folded(targets, 0, db, rows)
  BY Zenon DEF IngestFplSquads, FplStep, FplRows!Folded, FplRows!FoldLeft,
               FplRows!MapThenFoldSet, FplRows!Max, FoldLeft, MapThenFoldSet, Max
<1>2. \A k, d : RowsKeep(g, k, d) <=> Keeping(base, played, d)
  BY DEF RowsKeep
<1>3. ASSUME NEW d, Keeping(base, played, d), NEW x
      PROVE  Keeping(base, played, FplStep(targets, 0, d, x))
  BY <1>3, FplPlayerKeeps, Zenon DEF FplStep
<1>4. n \in Nat /\ DOMAIN rows = 1..n
  BY DEF IsList
<1> HIDE DEF g, n, rows
<1>5. RowsKeep(g, 0, db)
  BY <1>2
<1>6. ASSUME NEW k \in 1..n, NEW d, RowsKeep(g, k - 1, d)
      PROVE  RowsKeep(g, k, FplStep(targets, 0, d, rows[k]))
  BY <1>2, <1>3, <1>6, Zenon
<1>7. RowsKeep(g, n, FplRows!Folded(targets, 0, db, rows))
  BY <1>4, <1>5, <1>6, FplRows!FoldKeeps
<1> QED BY <1>1, <1>2, <1>7, Zenon

LEMMA TransfersKeep ==
    ASSUME NEW base, NEW played, NEW db, Keeping(base, played, db),
           NEW rows,
           IsList(rows)
    PROVE  Keeping(base, played, IngestTransfers(db, rows))
<1> DEFINE g == <<base, played>>
           n == Len(rows)
<1>1. IngestTransfers(db, rows) = TransferRows!Folded(0, 0, db, rows)
  BY Zenon DEF IngestTransfers, TransferStep, TransferRows!Folded, TransferRows!FoldLeft,
               TransferRows!MapThenFoldSet, TransferRows!Max, FoldLeft, MapThenFoldSet, Max
<1>2. \A k, d : RowsKeep(g, k, d) <=> Keeping(base, played, d)
  BY DEF RowsKeep
<1>3. ASSUME NEW d, Keeping(base, played, d), NEW x
      PROVE  Keeping(base, played, TransferStep(0, 0, d, x))
  BY <1>3, TransferKeeps, Zenon DEF TransferStep
<1>4. n \in Nat /\ DOMAIN rows = 1..n
  BY DEF IsList
<1> HIDE DEF g, n
<1>5. RowsKeep(g, 0, db)
  BY <1>2
<1>6. ASSUME NEW k \in 1..n, NEW d, RowsKeep(g, k - 1, d)
      PROVE  RowsKeep(g, k, TransferStep(0, 0, d, rows[k]))
  BY <1>2, <1>3, <1>6, Zenon
<1>7. RowsKeep(g, n, TransferRows!Folded(0, 0, db, rows))
  BY <1>4, <1>5, <1>6, TransferRows!FoldKeeps
<1> QED BY <1>1, <1>2, <1>7, Zenon

LEMMA InjuriesKeep ==
    ASSUME NEW base, NEW played, NEW db, Keeping(base, played, db),
           NEW reports, NEW fetch,
           IsList(reports)
    PROVE  Keeping(base, played, IngestInjuries(db, reports, fetch))
<1> DEFINE g == <<base, played>>
           rows == [i \in DOMAIN reports |-> i]
           n == Len(reports)
<1>1. IngestInjuries(db, reports, fetch) = InjuryRows!Folded(reports, fetch, db, rows)
  BY Zenon DEF IngestInjuries, InjuryStep, InjuryRows!Folded, InjuryRows!FoldLeft,
               InjuryRows!MapThenFoldSet, InjuryRows!Max, FoldLeft, MapThenFoldSet, Max
<1>2. \A k, d : RowsKeep(g, k, d) <=> Keeping(base, played, d)
  BY DEF RowsKeep
<1>3. ASSUME NEW d, Keeping(base, played, d), NEW x
      PROVE  Keeping(base, played, InjuryStep(reports, fetch, d, x))
  BY <1>3, InjuryKeeps, Zenon DEF InjuryStep
<1>4. n \in Nat /\ DOMAIN rows = 1..n
  BY DEF IsList
<1> HIDE DEF g, n, rows
<1>5. RowsKeep(g, 0, db)
  BY <1>2
<1>6. ASSUME NEW k \in 1..n, NEW d, RowsKeep(g, k - 1, d)
      PROVE  RowsKeep(g, k, InjuryStep(reports, fetch, d, rows[k]))
  BY <1>2, <1>3, <1>6, Zenon
<1>7. RowsKeep(g, n, InjuryRows!Folded(reports, fetch, db, rows))
  BY <1>4, <1>5, <1>6, InjuryRows!FoldKeeps
<1> QED BY <1>1, <1>2, <1>7, Zenon

LEMMA PlayersKeep ==
    ASSUME NEW base, NEW played, NEW db, Keeping(base, played, db),
           NEW players,
           IsList(players)
    PROVE  Keeping(base, played, FoldLeft(LineupPlayer, db, players))
<1> DEFINE g == <<base, played>>
           rows == players
           n == Len(rows)
<1>1. FoldLeft(LineupPlayer, db, players) = LineupPlayers!Folded(0, 0, db, rows)
  BY Zenon DEF LineupPlayerStep, LineupPlayers!Folded, LineupPlayers!FoldLeft,
               LineupPlayers!MapThenFoldSet, LineupPlayers!Max, FoldLeft, MapThenFoldSet, Max
<1>2. \A k, d : RowsKeep(g, k, d) <=> Keeping(base, played, d)
  BY DEF RowsKeep
<1>3. ASSUME NEW d, Keeping(base, played, d), NEW x
      PROVE  Keeping(base, played, LineupPlayerStep(0, 0, d, x))
  BY <1>3, LineupPlayerKeeps, Zenon DEF LineupPlayerStep
<1>4. n \in Nat /\ DOMAIN rows = 1..n
  BY DEF IsList
<1> HIDE DEF g, n, rows
<1>5. RowsKeep(g, 0, db)
  BY <1>2
<1>6. ASSUME NEW k \in 1..n, NEW d, RowsKeep(g, k - 1, d)
      PROVE  RowsKeep(g, k, LineupPlayerStep(0, 0, d, rows[k]))
  BY <1>2, <1>3, <1>6, Zenon
<1>7. RowsKeep(g, n, LineupPlayers!Folded(0, 0, db, rows))
  BY <1>4, <1>5, <1>6, LineupPlayers!FoldKeeps
<1> QED BY <1>1, <1>2, <1>7, Zenon

LEMMA LineupKeeps ==
    ASSUME NEW base, NEW played, NEW db, Keeping(base, played, db), NEW game, NEW lineup,
           IsList(lineup.players)
    PROVE  Keeping(base, played, Lineup(game, db, lineup))
<1> DEFINE row == [match |-> game, club |-> lineup.club, content |-> lineup.players]
           added == [db EXCEPT !.lineups = @ \cup {row}]
<1>1. Keeping(base, played, added)
  <2>1. ASSUME NEW lineups, db.lineups \subseteq lineups
        PROVE  Keeping(base, played, [db EXCEPT !.lineups = lineups])
    BY <2>1 DEF Keeping, Shaped
  <2>2. db.lineups \subseteq db.lineups \cup {row}
    OBVIOUS
  <2> HIDE DEF row
  <2> QED BY <2>1, <2>2
<1> HIDE DEF added
<1>2. Keeping(base, played, FoldLeft(LineupPlayer, added, lineup.players))
  BY <1>1, PlayersKeep
<1> QED BY <1>2, Zenon DEF Lineup, added

LEMMA LineupsKeep ==
    ASSUME NEW base, NEW played, NEW db, Keeping(base, played, db),
           NEW game, NEW lineups,
           IsList(lineups), \A i \in DOMAIN lineups : IsList(lineups[i].players)
    PROVE  Keeping(base, played, IngestLineups(db, game, lineups))
<1> DEFINE g == <<base, played>>
           rows == lineups
           n == Len(rows)
<1>1. IngestLineups(db, game, lineups) = LineupRows!Folded(game, 0, db, rows)
  BY Zenon DEF IngestLineups, LineupStep, LineupRows!Folded, LineupRows!FoldLeft,
               LineupRows!MapThenFoldSet, LineupRows!Max, FoldLeft, MapThenFoldSet, Max
<1>2. \A k, d : RowsKeep(g, k, d) <=> Keeping(base, played, d)
  BY DEF RowsKeep
<1>3. ASSUME NEW d, Keeping(base, played, d), NEW x \in DOMAIN rows
      PROVE  Keeping(base, played, LineupStep(game, 0, d, rows[x]))
  BY <1>3, LineupKeeps, Zenon DEF LineupStep
<1>4. n \in Nat /\ DOMAIN rows = 1..n
  BY DEF IsList
<1> HIDE DEF g, n, rows
<1>5. RowsKeep(g, 0, db)
  BY <1>2
<1>6. ASSUME NEW k \in 1..n, NEW d, RowsKeep(g, k - 1, d)
      PROVE  RowsKeep(g, k, LineupStep(game, 0, d, rows[k]))
  BY <1>2, <1>3, <1>4, <1>6, Zenon
<1>7. RowsKeep(g, n, LineupRows!Folded(game, 0, db, rows))
  BY <1>4, <1>5, <1>6, LineupRows!FoldKeeps
<1> QED BY <1>1, <1>2, <1>7, Zenon

LEMMA PerformancesKeep ==
    ASSUME NEW base, NEW game, NEW run, NEW db, Keeping(base, {<<game, run>>}, db),
           NEW rows, NEW now, now[1] = run,
           \A x \in base.performances : x.match = game => x.available[1] = run,
           IsList(rows)
    PROVE  Keeping(base, {<<game, run>>}, IngestPerformances(db, game, rows, now))
<1> DEFINE g == <<base, {<<game, run>>}>>
           n == Len(rows)
<1>1. IngestPerformances(db, game, rows, now) = PerformanceRows!Folded(game, now, db, rows)
  BY Zenon DEF IngestPerformances, PerformanceStep, PerformanceRows!Folded, PerformanceRows!FoldLeft,
               PerformanceRows!MapThenFoldSet, PerformanceRows!Max, FoldLeft, MapThenFoldSet, Max
<1>2. \A k, d : RowsKeep(g, k, d) <=> Keeping(base, {<<game, run>>}, d)
  BY DEF RowsKeep
<1>3. ASSUME NEW d, Keeping(base, {<<game, run>>}, d), NEW x
      PROVE  Keeping(base, {<<game, run>>}, PerformanceStep(game, now, d, x))
  BY <1>3, PerformanceKeeps, Zenon DEF PerformanceStep
<1>4. n \in Nat /\ DOMAIN rows = 1..n
  BY DEF IsList
<1> HIDE DEF g, n
<1>5. RowsKeep(g, 0, db)
  BY <1>2
<1>6. ASSUME NEW k \in 1..n, NEW d, RowsKeep(g, k - 1, d)
      PROVE  RowsKeep(g, k, PerformanceStep(game, now, d, rows[k]))
  BY <1>2, <1>3, <1>6, Zenon
<1>7. RowsKeep(g, n, PerformanceRows!Folded(game, now, db, rows))
  BY <1>4, <1>5, <1>6, PerformanceRows!FoldKeeps
<1> QED BY <1>1, <1>2, <1>7, Zenon

-----------------------------------------------------------------------------
(* Every run                                                                *)

\* The page that is asked for next was announced by the one before it.
PagesExist(run, answers) ==
    /\ run.step = "injuries" => run.page \in 1..Len(answers.injuries)
    /\ run.step = "transfers" => run.page \in 1..Len(answers.transfers)

\* The identifiers still to be asked for differ, and what is stored of their
\* matches was stored by this run, under another one.
Ahead(matches, run, db) ==
    \A i \in DOMAIN matches :
        /\ \A x \in db.performances :
             x.match = MatchOf[matches[i]] =>
               x.available[1] = run /\ SeveralReferences(x.match)
        /\ \A j \in DOMAIN matches : i # j => matches[i] # matches[j]

Stored ==
    /\ psSource \in Catalogues
    /\ Shaped(psDb)
    /\ PagesExist(psRun, psSource)
    /\ Ahead(psRun.matches, psRuns, psDb)

Stays(base, db) ==
    /\ \A x \in base.performances :
         \/ x \in db.performances
         \/ SeveralReferences(x.match) /\ \E y \in db.performances : SameRun(x, y)
    /\ base.lineups \subseteq db.lineups
    /\ base.reports \subseteq db.reports
    /\ base.refs \subseteq db.refs

LEMMA NothingAhead == \A run, db : Ahead(<<>>, run, db)
<1>1. DOMAIN <<>> = {}
  BY EmptySeq
<1> QED BY <1>1, Zenon DEF Ahead

\* An ingestion that adds no performances leaves the matches ahead as they are.
LEMMA KeptStored ==
    ASSUME Stored, psSource' = psSource, psRuns' = psRuns, Keeping(psDb, {}, psDb'),
           PagesExist(psRun', psSource),
           psRun'.matches = psRun.matches \/ psRun'.matches = <<>>
    PROVE  Stored' /\ Stays(psDb, psDb')
<1>1. Stays(psDb, psDb') /\ Shaped(psDb')
  BY Zenon DEF Keeping, Stays
<1>2. Ahead(psRun.matches, psRuns', psDb')
  BY Zenon DEF Stored, Ahead, Keeping
<1>3. Ahead(psRun'.matches, psRuns', psDb')
  BY <1>2, NothingAhead, Zenon
<1>4. Shaped(psDb)'
  BY <1>1, Zenon DEF Shaped
<1>5. PagesExist(psRun, psSource)'
  BY Zenon DEF PagesExist
<1>6. Ahead(psRun.matches, psRuns, psDb)'
  BY <1>3, Zenon DEF Ahead
<1>7. psSource' \in Catalogues
  BY DEF Stored
<1> QED BY <1>1, <1>4, <1>5, <1>6, <1>7, Zenon DEF Stored

LEMMA NothingIngested == ASSUME Stored PROVE Keeping(psDb, {}, psDb)
BY DEF Stored, Keeping

\* The answers of this run are lists.
LEMMA Answers ==
    ASSUME Stored
    PROVE  /\ IsPaged(psSource.injuries) /\ IsPaged(psSource.transfers)
           /\ IsList(psSource.fpl)
           /\ \A r \in SquadReferences : IsList(psSource.squads[r].players)
           /\ \A r \in MatchReferences :
                /\ IsList(psSource.performances[r]) /\ IsList(psSource.lineups[r])
                /\ \A i \in DOMAIN psSource.lineups[r] :
                     IsList(psSource.lineups[r][i].players)
BY CatalogueAssumption, Zenon DEF Stored

LEMMA EndedStored ==
    ASSUME Stored, psSource' = psSource, psRuns' = psRuns, psRun' = NoRun, psDb' = psDb
    PROVE  Stored' /\ Stays(psDb, psDb')
<1>1. NoRun.step = "idle" /\ NoRun.matches = <<>>
  BY DEF NoRun
<1>2. PagesExist(psRun', psSource)
  BY <1>1 DEF PagesExist
<1>3. Keeping(psDb, {}, psDb')
  BY NothingIngested, Zenon
<1> QED BY <1>1, <1>2, <1>3, KeptStored, Zenon

LEMMA InjuriesStored ==
    ASSUME WithinBudget, Stored, SyncInjuries
    PROVE  Stored' /\ Stays(psDb, psDb')
<1> DEFINE turned == [Spend(psRun) EXCEPT !.page = @ + 1]
<1>1. psRun \in Run /\ psRun.step = "injuries" /\ psSource' = psSource /\ psRuns' = psRuns
  BY DEF WithinBudget, SyncInjuries, PagedStep
<1>2. psDb' = psDb \/ psDb' = IngestInjuries(psDb, psSource.injuries[psRun.page], Fetch(psRun))
  BY Zenon DEF SyncInjuries, PagedStep
<1>3. \/ psRun' = NoRun \/ psRun' = AfterInjuries(psRun)
      \/ psRun' = AfterInjuries(Spend(psRun))
      \/ psRun.page < Len(psSource.injuries) /\ psRun' = turned
  BY Zenon DEF SyncInjuries, PagedStep
<1>4. /\ IsPaged(psSource.injuries) /\ IsPaged(psSource.transfers)
      /\ psRun.page \in 1..Len(psSource.injuries)
  BY <1>1, Answers DEF Stored, PagesExist
<1>5. Len(psSource.injuries) \in Nat /\ IsList(psSource.injuries[psRun.page])
      /\ Len(psSource.transfers) \in Nat /\ Len(psSource.transfers) > 0
  BY <1>4 DEF IsPaged, IsList
<1>6. Keeping(psDb, {}, psDb')
  BY <1>2, <1>5, NothingIngested, InjuriesKeep, Zenon
<1>7. /\ Spend(psRun) \in Run /\ Spend(psRun).matches = psRun.matches
      /\ Spend(psRun).page = psRun.page /\ Spend(psRun).step = psRun.step
  BY <1>1, SpendRun DEF Spend, Run
<1>8. ASSUME NEW run \in Run, run.matches = psRun.matches
      PROVE  AfterInjuries(run).matches = psRun.matches
             /\ PagesExist(AfterInjuries(run), psSource)
  BY <1>5, <1>8 DEF AfterInjuries, PagesExist, Run
<1>9. CASE psRun.page < Len(psSource.injuries) /\ psRun' = turned
  <2> DEFINE spent == Spend(psRun)
             next == psRun.page + 1
  <2>1. turned = [spent EXCEPT !.page = next]
    BY <1>7
  <2>2. next \in 1..Len(psSource.injuries)
    BY <1>4, <1>5, <1>9
  <2> HIDE DEF spent, turned, next
  <2>3. turned.matches = spent.matches /\ turned.step = spent.step /\ turned.page = next
    BY <1>7, <2>1 DEF Run, spent
  <2>4. turned.matches = psRun.matches /\ turned.step = "injuries" /\ turned.page = next
    BY <1>1, <1>7, <2>3 DEF spent
  <2>5. PagesExist(turned, psSource)
    BY <2>2, <2>4 DEF PagesExist
  <2> QED BY <1>1, <1>6, <1>9, <2>4, <2>5, KeptStored, Zenon
<1>10. CASE psRun' = AfterInjuries(psRun) \/ psRun' = AfterInjuries(Spend(psRun))
  BY <1>1, <1>6, <1>7, <1>8, <1>10, KeptStored, Zenon
<1>11. CASE psRun' = NoRun
  <2>1. NoRun.step = "idle" /\ NoRun.matches = <<>>
    BY DEF NoRun
  <2>2. PagesExist(psRun', psSource)
    BY <1>11, <2>1 DEF PagesExist
  <2> QED BY <1>1, <1>6, <1>11, <2>1, <2>2, KeptStored, Zenon
<1> QED BY <1>3, <1>9, <1>10, <1>11

LEMMA TransfersStored ==
    ASSUME WithinBudget, Stored, SyncTransfers
    PROVE  Stored' /\ Stays(psDb, psDb')
<1> DEFINE turned == [Spend(psRun) EXCEPT !.page = @ + 1]
<1>1. psRun \in Run /\ psRun.step = "transfers" /\ psSource' = psSource /\ psRuns' = psRuns
  BY DEF WithinBudget, SyncTransfers, PagedStep
<1>2. psDb' = psDb \/ psDb' = IngestTransfers(psDb, psSource.transfers[psRun.page])
  BY Zenon DEF SyncTransfers, PagedStep
<1>3. \/ psRun' = NoRun \/ psRun' = AfterTransfers(psRun)
      \/ psRun' = AfterTransfers(Spend(psRun))
      \/ psRun.page < Len(psSource.transfers) /\ psRun' = turned
  BY Zenon DEF SyncTransfers, PagedStep
<1>4. /\ IsPaged(psSource.transfers)
      /\ psRun.page \in 1..Len(psSource.transfers)
  BY <1>1, Answers DEF Stored, PagesExist
<1>5. Len(psSource.transfers) \in Nat /\ IsList(psSource.transfers[psRun.page])
  BY <1>4 DEF IsPaged, IsList
<1>6. Keeping(psDb, {}, psDb')
  BY <1>2, <1>5, NothingIngested, TransfersKeep, Zenon
<1>7. /\ Spend(psRun) \in Run /\ Spend(psRun).matches = psRun.matches
      /\ Spend(psRun).page = psRun.page /\ Spend(psRun).step = psRun.step
  BY <1>1, SpendRun DEF Spend, Run
<1>8. ASSUME NEW run \in Run, run.matches = psRun.matches
      PROVE  AfterTransfers(run).matches = psRun.matches
             /\ PagesExist(AfterTransfers(run), psSource)
  <2> DEFINE clubs == Truncated(run.clubs, Left(run) - MatchReserve(run))
             after == [run EXCEPT !.step = "squads", !.global = run.used, !.clubs = clubs]
  <2>1. AfterTransfers(run) = after
    BY <1>8 DEF AfterTransfers, Run
  <2> HIDE DEF clubs
  <2>2. after.step = "squads" /\ after.matches = run.matches
    BY <1>8 DEF Run
  <2> HIDE DEF after
  <2>3. PagesExist(after, psSource)
    BY <2>2 DEF PagesExist
  <2> QED BY <1>8, <2>1, <2>2, <2>3, Zenon
<1>9. CASE psRun.page < Len(psSource.transfers) /\ psRun' = turned
  <2> DEFINE spent == Spend(psRun)
             next == psRun.page + 1
  <2>1. turned = [spent EXCEPT !.page = next]
    BY <1>7
  <2>2. next \in 1..Len(psSource.transfers)
    BY <1>4, <1>5, <1>9
  <2> HIDE DEF spent, turned, next
  <2>3. turned.matches = spent.matches /\ turned.step = spent.step /\ turned.page = next
    BY <1>7, <2>1 DEF Run, spent
  <2>4. turned.matches = psRun.matches /\ turned.step = "transfers" /\ turned.page = next
    BY <1>1, <1>7, <2>3 DEF spent
  <2>5. PagesExist(turned, psSource)
    BY <2>2, <2>4 DEF PagesExist
  <2> QED BY <1>1, <1>6, <1>9, <2>4, <2>5, KeptStored, Zenon
<1>10. CASE psRun' = AfterTransfers(psRun) \/ psRun' = AfterTransfers(Spend(psRun))
  BY <1>1, <1>6, <1>7, <1>8, <1>10, KeptStored, Zenon
<1>11. CASE psRun' = NoRun
  <2>1. NoRun.step = "idle" /\ NoRun.matches = <<>>
    BY DEF NoRun
  <2>2. PagesExist(psRun', psSource)
    BY <1>11, <2>1 DEF PagesExist
  <2> QED BY <1>1, <1>6, <1>11, <2>1, <2>2, KeptStored, Zenon
<1> QED BY <1>3, <1>9, <1>10, <1>11

LEMMA SquadStored ==
    ASSUME WithinBudget, Stored, SyncSquad
    PROVE  Stored' /\ Stays(psDb, psDb')
<1> DEFINE ref == Head(psRun.clubs)
           club == SquadClub[ref]
           rest == Tail(psRun.clubs)
           spent == Spend(psRun)
           next == [spent EXCEPT !.clubs = rest]
           more == next.fallback \cup {club}
           asked == [next EXCEPT !.fallback = more]
<1>1. psRun \in Run /\ psRun.step = "squads" /\ psRun.clubs # <<>> /\ psSource' = psSource /\ psRuns' = psRuns
  BY DEF WithinBudget, SyncSquad
<1>2. psRun.clubs \in Seq(SquadReferences)
  BY <1>1 DEF Run
<1>3. ref \in SquadReferences
  BY <1>1, <1>2, TailLength
<1>4. /\ spent \in Run /\ spent.matches = psRun.matches /\ spent.step = psRun.step
      /\ spent.clubs = psRun.clubs
  BY <1>1, SpendRun
<1>5. psDb' = psDb \/ psDb' = IngestSquad(psDb, club, psSource.squads[ref].players)
  BY Zenon DEF SyncSquad
<1>6. psRun' = next \/ psRun' = asked
  BY <1>4 DEF SyncSquad
<1>7. IsList(psSource.squads[ref].players)
  BY <1>3, Answers, Zenon
<1> HIDE DEF ref, club, rest, spent, more
<1>8. Keeping(psDb, {}, psDb')
  BY <1>5, <1>7, NothingIngested, SquadKeeps, Zenon
<1>9. next.matches = spent.matches /\ next.step = spent.step
  BY <1>4 DEF Run
<1>10. asked.matches = spent.matches /\ asked.step = spent.step
  BY <1>4 DEF Run
<1> HIDE DEF next, asked
<1>11. psRun'.matches = psRun.matches /\ psRun'.step = "squads"
  BY <1>1, <1>4, <1>6, <1>9, <1>10, Zenon
<1>12. PagesExist(psRun', psSource)
  BY <1>11 DEF PagesExist
<1> QED BY <1>1, <1>8, <1>11, <1>12, KeptStored, Zenon

LEMMA EndSquadsStored ==
    ASSUME WithinBudget, Stored, EndSquads
    PROVE  Stored' /\ Stays(psDb, psDb')
<1>1. psRun \in Run /\ psRun' = AfterSquads(psRun) /\ psSource' = psSource /\ psRuns' = psRuns /\ psDb' = psDb
  BY DEF WithinBudget, EndSquads
<1>2. psRun'.matches = psRun.matches /\ psRun'.step \in {"lineups", "fallback"}
  BY <1>1 DEF AfterSquads, Run
<1>3. PagesExist(psRun', psSource)
  BY <1>2 DEF PagesExist
<1>4. Keeping(psDb, {}, psDb')
  BY <1>1, NothingIngested, Zenon
<1> QED BY <1>1, <1>2, <1>3, <1>4, KeptStored, Zenon

LEMMA FallbackStored ==
    ASSUME WithinBudget, Stored, SyncFallback
    PROVE  Stored' /\ Stays(psDb, psDb')
<1>1. /\ psRun \in Run /\ psRun' = [psRun EXCEPT !.step = "lineups"] /\ psSource' = psSource /\ psRuns' = psRuns
      /\ psDb' = IngestFplSquads(psDb, psSource.fpl, psRun.fallback)
  BY DEF WithinBudget, SyncFallback
<1>2. psRun'.matches = psRun.matches /\ psRun'.step = "lineups"
  BY <1>1 DEF Run
<1>3. PagesExist(psRun', psSource)
  BY <1>2 DEF PagesExist
<1>4. Keeping(psDb, {}, psDb')
  BY <1>1, Answers, NothingIngested, FplKeeps, Zenon
<1> QED BY <1>1, <1>2, <1>3, <1>4, KeptStored, Zenon

LEMMA LineupsStored ==
    ASSUME WithinBudget, Stored, SyncLineups
    PROVE  Stored' /\ Stays(psDb, psDb')
<1> DEFINE ref == Head(psRun.matches)
           game == MatchOf[ref]
           spent == Spend(psRun)
           asked == [spent EXCEPT !.step = "performances"]
           over == [psRun EXCEPT !.step = "done"]
<1>1. psRun \in Run /\ psRun.matches \in Seq(MatchReferences) /\ psSource' = psSource /\ psRuns' = psRuns
  BY DEF WithinBudget, SyncLineups, Run
<1>2. \/ psRun' = over /\ psDb' = psDb
      \/ /\ psRun.matches # <<>> /\ psRun' = asked
         /\ psDb' = psDb \/ psDb' = IngestLineups(psDb, game, psSource.lineups[ref])
  BY Zenon DEF SyncLineups
<1>3. spent \in Run /\ spent.matches = psRun.matches
  BY <1>1, SpendRun
<1>4. psRun.matches # <<>> => ref \in MatchReferences
  BY <1>1, HeadTailProperties
<1>5. psRun.matches # <<>> =>
        /\ IsList(psSource.lineups[ref])
        /\ \A i \in DOMAIN psSource.lineups[ref] : IsList(psSource.lineups[ref][i].players)
  BY <1>4, Answers, Zenon
<1> HIDE DEF ref, game, spent
<1>6. Keeping(psDb, {}, psDb')
  <2>1. Keeping(psDb, {}, psDb)
    BY NothingIngested
  <2>2. CASE psDb' = psDb
    BY <2>1, <2>2, Zenon
  <2>3. CASE psRun.matches # <<>> /\ psDb' = IngestLineups(psDb, game, psSource.lineups[ref])
    <3> DEFINE lineups == psSource.lineups[ref]
    <3>1. IsList(lineups) /\ \A i \in DOMAIN lineups : IsList(lineups[i].players)
      BY <1>5, <2>3, Zenon
    <3> HIDE DEF lineups
    <3>2. Keeping(psDb, {}, IngestLineups(psDb, game, lineups))
      BY <2>1, <3>1, LineupsKeep
    <3> QED BY <2>3, <3>2, Zenon DEF lineups
  <2> QED BY <1>2, <2>2, <2>3, Zenon
<1>7. over.matches = psRun.matches /\ over.step = "done"
  BY <1>1 DEF Run
<1>8. asked.matches = psRun.matches /\ asked.step = "performances"
  BY <1>3 DEF Run
<1> HIDE DEF over, asked
<1>9. psRun'.matches = psRun.matches /\ psRun'.step \in {"performances", "done"}
  BY <1>2, <1>7, <1>8
<1>10. PagesExist(psRun', psSource)
  BY <1>9 DEF PagesExist
<1> QED BY <1>1, <1>6, <1>9, <1>10, KeptStored, Zenon

\* The performances of a match are stored when it is the turn of one of its
\* identifiers, which leaves the list.
LEMMA PerformancesStored ==
    ASSUME WithinBudget, Stored, SyncPerformances
    PROVE  Stored' /\ Stays(psDb, psDb')
<1> DEFINE ref == Head(psRun.matches)
           game == MatchOf[ref]
           now == Fetch(psRun)
           rest == Tail(psRun.matches)
           spent == Spend(psRun)
           more == spent.requested + 1
           next == [spent EXCEPT !.step = "lineups", !.matches = rest, !.requested = more]
<1>1. /\ psRun \in Run /\ psRun.matches \in Seq(MatchReferences) /\ psRun.matches # <<>>
      /\ psSource' = psSource /\ psRuns' = psRuns
  BY DEF WithinBudget, Budgeted, SyncPerformances, Run
<1>2. spent \in Run /\ spent.matches = psRun.matches
  BY <1>1, SpendRun
<1>3. psRun' = next
  BY <1>2 DEF SyncPerformances
<1>4. psDb' = psDb \/ psDb' = IngestPerformances(psDb, game, psSource.performances[ref], now)
  BY Zenon DEF SyncPerformances
<1>5. /\ ref \in MatchReferences /\ ref = psRun.matches[1] /\ Len(psRun.matches) > 0
      /\ DOMAIN psRun.matches = 1..Len(psRun.matches) /\ Len(psRun.matches) \in Nat
      /\ DOMAIN rest = 1..(Len(psRun.matches) - 1)
      /\ \A i \in DOMAIN rest : rest[i] = psRun.matches[i + 1]
  BY <1>1, SMT
<1>6. IsList(psSource.performances[ref])
  BY <1>5, Answers, Zenon
<1>17. now[1] = psRuns
  BY DEF Fetch
<1> HIDE DEF ref, game, rest, spent, more, now
<1>7. next.matches = rest /\ next.step = "lineups"
  BY <1>2 DEF Run
<1>8. \A x \in psDb.performances :
        x.match = game => x.available[1] = psRuns /\ SeveralReferences(x.match)
  <2>1. 1 \in DOMAIN psRun.matches
    BY <1>5
  <2>2. game = MatchOf[psRun.matches[1]]
    BY <1>5 DEF game
  <2> QED BY <2>1, <2>2, Zenon DEF Stored, Ahead
<1>9. Keeping(psDb, {<<game, psRuns>>}, psDb')
  <2>1. Keeping(psDb, {<<game, psRuns>>}, psDb)
    BY DEF Stored, Keeping
  <2>2. CASE psDb' = psDb
    BY <2>1, <2>2, Zenon
  <2>3. CASE psDb' = IngestPerformances(psDb, game, psSource.performances[ref], now)
    <3> DEFINE rows == psSource.performances[ref]
    <3>1. IsList(rows)
      BY <1>6
    <3> HIDE DEF rows
    <3>2. Keeping(psDb, {<<game, psRuns>>}, IngestPerformances(psDb, game, rows, now))
      BY <1>8, <1>17, <2>1, <3>1, PerformancesKeep
    <3> QED BY <2>3, <3>2, Zenon DEF rows
  <2> QED BY <1>4, <2>2, <2>3, Zenon
<1>10. Ahead(rest, psRuns, psDb')
  <2> SUFFICES ASSUME NEW i \in DOMAIN rest
               PROVE  /\ \A x \in psDb'.performances :
                           x.match = MatchOf[rest[i]] =>
                             x.available[1] = psRuns /\ SeveralReferences(x.match)
                      /\ \A j \in DOMAIN rest : i # j => rest[i] # rest[j]
    BY Zenon DEF Ahead
  <2>1. ASSUME NEW j \in DOMAIN rest
        PROVE  /\ j + 1 \in DOMAIN psRun.matches /\ rest[j] = psRun.matches[j + 1]
               /\ j + 1 # 1 /\ j + 1 \in Nat /\ j \in Nat
    BY <1>5
  <2>2. i + 1 \in DOMAIN psRun.matches /\ 1 \in DOMAIN psRun.matches /\ i + 1 # 1
    BY <1>5, <2>1
  <2>3. psRun.matches[i + 1] # psRun.matches[1]
    BY <2>2, Zenon DEF Stored, Ahead
  <2>4. \A x \in psDb.performances :
          x.match = MatchOf[psRun.matches[i + 1]] =>
            x.available[1] = psRuns /\ SeveralReferences(x.match)
    BY <2>2, Zenon DEF Stored, Ahead
  <2>5. rest[i] \in MatchReferences /\ rest[i] # ref
    <3>1. psRun.matches[i + 1] \in MatchReferences
      BY <1>1, <2>2
    <3> QED BY <1>5, <2>1, <2>3, <3>1
  <2>6. ASSUME NEW x \in psDb'.performances, x.match = MatchOf[rest[i]]
        PROVE  x.available[1] = psRuns /\ SeveralReferences(x.match)
    <3>1. CASE x \in psDb.performances
      BY <2>1, <2>4, <2>6, <3>1
    <3>2. CASE x \notin psDb.performances
      <4>1. x.match = game /\ x.available[1] = psRuns
        BY <1>9, <3>2 DEF Keeping
      <4>2. SeveralReferences(x.match)
        BY <1>5, <2>5, <2>6, <4>1 DEF SeveralReferences, game
      <4> QED BY <4>1, <4>2
    <3> QED BY <3>1, <3>2
  <2>7. ASSUME NEW j \in DOMAIN rest, i # j
        PROVE  rest[i] # rest[j]
    <3>1. i + 1 # j + 1
      BY <2>1, <2>7
    <3>2. psRun.matches[i + 1] # psRun.matches[j + 1]
      BY <2>1, <2>2, <3>1, Zenon DEF Stored, Ahead
    <3> QED BY <2>1, <3>2, Zenon
  <2> QED BY <2>6, <2>7, Zenon
<1> HIDE DEF next
<1>11. psRun'.matches = rest /\ psRun'.step = "lineups"
  BY <1>3, <1>7
<1>12. Stays(psDb, psDb') /\ Shaped(psDb')
  <2>1. ASSUME NEW x \in psDb.performances, x \notin psDb'.performances
        PROVE  SeveralReferences(x.match) /\ \E y \in psDb'.performances : SameRun(x, y)
    <3>1. <<x.match, x.available[1]>> \in {<<game, psRuns>>}
            /\ \E y \in psDb'.performances : SameRun(x, y)
      BY <1>9, <2>1, Zenon DEF Keeping
    <3>2. x.match = game
      BY <3>1
    <3> QED BY <1>8, <3>1, <3>2, Zenon
  <2> QED BY <1>9, <2>1, Zenon DEF Keeping, Stays
<1>13. PagesExist(psRun', psSource)
  BY <1>11 DEF PagesExist
<1>14. Shaped(psDb)' /\ PagesExist(psRun, psSource)'
  BY <1>1, <1>12, <1>13, Zenon DEF Shaped, PagesExist
<1>15. Ahead(psRun.matches, psRuns, psDb)'
  BY <1>1, <1>10, <1>11, Zenon DEF Ahead
<1>16. psSource' \in Catalogues
  BY <1>1 DEF Stored
<1> QED BY <1>12, <1>14, <1>15, <1>16, Zenon DEF Stored

\* A run begins with different identifiers of matches of which nothing is stored.
LEMMA StartStored ==
    ASSUME WithinBudget, Stored, StartSync
    PROVE  Stored' /\ Stays(psDb, psDb')
<1>1. psSource' \in Catalogues /\ psDb' = psDb
  BY DEF StartSync
<1>2. PICK clubs \in ClubTargets : \E matches \in MatchTargets :
        psRun' = [NoRun EXCEPT !.step = "injuries", !.clubs = clubs, !.matches = matches]
  BY DEF StartSync
<1>3. PICK matches \in MatchTargets :
        psRun' = [NoRun EXCEPT !.step = "injuries", !.clubs = clubs, !.matches = matches]
  BY <1>2
<1>4. psRun'.step = "injuries" /\ psRun'.page = 1 /\ psRun'.matches = matches
  BY <1>3 DEF NoRun
<1>5. IsPaged(psSource'.injuries)
  BY <1>1, CatalogueAssumption, Zenon
<1>6. PagesExist(psRun', psSource')
  BY <1>4, <1>5 DEF PagesExist, IsPaged, IsList
<1>7. Ahead(matches, psRuns', psDb)
  BY TargetsOpen, Zenon DEF Ahead
<1>8. Ahead(psRun.matches, psRuns, psDb)'
  BY <1>1, <1>4, <1>7, Zenon DEF Ahead
<1>9. Shaped(psDb)' /\ PagesExist(psRun, psSource)'
  BY <1>1, <1>6, Zenon DEF Stored, Shaped, PagesExist
<1>10. Stays(psDb, psDb')
  BY <1>1, Zenon DEF Stays
<1> QED BY <1>1, <1>8, <1>9, <1>10, Zenon DEF Stored

LEMMA InitStored == PlayerSyncInit => Stored
<1> SUFFICES ASSUME PlayerSyncInit PROVE Stored
  OBVIOUS
<1>1. psSource \in Catalogues /\ psRun = NoRun
  BY DEF PlayerSyncInit, PlayerSyncStart
<1>2. psRun.step = "idle" /\ psRun.matches = <<>>
  BY <1>1 DEF NoRun
<1>3. Shaped(psDb)
  BY DEF PlayerSyncInit, PlayerSyncStart, Shaped
<1>4. PagesExist(psRun, psSource)
  BY <1>2 DEF PagesExist
<1> QED BY <1>1, <1>2, <1>3, <1>4, NothingAhead, Zenon DEF Stored

LEMMA NextStored ==
    WithinBudget /\ Stored /\ [PlayerSyncNext]_playerSyncVars => Stored' /\ Stays(psDb, psDb')
<1> SUFFICES ASSUME WithinBudget, Stored, [PlayerSyncNext]_playerSyncVars
             PROVE  Stored' /\ Stays(psDb, psDb')
  OBVIOUS
<1>1. CASE EndSync \/ SyncRaises
  BY <1>1, EndedStored DEF EndSync, SyncRaises
<1>2. CASE UNCHANGED playerSyncVars
  BY <1>2 DEF playerSyncVars, Stored, Shaped, PagesExist, Ahead, Stays
<1> QED
  BY <1>1, <1>2, StartStored, InjuriesStored, TransfersStored, SquadStored,
     EndSquadsStored, FallbackStored, LineupsStored, PerformancesStored
     DEF PlayerSyncNext

\* In every step of every synchronization, whatever the providers answer and
\* whatever fails: a stored performance is never lost, and the time from which
\* models may use it stays as it is, although ingest_performances overwrites what
\* it finds, unless the run that stored it asks for the same match under another
\* identifier; no lineup, report or reference is lost.  It holds because
\* _match_targets asks only for matches of which no performance is stored, for
\* each identifier once.
THEOREM StoredForGood == PlayerSyncSpec => PerformancesKept
<1>1. PlayerSyncInit => WithinBudget /\ Stored
  BY InitBudgeted, InitStored
<1>2. WithinBudget /\ Stored /\ [PlayerSyncNext]_playerSyncVars => WithinBudget' /\ Stored'
  BY NextBudgeted, NextStored
<1>3. WithinBudget /\ Stored /\ [PlayerSyncNext]_playerSyncVars =>
        [/\ \A x \in psDb.performances :
              \/ x \in psDb'.performances
              \/ SeveralReferences(x.match) /\ \E y \in psDb'.performances : SameRun(x, y)
         /\ psDb.lineups \subseteq psDb'.lineups
         /\ psDb.reports \subseteq psDb'.reports
         /\ psDb.refs \subseteq psDb'.refs]_playerSyncVars
  BY NextStored DEF Stays
<1> QED
  BY <1>1, <1>2, <1>3, PTL DEF PlayerSyncSpec, PerformancesKept
===============================================================================

------------------------------ MODULE MCModelling -----------------------------
(***************************************************************************)
(* The programs of the modelling package share no state while they run, so *)
(* one instance checks them side by side: which of them runs is chosen in  *)
(* the initial state and the others stay as they were.                     *)
(***************************************************************************)
EXTENDS MatchWalk, PlayerWalk, ModelSelection, ModelFiles

CONSTANT Programs

VARIABLE program

vars == <<matchWalkVars, playerWalkVars, selectionVars, modelFilesVars, program>>

\* four matches: seasons, kickoff days, days until the result is public, clubs
MCFiles ==
    LET seasons == {<<1,1,2,3>>, <<1,2,2,3>>, <<1,2,3,3>>, <<1,1,1,2>>, <<1,2,1,3>>}
        kickoffs == {<<2,2,4,6>>, <<2,3,4,8>>, <<2,4,3,6>>}
        delays == [1..4 -> {1,3,4}] \cup {<<1,0,1,1>>}
        clubs == {<< <<"a","b">>, <<"b","c">>, <<"a","c">>, <<"b","a">> >>,
                  << <<"a","b">>, <<"b","a">>, <<"b","a">>, <<"a","c">> >>}
    IN  {[i \in 1..4 |-> [id |-> i, season |-> s[i], kickoff |-> k[i],
                          available |-> k[i] + d[i],
                          home |-> c[i][1], away |-> c[i][2]]] :
            s \in seasons, k \in kickoffs, d \in delays, c \in clubs}

MCRows == <<[id |-> 1, kickoff |-> 2, home |-> "a", away |-> "b"],
            [id |-> 2, kickoff |-> 4, home |-> "b", away |-> "a"],
            [id |-> 3, kickoff |-> 6, home |-> "a", away |-> "b"]>>

Performance(i, m, c, p, k, a, s) ==
    [id |-> i, match |-> m, club |-> c, player |-> p, kickoff |-> k,
     available |-> a, started |-> s]

MCPerformances ==
    { {Performance(1,10,"a",1,0,a1,TRUE), Performance(2,10,"a",2,0,a2,s2),
       Performance(3,10,c3,3,0,0,TRUE)} :
         a1 \in {0,2}, a2 \in {0,3}, s2 \in BOOLEAN, c3 \in {"a","b"} }
    \cup { {Performance(1,10,"a",1,3,2,TRUE)} }
    \cup { {Performance(1,10,"a",1,0,0,TRUE), Performance(2,1,"b",1,2,a,TRUE),
            Performance(3,1,"b",2,2,3,TRUE)} : a \in 2..4 }
    \cup { {Performance(1,10,"a",2,0,0,TRUE), Performance(2,11,"a",2,1,a,s),
            Performance(3,10,"a",3,0,0,TRUE)} : a \in {1, 4}, s \in BOOLEAN }

Transfer(i, from, to, date, observed) ==
    [id |-> i, player |-> 1, from |-> from, to |-> to, date |-> date,
     observed |-> observed]

MCTransfers ==
    {{}} \cup { {Transfer(1, "a", t, d, o)} : t \in {"b", NoClub}, d \in 1..4, o \in {0,2,4} }
         \cup { {Transfer(1, "a", "b", 1, 0), Transfer(2, "b", "a", d, o)} :
                  d \in {1,3}, o \in {2,4} }

Report(m, p, o, s) ==
    [match |-> m, club |-> "a", player |-> p, observed |-> o, status |-> s]

MCReports ==
    {{}, {Report(3, 3, 0, "out"), Report(3, 3, 4, "doubtful")},
         {Report(3, 2, 1, "doubtful"), Report(3, 3, 2, "suspended")}}
    \cup { {Report(m, p, o, s)} : m \in 2..3, p \in {1, 3}, o \in 2..3,
                                 s \in {"out", "suspended", "doubtful"} }

MCStyles ==
    {{}} \cup { {[id |-> 1, club |-> "a", available |-> x],
                 [id |-> 2, club |-> "a", available |-> y],
                 [id |-> 3, club |-> "b", available |-> 1]} : x \in 0..2, y \in {1,3} }

MCContexts ==
    {[rows |-> MCRows, performances |-> p, transfers |-> t, availability |-> v,
      styles |-> {}] : p \in MCPerformances, t \in MCTransfers, v \in MCReports}
    \cup {[rows |-> MCRows, performances |-> p, transfers |-> {},
           availability |-> {}, styles |-> s] : p \in MCPerformances, s \in MCStyles}

MCPosition == <<"keeper", "field", "field">>
MCFormation == [x \in {"keeper", "field"} |-> 1]

MCFixtures == [i \in Imports |-> i]

-----------------------------------------------------------------------------

\* the inputs of a program that does not run
AnyFile == CHOOSE f \in MCFiles : TRUE
AnyContext == CHOOSE c \in MCContexts : TRUE

Init ==
    /\ program \in Programs
    /\ IF program = "matches" THEN mwFile \in Files ELSE mwFile = AnyFile
    /\ MatchWalkStart
    /\ IF program = "players" THEN pwContext \in Contexts ELSE pwContext = AnyContext
    /\ PlayerWalkStart
    /\ program = "selection" \/ (msKind = "tabular" /\ msSeasons = 5)
    /\ ModelSelectionInit
    /\ IF program = "files"
       THEN mfImport \in Imports /\ mfPlayers \in PlayerExports
       ELSE /\ mfImport = CHOOSE i \in Imports : TRUE
            /\ mfPlayers = CHOOSE p \in PlayerExports : TRUE
    /\ ModelFilesStart

Next ==
    \/ /\ program = "matches" /\ MatchWalkNext
       /\ UNCHANGED <<playerWalkVars, selectionVars, modelFilesVars, program>>
    \/ /\ program = "players" /\ PlayerWalkNext
       /\ UNCHANGED <<matchWalkVars, selectionVars, modelFilesVars, program>>
    \/ /\ program = "selection" /\ ModelSelectionNext
       /\ UNCHANGED <<matchWalkVars, playerWalkVars, modelFilesVars, program>>
    \/ /\ program = "files" /\ ModelFilesNext
       /\ UNCHANGED <<matchWalkVars, playerWalkVars, selectionVars, program>>

Spec == Init /\ [][Next]_vars

=============================================================================

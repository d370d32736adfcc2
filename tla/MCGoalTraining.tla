---------------------------- MODULE MCGoalTraining ----------------------------
(* Model-checking instances of GoalTraining: two matchweeks of one match each, *)
(* or a first matchweek of two matches.                                        *)
EXTENDS GoalTraining

CONSTANTS m1, m2, m3

OneMatchAWeek == [m \in Match |-> IF m = m1 THEN 1 ELSE 2]
TwoMatchesFirst == [m \in Match |-> IF m = m3 THEN 2 ELSE 1]
===============================================================================

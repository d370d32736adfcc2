-------------------------- MODULE MCFixtureLifecycle --------------------------
(* Model-checking instances of FixtureLifecycle: the first two clients belong *)
(* to one device.                                                             *)
EXTENDS FixtureLifecycle, TLC

CONSTANTS d1, d2, c1, c2, c3, s1, s2

DeviceOfClient == [c \in Client |-> IF c = c3 THEN d2 ELSE d1]

\* The two clients of the first device are interchangeable.
Clients == Permutations({c1, c2})

\* So are the scores.
Scores == Permutations({s1, s2})
===============================================================================

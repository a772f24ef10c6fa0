---------------------------- MODULE MCGeneration ----------------------------
(***************************************************************************)
(* Small instances of GenerationService for TLC.                           *)
(***************************************************************************)
EXTENDS GenerationService, TLC

CONSTANTS j1, j2, j3, s1, s2, c1, c2, w1, w2, op

AllPaid == [a \in Actors |-> "openai"]
AllFixture == [a \in Actors |-> "fixture"]
Mixed == [a \in Actors |-> IF a = w1 THEN "openai" ELSE "anthropic"]

Price == [p \in Providers |-> IF p = "fixture" THEN 0 ELSE 2]
UnitPrice == [p \in Providers |-> IF p = "fixture" THEN 0 ELSE 1]

TwoJobs == Permutations({j1, j2})
ThreeJobs == Permutations({j1, j2, j3})
TwoWorkers == Permutations({j1, j2}) \cup Permutations({w1, w2})
=============================================================================

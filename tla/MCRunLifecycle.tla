-------------------------- MODULE MCRunLifecycle --------------------------
(* Instance of RunLifecycle for TLC: runs of a session in turn, two inputs *)
(* and a reader.                                                           *)
EXTENDS RunLifecycle

CONSTANTS none, r1, r2, i1, i2, w1

OneRun    == {r1}
TwoRuns   == {r1, r2}
TwoInputs == {i1, i2}
OneReader == {w1}
============================================================================

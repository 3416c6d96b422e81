---------------------------- MODULE MCRuntimeGate ----------------------------
(* Model values and symmetry of the RuntimeGate runs. *)
EXTENDS RuntimeGate, TLC

CONSTANTS a1, a2, r1, smoke, q1

MCAsks == {a1, a2}
MCReadyProbes == {r1}
MCQueries == {smoke, q1}
=============================================================================

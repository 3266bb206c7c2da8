----------------------------- MODULE MCWebDeploy -----------------------------
(* Instances of WebDeploy for TLC.                                         *)
EXTENDS WebDeploy, TLC

CONSTANTS t1, t2, x, y

\* Versions differ in length; three chunks need a full and a short batch.
MCChunks == [v \in Versions |-> IF v = "v2" THEN 3 ELSE 1]

\* Both tabs do the same things.
TabSymmetry == Permutations({t1, t2})
=============================================================================

----------------------------- MODULE MCJobPipeline -----------------------------
(***************************************************************************)
(* Small instances of JobPipeline for TLC.                                 *)
(***************************************************************************)
EXTENDS JobPipelineProperties, TLC

CONSTANTS j1, j2, w1, w2

OneJob == {j1}
TwoJobs == {j1, j2}
OneWorker == {w1}
TwoWorkers == {w1, w2}

OneAttempt == [j \in Jobs |-> 1]
TwoAttempts == [j \in Jobs |-> 2]
MixedAttempts == [j \in Jobs |-> IF j = j1 THEN 1 ELSE 2]

Nothing == {}
OnlyJ1 == {j1}

Symmetry == Permutations(Workers)
=============================================================================

--------------------------- MODULE MCPlatformServices ---------------------------
(* Three jobs of one scope, which has no, one or two budgets: the first two *)
(* jobs do not fit together, the first and the third exactly do.  Three     *)
(* providers, measured in up to three cycles two of which may go wrong, and *)
(* a calibration result posted meanwhile.                                   *)
EXTENDS PlatformServices

CONSTANTS j1, j2, j3, b1, b2, team, aer, ionq, rigetti, c1

ThreeJobs == {j1, j2, j3}
TwoBudgets == {b1, b2}
OneScope == {team}
TeamJobs == [j \in Jobs |-> team]
TeamBudgets == [b \in Budgets |-> team]
JobCosts == [j \in Jobs |-> IF j = j1 THEN 3 ELSE IF j = j2 THEN 4 ELSE 2]
Limits == [b \in Budgets |-> 5]

ThreeProviders == <<aer, ionq, rigetti>>
OnePost == {c1}
PostIonq == [c \in Posts |-> ionq]
=============================================================================

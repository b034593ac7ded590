----------------------------- MODULE JobLifecycle -----------------------------
(***************************************************************************)
(* What the pipeline promises a client about one job, with no workers, no  *)
(* queue and no sessions: a submitted job is queued, each run either ends  *)
(* it or, while attempts are left, queues it again, and it ends.           *)
(***************************************************************************)
EXTENDS Naturals

CONSTANTS Jobs, MaxAttempts

VARIABLES
  phase,   \* what GET /jobs/{id} reports, "absent" before submission
  runs     \* executions begun

Init ==
  /\ phase = [j \in Jobs |-> "absent"]
  /\ runs = [j \in Jobs |-> 0]

Become(j, p) == phase' = [phase EXCEPT ![j] = p]

Submit(j) == phase[j] = "absent" /\ Become(j, "queued") /\ UNCHANGED runs

Run(j) ==
  /\ phase[j] = "queued"
  /\ Become(j, "running")
  /\ runs' = [runs EXCEPT ![j] = @ + 1]

Succeed(j) == phase[j] = "running" /\ Become(j, "succeeded") /\ UNCHANGED runs

Retry(j) ==
  /\ phase[j] = "running" /\ runs[j] < MaxAttempts[j]
  /\ Become(j, "queued")
  /\ UNCHANGED runs

GiveUp(j) ==
  /\ phase[j] = "running" /\ runs[j] = MaxAttempts[j]
  /\ Become(j, "failed")
  /\ UNCHANGED runs

Progress(j) == Run(j) \/ Succeed(j) \/ Retry(j) \/ GiveUp(j)

Next == \E j \in Jobs : Submit(j) \/ Progress(j)

Spec ==
  /\ Init
  /\ [][Next]_<<phase, runs>>
  /\ \A j \in Jobs : WF_<<phase, runs>>(Progress(j))
=============================================================================

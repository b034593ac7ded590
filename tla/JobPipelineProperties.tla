------------------------- MODULE JobPipelineProperties -------------------------
(***************************************************************************)
(* What the job pipeline must and must not do.                             *)
(***************************************************************************)
EXTENDS JobPipeline

Settled == {"succeeded", "failed"}

\* A worker in the middle of executing job j.
Executing(w, j) == held[w] = j /\ pc[w] \in {"run", "insert"}

\* Worker w will push a message for j, or has taken one and will still see
\* j as queued.
CarriedBy(w, j) ==
  /\ held[w] = j
  /\ \/ pc[w] \in {"requeue", "recover_push", "reap_push", "boot_reap_push",
                    "popped", "load"}
     \/ pc[w] = "claim" /\ sess[w].status = "queued"

Carried(j) == Queued(j) \/ j \in submitting \/ \E w \in Workers : CarriedBy(w, j)

\* Worker w executes j and will write its outcome.
FinishedBy(w, j) == Executing(w, j) /\ (pc[w] = "insert" => j \notin results)

\* Worker w is on its way to put j in the dead-letter list.
BuriedBy(w, j) == held[w] = j /\ pc[w] \in {"dlq_rem", "dlq_push"}

-----------------------------------------------------------------------------
(* Safety, whatever fails.                                                   *)

\* ARCHITECTURE.md promises that the transaction is committed before the
\* message is pushed: every message in the queue, in the processing set, in
\* the dead-letter list or in a worker's hands names a committed row, so the
\* acknowledge-and-forget branch of process_job never drops a real job.
EnqueuedJobsExist ==
  \A j \in Jobs : status[j] = "absent" =>
    /\ ~ Queued(j) /\ ~ DeadLettered(j)
    /\ j \notin processing \cup submitting
    /\ \A w \in Workers : held[w] # j /\ j \notin todo[w]

\* A job reported as succeeded has its result and its audit event, also when
\* several workers run it at once and one of them re-queues or re-claims it.
SucceededHasResult ==
  \A j \in Jobs : status[j] = "succeeded" => j \in results /\ "job.succeeded" \in audit[j]

\* FAILED is only ever visible as the end of a job: the FAILED that retry and
\* recovery pass through is not committed (SDK clients stop polling at it).
FailedIsPermanent ==
  \A j \in Jobs : status[j] = "failed" => "job.failed" \in audit[j]

\* A job is in the dead-letter list only if its permanent failure was
\* committed first.
DeadLetterIsCommitted ==
  \A j \in Jobs : DeadLettered(j) => "job.failed" \in audit[j]

\* No outcome shows anywhere before everything that belongs to it is
\* committed: of a success the result and the audit event, of a failure and
\* of a dead letter the end of the retries, whatever crashes in between and
\* however many workers run the job.
OutcomesAreCommitted == SucceededHasResult /\ FailedIsPermanent /\ DeadLetterIsCommitted

-----------------------------------------------------------------------------
(* Safety while nothing crashes, however old rows and deliveries grow.       *)

\* The status of an unfinished job is never left with nobody to act on it:
\* duplicates, reaping and stale sessions may run a job twice, but a queued
\* row has a message that will claim it and a running row has a worker.
NoJobStranded ==
  faults = 0 =>
    \A j \in Jobs \ Disabled :
      /\ status[j] = "queued" => Carried(j)
      /\ status[j] = "running" => \E w \in Workers : FinishedBy(w, j)

\* A permanently failed job is in the dead-letter list, or its worker is on
\* the way to put it there.
FailureReachesDlq ==
  faults = 0 =>
    \A j \in Jobs : status[j] = "failed" =>
      DeadLettered(j) \/ \E w \in Workers : BuriedBy(w, j)

-----------------------------------------------------------------------------
(* Safety while nothing outlives its timeout, whatever crashes.              *)

\* Two workers never execute one job at the same time.  Crashes, refused
\* calls, stops and restarts lose deliveries and never double one: it takes a
\* row older than the stuck-job timeout or a delivery older than its
\* visibility timeout to bring a job to a second worker.
ExclusiveExecution ==
  lapses = 0 =>
    \A v, w \in Workers, j \in Jobs : Executing(v, j) /\ Executing(w, j) => v = w

-----------------------------------------------------------------------------
(* What the documents promise without these conditions.                      *)

\* A finished job keeps its outcome.
SettledIsFinal ==
  [][\A j \in Jobs : status[j] \in Settled => status'[j] = status[j]]_vars

\* A message in the hands of a worker is in the processing set, from where
\* the reaper can bring it back.
InFlightTracked ==
  \A w \in Workers :
    pc[w] \in {"load", "claim", "run", "insert"} => held[w] \in processing

-----------------------------------------------------------------------------
(* Liveness under FairSpec.                                                  *)

\* Every submitted job ends, and stays ended.
EverySubmittedJobSettles ==
  \A j \in Jobs : status[j] # "absent" ~> [](status[j] \in Settled)

\* Every delivery is acknowledged in the end: the processing set does not leak.
ProcessingDrains == \A j \in Jobs : j \in processing ~> [](j \notin processing)

\* A permanent failure ends in the dead-letter list.
FailedJobIsDeadLettered == \A j \in Jobs : status[j] = "failed" ~> DeadLettered(j)

\* Without any fault this is so even when rows and deliveries outlive their
\* timeouts and jobs are reaped, recovered and run by several workers: a job
\* comes to rest, and one that failed is dead-lettered.
CalmJobSettles == [](faults = 0) => EverySubmittedJobSettles /\ FailedJobIsDeadLettered

\* Every worker is gone, no further fault will come, and the row of the
\* unfinished job j is older than the stuck-job cutoff.
Abandoned(j) ==
  /\ j \in aged \ submitting
  /\ faults = MaxFaults
  /\ \A w \in Workers : pc[w] = "down"

\* A restart brings back every abandoned job through recover_stuck_jobs,
\* whatever the fault destroyed: a delivery between BLPOP and ZADD, a run, a
\* pending push, a recovery half done.
FullRestartRecovers == \A j \in Jobs : Abandoned(j) ~> (status[j] \in Settled)

\* A job that started running comes to an end.
RunningJobSettles == \A j \in Jobs : status[j] = "running" ~> (status[j] \in Settled)

\* The pipeline implements the life cycle a client is promised.
Lifecycle == INSTANCE JobLifecycle WITH phase <- status, runs <- attempts
ImplementsLifecycle == Lifecycle!Spec

\* Its safety half, whatever crashes as long as nothing outlives its timeout:
\* every change a client can see of a row and its attempts is a step of the
\* life cycle of one job.
FollowsLifecycle == [][lapses = 0 => Lifecycle!Next]_<<status, attempts>>
=============================================================================

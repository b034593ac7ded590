------------------------------- MODULE JobStore -------------------------------
(***************************************************************************)
(* The tables the job pipeline writes: jobs (status, attempts and whether  *)
(* updated_at is old), results and audit_events, with the writes of the    *)
(* repositories.  The operators describe what one committed transaction    *)
(* does to the row; the state the writer believes the row to be in is a    *)
(* parameter, because a session keeps the object it loaded first: SELECT   *)
(* ... FOR UPDATE locks the row but does not refresh a loaded object.      *)
(***************************************************************************)
EXTENDS Naturals, JobStateMachine

CONSTANTS
  Jobs,
  MaxAttempts   \* RetryPolicy.max_attempts of each job

ASSUME MaxAttemptsAssumption == MaxAttempts \in [Jobs -> 1 .. 10]

VARIABLES
  status,     \* jobs.status, "absent" when the row is not committed
  attempts,   \* jobs.attempts
  aged,       \* rows whose updated_at is older than stuck_job_timeout_seconds
  results,    \* jobs with a row in results
  audit       \* event types logged for each job in audit_events

storeVars == <<status, attempts, aged, results, audit>>

Events == {"job.queued", "job.retry_scheduled", "job.succeeded", "job.failed"}

StoreTypeOK ==
  /\ status \in [Jobs -> JobState \cup {"absent"}]
  /\ attempts \in [Jobs -> Nat]
  /\ aged \subseteq Jobs
  /\ results \subseteq Jobs
  /\ audit \in [Jobs -> SUBSET Events]

StoreInit ==
  /\ status = [j \in Jobs |-> "absent"]
  /\ attempts = [j \in Jobs |-> 0]
  /\ aged = {}
  /\ results = {}
  /\ audit = [j \in Jobs |-> {}]

\* jobs.transition: check against the state the session holds, write the row
\* and refresh updated_at.
transition(j, current, next) ==
  /\ ensure_transition(current, next)
  /\ status' = [status EXCEPT ![j] = next]
  /\ aged' = aged \ {j}

\* Mutant: FAILED is committed on its own.
requeue_row_halfway(j, current) == transition(j, current, "failed")

\* FAILED then QUEUED inside one transaction (retry and recovery): only the
\* second write is ever visible.
requeue_row(j, current) ==
  /\ ensure_transition(current, "failed")
  /\ transition(j, "failed", "queued")

\* jobs.increment_attempt writes one more than the session's object holds.
increment_attempt(j, seen) == attempts' = [attempts EXCEPT ![j] = seen + 1]

\* AuditRepository.log
log(j, event) == audit' = [audit EXCEPT ![j] = @ \cup {event}]

\* updated_at of an unfinished row falls behind the stuck-job cutoff.
RowAges(j) ==
  /\ status[j] \in {"queued", "running"}
  /\ j \notin aged
  /\ aged' = aged \cup {j}
  /\ UNCHANGED <<status, attempts, results, audit>>

=============================================================================

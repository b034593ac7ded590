------------------------------ MODULE JobPipeline ------------------------------
(***************************************************************************)
(* The API's submit path and the quantum-runner workers over one database  *)
(* and one Redis.  A step is one committed database transaction or one     *)
(* Redis command, the points between which another process, a crash or an  *)
(* exception can come.  A transaction is one step because its first        *)
(* statement on the job is SELECT ... FOR UPDATE and the lock is held to   *)
(* the commit; the reads that precede the lock are steps of their own.     *)
(***************************************************************************)
EXTENDS JobStore, RedisQueue

CONSTANTS
  Workers,
  NoJob,
  Disabled,     \* jobs whose provider is switched off (get_provider raises)
  MaxFaults,    \* bound on crashes and errors of the database or of Redis
  MaxLapses,    \* bound on rows and deliveries growing old
  MaxEnds       \* bound on faults and graceful stops (SIGTERM) together

ASSUME NoJobAssumption == NoJob \notin Jobs
ASSUME BoundsAssumption == MaxFaults \in Nat /\ MaxLapses \in Nat /\ MaxEnds \in Nat

VARIABLES
  submitting,   \* jobs committed by submit and not yet enqueued by it
  pc,           \* where each worker is
  held,         \* the job id each worker is working with
  sess,         \* status and attempts of the JobModel in the worker's session
  todo,         \* what is left of the list the worker is looping over
  cutoff,       \* rows older than the cutoff recover_stuck_jobs computed
  faults, lapses, stops

workerVars == <<pc, held, sess, todo, cutoff>>
bounds == <<faults, lapses, stops>>
vars == <<storeVars, queueVars, submitting, workerVars, bounds>>

Blank == [status |-> "absent", attempts |-> 0]

Steps == {"down", "recover", "recover_push", "boot_reap", "boot_reap_push",
          "orphans", "poll", "idle", "reap", "reap_push", "popped", "load", "claim",
          "run", "insert", "requeue", "ack", "dlq_rem", "dlq_push"}

\* Types.  Attempts stay a natural number although two starting workers may
\* recover one row and a stale session may count it.
TypeOK ==
  /\ StoreTypeOK
  /\ QueueTypeOK(Jobs)
  /\ submitting \subseteq Jobs
  /\ pc \in [Workers -> Steps]
  /\ held \in [Workers -> Jobs \cup {NoJob}]
  /\ sess \in [Workers -> [status : JobState \cup {"absent"}, attempts : Nat]]
  /\ todo \in [Workers -> SUBSET Jobs]
  /\ cutoff \in [Workers -> SUBSET Jobs]
  /\ faults \in 0 .. MaxFaults /\ lapses \in 0 .. MaxLapses /\ stops \in 0 .. MaxEnds

Init ==
  /\ StoreInit
  /\ QueueInit
  /\ submitting = {}
  /\ pc = [w \in Workers |-> "down"]
  /\ held = [w \in Workers |-> NoJob]
  /\ sess = [w \in Workers |-> Blank]
  /\ todo = [w \in Workers |-> {}]
  /\ cutoff = [w \in Workers |-> {}]
  /\ faults = 0 /\ lapses = 0 /\ stops = 0

-----------------------------------------------------------------------------
(* Helpers: moving a worker, and what a write does to the cutoffs others     *)
(* computed (a row written since is no longer older than them).              *)

Goto(w, step) == pc' = [pc EXCEPT ![w] = step]
Hold(w, j) == held' = [held EXCEPT ![w] = j]
RowWritten(j) == cutoff' = [w \in Workers |-> cutoff[w] \ {j}]

\* The worker goes back to polling with a fresh session.
Release(w) ==
  /\ Goto(w, "poll")
  /\ Hold(w, NoJob)
  /\ sess' = [sess EXCEPT ![w] = Blank]

-----------------------------------------------------------------------------
(* API: JobService.submit.                                                   *)

\* create, QUEUED, audit, commit
SubmitCommit(j) ==
  /\ status[j] = "absent"
  /\ transition(j, "submitted", "queued")
  /\ log(j, "job.queued")
  /\ submitting' = submitting \cup {j}
  /\ RowWritten(j)
  /\ UNCHANGED <<attempts, results, queueVars, pc, held, sess, todo, bounds>>

\* Mutant: the push may precede the commit.
SubmitEnqueueEarly(j) ==
  /\ status[j] = "absent" \/ j \in submitting
  /\ submitting' = submitting \ {j}
  /\ enqueue_job(j)
  /\ UNCHANGED <<storeVars, workerVars, bounds>>

\* enqueue_job after the commit
SubmitEnqueue(j) ==
  /\ j \in submitting
  /\ submitting' = submitting \ {j}
  /\ enqueue_job(j)
  /\ UNCHANGED <<storeVars, workerVars, bounds>>

\* Something dies or is refused.
Fault == faults < MaxFaults /\ faults + stops < MaxEnds /\ faults' = faults + 1

\* The API process dies, or Redis refuses the push, after the commit.
SubmitDies(j) ==
  /\ j \in submitting
  /\ Fault
  /\ submitting' = submitting \ {j}
  /\ UNCHANGED <<storeVars, queueVars, workerVars, lapses, stops>>

-----------------------------------------------------------------------------
(* Worker start-up: recover_stuck_jobs.                                      *)

Start(w) ==
  /\ pc[w] = "down"
  /\ Goto(w, "recover")
  /\ todo' = [todo EXCEPT ![w] = {j \in aged : status[j] = "running"}]
  /\ cutoff' = [cutoff EXCEPT ![w] = aged]
  /\ UNCHANGED <<storeVars, queueVars, submitting, held, sess, bounds>>

\* Mutant: a run that recovery cuts short is given back.
RecoverCommitUncounted(w) ==
  \E j \in todo[w] :
    /\ pc[w] = "recover"
    /\ requeue_row(j, "running")
    /\ attempts' = [attempts EXCEPT ![j] = @ - 1]
    /\ todo' = [todo EXCEPT ![w] = @ \ {j}]
    /\ Hold(w, j)
    /\ Goto(w, "recover_push")
    /\ RowWritten(j)
    /\ UNCHANGED <<results, audit, queueVars, submitting, sess, bounds>>

\* The session still holds every selected row as "running".
RecoverCommit(w) ==
  \E j \in todo[w] :
    /\ pc[w] = "recover"
    /\ requeue_row(j, "running")
    /\ todo' = [todo EXCEPT ![w] = @ \ {j}]
    /\ Hold(w, j)
    /\ Goto(w, "recover_push")
    /\ RowWritten(j)
    /\ UNCHANGED <<attempts, results, audit, queueVars, submitting, sess, bounds>>

RecoverPush(w) ==
  /\ pc[w] = "recover_push"
  /\ enqueue_job(held[w])
  /\ Hold(w, NoJob)
  /\ Goto(w, "recover")
  /\ UNCHANGED <<storeVars, submitting, sess, todo, cutoff, bounds>>

BootReapScan(w) ==
  /\ pc[w] = "recover" /\ todo[w] = {}
  /\ todo' = [todo EXCEPT ![w] = expired]
  /\ Goto(w, "boot_reap")
  /\ UNCHANGED <<storeVars, queueVars, submitting, held, sess, cutoff, bounds>>

\* Mutant: recovery does not look for queued rows.
OrphanScanNothing(w) ==
  /\ pc[w] = "boot_reap" /\ todo[w] = {}
  /\ cutoff' = [cutoff EXCEPT ![w] = {}]
  /\ Goto(w, "orphans")
  /\ UNCHANGED <<storeVars, queueVars, submitting, held, sess, todo, bounds>>

OrphanScan(w) ==
  /\ pc[w] = "boot_reap" /\ todo[w] = {}
  /\ todo' = [todo EXCEPT ![w] = {j \in cutoff[w] : status[j] = "queued"}]
  /\ cutoff' = [cutoff EXCEPT ![w] = {}]
  /\ Goto(w, "orphans")
  /\ UNCHANGED <<storeVars, queueVars, submitting, held, sess, bounds>>

OrphanPush(w) ==
  \E j \in todo[w] :
    /\ pc[w] = "orphans"
    /\ enqueue_job(j)
    /\ todo' = [todo EXCEPT ![w] = @ \ {j}]
    /\ UNCHANGED <<storeVars, submitting, pc, held, sess, cutoff, bounds>>

Ready(w) ==
  /\ pc[w] = "orphans" /\ todo[w] = {}
  /\ Goto(w, "poll")
  /\ UNCHANGED <<storeVars, queueVars, submitting, held, sess, todo, cutoff, bounds>>

-----------------------------------------------------------------------------
(* requeue_timed_out: scan, then ZREM and RPUSH for each member found.  It   *)
(* runs at start-up ("boot_reap") and, when BLPOP came back empty, from the  *)
(* polling loop ("reap").                                                    *)

Pushing == [boot_reap |-> "boot_reap_push", reap |-> "reap_push"]

\* BLPOP timed out and a minute has passed.  With nothing tracked the scan
\* would find nothing, and the step is left out.
BlpopTimeout(w) ==
  /\ pc[w] = "poll" /\ queue = <<>> /\ processing # {}
  /\ Goto(w, "idle")
  /\ UNCHANGED <<storeVars, queueVars, submitting, held, sess, todo, cutoff, bounds>>

ReapScan(w) ==
  /\ pc[w] = "idle"
  /\ todo' = [todo EXCEPT ![w] = expired]
  /\ Goto(w, "reap")
  /\ UNCHANGED <<storeVars, queueVars, submitting, held, sess, cutoff, bounds>>

ReapRemove(w) ==
  \E m \in todo[w], s \in DOMAIN Pushing :
    /\ pc[w] = s
    /\ ack(m)
    /\ todo' = [todo EXCEPT ![w] = @ \ {m}]
    /\ Hold(w, m)
    /\ Goto(w, Pushing[s])
    /\ UNCHANGED <<storeVars, submitting, sess, cutoff, bounds>>

ReapPush(w) ==
  \E s \in DOMAIN Pushing :
    /\ pc[w] = Pushing[s]
    /\ enqueue_job(held[w])
    /\ Hold(w, NoJob)
    /\ Goto(w, s)
    /\ UNCHANGED <<storeVars, submitting, sess, todo, cutoff, bounds>>

ReapDone(w) ==
  /\ pc[w] = "reap" /\ todo[w] = {}
  /\ Goto(w, "poll")
  /\ UNCHANGED <<storeVars, queueVars, submitting, held, sess, todo, cutoff, bounds>>

-----------------------------------------------------------------------------
(* The polling loop and WorkerService.process_job.                           *)

Dequeue(w) ==
  /\ pc[w] = "poll"
  /\ \E m \in Jobs : dequeue_pop(m) /\ Hold(w, m)
  /\ Goto(w, "popped")
  /\ UNCHANGED <<storeVars, submitting, sess, todo, cutoff, bounds>>

Track(w) ==
  /\ pc[w] = "popped"
  /\ dequeue_track(held[w])
  /\ Goto(w, "load")
  /\ UNCHANGED <<storeVars, submitting, held, sess, todo, cutoff, bounds>>

\* The first SELECT, which takes no lock: what it reads is what the session
\* will believe from here on.  A job that does not exist is acknowledged.
Load(w) ==
  /\ pc[w] = "load"
  /\ IF status[held[w]] = "absent"
     THEN Goto(w, "ack") /\ UNCHANGED sess
     ELSE /\ Goto(w, "claim")
          /\ sess' = [sess EXCEPT ![w] = [status   |-> status[held[w]],
                                          attempts |-> attempts[held[w]]]]
  /\ UNCHANGED <<storeVars, queueVars, submitting, held, todo, cutoff, bounds>>

\* Mutant: the attempt is not counted.
ClaimUncounted(w) ==
  LET j == held[w]
  IN /\ pc[w] = "claim"
     /\ transition(j, sess[w].status, "running")
     /\ sess' = [sess EXCEPT ![w].status = "running"]
     /\ Goto(w, "run")
     /\ RowWritten(j)
     /\ UNCHANGED <<attempts, results, audit, queueVars, submitting, held, todo, bounds>>

\* RUNNING and attempts + 1, committed together.
Claim(w) ==
  LET j == held[w]
  IN /\ pc[w] = "claim"
     /\ transition(j, sess[w].status, "running")
     /\ increment_attempt(j, sess[w].attempts)
     /\ sess' = [sess EXCEPT ![w] = [status |-> "running", attempts |-> @.attempts + 1]]
     /\ Goto(w, "run")
     /\ RowWritten(j)
     /\ UNCHANGED <<results, audit, queueVars, submitting, held, todo, bounds>>

\* InvalidStateTransition: the delivery is acknowledged and dropped.
Discard(w) ==
  /\ pc[w] = "claim"
  /\ ~ ensure_transition(sess[w].status, "running")
  /\ Goto(w, "ack")
  /\ UNCHANGED <<storeVars, queueVars, submitting, held, sess, todo, cutoff, bounds>>

\* get_provider raises outside the try block; run() logs and polls on.
ProviderDisabled(w) ==
  /\ pc[w] = "run" /\ held[w] \in Disabled
  /\ Release(w)
  /\ UNCHANGED <<storeVars, queueVars, submitting, todo, cutoff, bounds>>

\* The circuit ran; merge() looks for a result row and finds none, so it
\* will INSERT.
RunReturns(w) ==
  /\ pc[w] = "run" /\ held[w] \notin Disabled
  /\ held[w] \notin results
  /\ Goto(w, "insert")
  /\ UNCHANGED <<storeVars, queueVars, submitting, held, sess, todo, cutoff, bounds>>

\* Mutant: SUCCEEDED is committed without the result.
SucceedUnsaved(w) ==
  LET j == held[w]
  IN /\ pc[w] \in {"insert", "run"} /\ j \notin Disabled
     /\ transition(j, sess[w].status, "succeeded")
     /\ log(j, "job.succeeded")
     /\ Goto(w, "ack")
     /\ RowWritten(j)
     /\ UNCHANGED <<attempts, results, queueVars, submitting, held, sess, todo, bounds>>

\* Result saved (an INSERT, or an UPDATE of the row merge() found),
\* SUCCEEDED, audit, commit.
Succeed(w) ==
  LET j == held[w]
  IN /\ \/ pc[w] = "insert" /\ j \notin results
        \/ pc[w] = "run" /\ j \notin Disabled /\ j \in results
     /\ results' = results \cup {j}
     /\ transition(j, sess[w].status, "succeeded")
     /\ log(j, "job.succeeded")
     /\ Goto(w, "ack")
     /\ RowWritten(j)
     /\ UNCHANGED <<attempts, queueVars, submitting, held, sess, todo, bounds>>

\* The INSERT hits the primary key of a result committed meanwhile; the
\* session is unusable, so _handle_failure raises too and run() polls on.
InsertConflict(w) ==
  /\ pc[w] = "insert" /\ held[w] \in results
  /\ Release(w)
  /\ UNCHANGED <<storeVars, queueVars, submitting, todo, cutoff, bounds>>

\* Mutants: the retry is committed and never pushed; it is sent to the
\* dead-letter list.
FailRetryUnpushed(w) ==
  LET j == held[w]
  IN /\ pc[w] = "run" /\ j \notin Disabled
     /\ sess[w].attempts < MaxAttempts[j]
     /\ requeue_row(j, sess[w].status)
     /\ log(j, "job.retry_scheduled")
     /\ Goto(w, "ack")
     /\ RowWritten(j)
     /\ UNCHANGED <<attempts, results, queueVars, submitting, held, sess, todo, bounds>>

\* The adapter raised or timed out and an attempt is left.
FailRetry(w) ==
  LET j == held[w]
  IN /\ pc[w] = "run" /\ j \notin Disabled
     /\ sess[w].attempts < MaxAttempts[j]
     /\ requeue_row(j, sess[w].status)
     /\ log(j, "job.retry_scheduled")
     /\ Goto(w, "requeue")
     /\ RowWritten(j)
     /\ UNCHANGED <<attempts, results, queueVars, submitting, held, sess, todo, bounds>>

\* Mutant: a permanent failure is acknowledged like a success.
FailFinalAcked(w) ==
  LET j == held[w]
  IN /\ pc[w] = "run" /\ j \notin Disabled
     /\ sess[w].attempts >= MaxAttempts[j]
     /\ transition(j, sess[w].status, "failed")
     /\ log(j, "job.failed")
     /\ Goto(w, "ack")
     /\ RowWritten(j)
     /\ UNCHANGED <<attempts, results, queueVars, submitting, held, sess, todo, bounds>>

\* The adapter raised or timed out on the last attempt.
FailFinal(w) ==
  LET j == held[w]
  IN /\ pc[w] = "run" /\ j \notin Disabled
     /\ sess[w].attempts >= MaxAttempts[j]
     /\ transition(j, sess[w].status, "failed")
     /\ log(j, "job.failed")
     /\ Goto(w, "dlq_rem")
     /\ RowWritten(j)
     /\ UNCHANGED <<attempts, results, queueVars, submitting, held, sess, todo, bounds>>

\* Mutant: the retry is pushed twice.
RequeuePushTwice(w) ==
  /\ pc[w] = "requeue"
  /\ queue' = queue \o <<held[w], held[w]>>
  /\ Goto(w, "ack")
  /\ UNCHANGED <<processing, expired, dlq, storeVars, submitting, held, sess, todo, cutoff, bounds>>

RequeuePush(w) ==
  /\ pc[w] = "requeue"
  /\ enqueue_job(held[w])
  /\ Goto(w, "ack")
  /\ UNCHANGED <<storeVars, submitting, held, sess, todo, cutoff, bounds>>

AckDelivery(w) ==
  /\ pc[w] = "ack"
  /\ ack(held[w])
  /\ Release(w)
  /\ UNCHANGED <<storeVars, submitting, todo, cutoff, bounds>>

\* Mutant: move_to_dlq leaves the message in the processing set.
DlqRemoveSkips(w) ==
  /\ pc[w] = "dlq_rem"
  /\ Goto(w, "dlq_push")
  /\ UNCHANGED <<queueVars, storeVars, submitting, held, sess, todo, cutoff, bounds>>

DlqRemove(w) ==
  /\ pc[w] = "dlq_rem"
  /\ ack(held[w])
  /\ Goto(w, "dlq_push")
  /\ UNCHANGED <<storeVars, submitting, held, sess, todo, cutoff, bounds>>

DlqPush(w) ==
  /\ pc[w] = "dlq_push"
  /\ dlq_push(held[w])
  /\ Release(w)
  /\ UNCHANGED <<storeVars, submitting, todo, cutoff, bounds>>

-----------------------------------------------------------------------------
(* Faults, stops and the clock.                                              *)

\* Steps whose exceptions run() catches and logs before it polls again.
Guarded == {"load", "claim", "run", "insert", "requeue", "ack", "dlq_rem",
            "dlq_push", "idle", "reap", "reap_push"}

\* The database or Redis refuses the worker's next call.
Escapes(w) ==
  /\ pc[w] \in Guarded
  /\ Fault
  /\ Release(w)
  /\ todo' = [todo EXCEPT ![w] = {}]
  /\ UNCHANGED <<storeVars, queueVars, submitting, cutoff, lapses, stops>>

Forget(w) ==
  /\ Goto(w, "down")
  /\ Hold(w, NoJob)
  /\ sess' = [sess EXCEPT ![w] = Blank]
  /\ todo' = [todo EXCEPT ![w] = {}]
  /\ cutoff' = [cutoff EXCEPT ![w] = {}]

\* The worker process dies; an error where run() catches nothing (dequeue,
\* recover_stuck_jobs) ends it too.
Crash(w) ==
  /\ pc[w] # "down"
  /\ Fault
  /\ Forget(w)
  /\ UNCHANGED <<storeVars, queueVars, submitting, lapses, stops>>

\* _handle_signal: the loop ends before the next dequeue.
Stop(w) ==
  /\ pc[w] = "poll"
  /\ faults + stops < MaxEnds
  /\ stops' = stops + 1
  /\ Forget(w)
  /\ UNCHANGED <<storeVars, queueVars, submitting, faults, lapses>>

Lapse ==
  /\ lapses < MaxLapses
  /\ lapses' = lapses + 1
  /\ UNCHANGED <<submitting, workerVars, faults, stops>>

RowLapses(j) == Lapse /\ RowAges(j) /\ UNCHANGED queueVars
DeliveryLapses(j) == Lapse /\ VisibilityTimeout(j) /\ UNCHANGED storeVars

-----------------------------------------------------------------------------
StartUp(w) ==
  \/ Start(w) \/ RecoverCommit(w) \/ RecoverPush(w) \/ BootReapScan(w)
  \/ OrphanScan(w) \/ OrphanPush(w) \/ Ready(w)

Reap(w) == BlpopTimeout(w) \/ ReapScan(w) \/ ReapRemove(w) \/ ReapPush(w) \/ ReapDone(w)

\* process_job without its `exp is None` and _handle_failure without its
\* `refreshed is None`: a job has its experiment by foreign key, rows are never
\* deleted.
Process(w) ==
  \/ Dequeue(w) \/ Track(w) \/ Load(w) \/ Claim(w) \/ Discard(w)
  \/ ProviderDisabled(w) \/ RunReturns(w) \/ Succeed(w) \/ InsertConflict(w)
  \/ FailRetry(w) \/ FailFinal(w) \/ RequeuePush(w) \/ AckDelivery(w)
  \/ DlqRemove(w) \/ DlqPush(w)

WorkerStep(w) == StartUp(w) \/ Reap(w) \/ Process(w)

Next ==
  \/ \E j \in Jobs : SubmitCommit(j) \/ SubmitEnqueue(j) \/ SubmitDies(j)
  \/ \E w \in Workers : WorkerStep(w) \/ Escapes(w) \/ Crash(w) \/ Stop(w)
  \/ \E j \in Jobs : RowLapses(j) \/ DeliveryLapses(j)

Spec == Init /\ [][Next]_vars

\* Worker processes are scheduled and restarted by their supervisor, a
\* request that committed goes on to its push, and time passes.
Fairness ==
  /\ \A w \in Workers : WF_vars(WorkerStep(w))
  /\ \A j \in Jobs : WF_vars(SubmitEnqueue(j)) /\ WF_vars(RowLapses(j))
                     /\ WF_vars(DeliveryLapses(j))

FairSpec == Spec /\ Fairness
=============================================================================

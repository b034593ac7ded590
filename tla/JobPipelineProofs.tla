--------------------------- MODULE JobPipelineProofs ---------------------------
(***************************************************************************)
(* Theorems about JobPipeline for any sets of jobs and workers, any retry  *)
(* policy and any bounds.                                                  *)
(***************************************************************************)
EXTENDS JobPipelineProperties, SequenceTheorems, TLAPS

-----------------------------------------------------------------------------
(* The Redis commands.                                                       *)

\* RPUSH adds one occurrence at the end and nothing else.
LEMMA EnqueueAdds ==
  ASSUME NEW S, queue \in Seq(S), NEW m \in S, enqueue_job(m)
  PROVE  /\ queue' \in Seq(S)
         /\ \A k : Queued(k)' <=> (Queued(k) \/ k = m)
         /\ UNCHANGED <<processing, expired, dlq>>
BY DEF enqueue_job, Queued

\* BLPOP returns a queued message and disturbs no other.
LEMMA PopTakesHead ==
  ASSUME NEW S, queue \in Seq(S), NEW m, dequeue_pop(m)
  PROVE  /\ queue' \in Seq(S)
         /\ m \in S /\ Queued(m)
         /\ \A k : Queued(k)' => Queued(k)
         /\ \A k : Queued(k) => Queued(k)' \/ k = m
         /\ UNCHANGED <<processing, expired, dlq>>
<1>1. queue # <<>> /\ m = Head(queue) /\ queue' = Tail(queue)
  BY DEF dequeue_pop
<1>2. /\ queue' \in Seq(S) /\ m \in S
      /\ Len(queue) > 0 /\ m = queue[1]
      /\ Len(queue') = Len(queue) - 1
      /\ \A i \in 1 .. Len(queue') : queue'[i] = queue[i + 1]
  BY <1>1
<1>3. DOMAIN queue = 1 .. Len(queue) /\ DOMAIN queue' = 1 .. Len(queue')
  BY <1>2
<1>4. \A k : Queued(k)' => Queued(k)
  BY SMTT(20), <1>2, <1>3 DEF Queued
<1>5. ASSUME NEW k, Queued(k) PROVE Queued(k)' \/ k = m
  <2>1. PICK i \in 1 .. Len(queue) : queue[i] = k
    BY <1>3, <1>5 DEF Queued
  <2>2. CASE i = 1
    BY <1>2, <2>1, <2>2
  <2>3. CASE i # 1
    <3>1. i - 1 \in 1 .. Len(queue') /\ queue'[i - 1] = k
      BY <1>2, <2>1, <2>3
    <3>2. QED
      BY <1>3, <3>1 DEF Queued
  <2>4. QED
    BY <2>2, <2>3
<1>6. QED
  BY <1>2, <1>3, <1>4, <1>5 DEF Queued, dequeue_pop

\* The second push of move_to_dlq.
LEMMA DlqPushAdds ==
  ASSUME NEW S, dlq \in Seq(S), NEW m \in S, dlq_push(m)
  PROVE  /\ dlq' \in Seq(S)
         /\ \A k : DeadLettered(k)' <=> (DeadLettered(k) \/ k = m)
         /\ UNCHANGED <<queue, processing, expired>>
BY DEF dlq_push, DeadLettered

-----------------------------------------------------------------------------
(* Types.  A worker that uses held[w] holds a job, which is what makes the   *)
(* pushes and writes stay within the types.                                  *)

Holding == {"recover_push", "boot_reap_push", "reap_push", "popped", "load",
            "claim", "run", "insert", "requeue", "ack", "dlq_rem", "dlq_push"}

HoldsAJob == \A w \in Workers : pc[w] \in Holding => held[w] \in Jobs

TypeInv == TypeOK /\ HoldsAJob

LEMMA TypeInit == Init => TypeInv
BY NoJobAssumption, BoundsAssumption, EmptySeq
DEF Init, TypeInv, TypeOK, HoldsAJob, Holding, StoreInit, QueueInit, StoreTypeOK,
    QueueTypeOK, JobState, Events, Steps, Blank

LEMMA TypeSubmit ==
  ASSUME TypeInv, NEW j \in Jobs, SubmitCommit(j) \/ SubmitEnqueue(j) \/ SubmitDies(j)
  PROVE  TypeInv'
<1> USE DEF TypeInv, TypeOK, HoldsAJob, StoreTypeOK, QueueTypeOK
<1>1. CASE SubmitCommit(j)
  BY <1>1 DEF SubmitCommit, transition, log, RowWritten, queueVars, bounds, JobState, Events
<1>2. CASE SubmitEnqueue(j)
  BY <1>2, EnqueueAdds DEF SubmitEnqueue, storeVars, workerVars, bounds
<1>3. CASE SubmitDies(j)
  BY <1>3, BoundsAssumption DEF SubmitDies, Fault, storeVars, queueVars, workerVars
<1>4. QED
  BY <1>1, <1>2, <1>3

LEMMA TypeStartUp ==
  ASSUME TypeInv, NEW w \in Workers, StartUp(w)
  PROVE  TypeInv'
<1> USE DEF TypeInv, TypeOK, HoldsAJob, StoreTypeOK, QueueTypeOK, Holding, Steps,
            Goto, Hold, bounds
<1>1. CASE Start(w)
  BY <1>1 DEF Start, storeVars, queueVars
<1>2. CASE RecoverCommit(w)
  BY <1>2 DEF RecoverCommit, requeue_row, transition, RowWritten, queueVars, JobState
<1>3. CASE RecoverPush(w)
  BY <1>3, EnqueueAdds DEF RecoverPush, storeVars
<1>4. CASE BootReapScan(w)
  BY <1>4 DEF BootReapScan, storeVars, queueVars
<1>5. CASE OrphanScan(w)
  BY <1>5 DEF OrphanScan, storeVars, queueVars
<1>6. CASE OrphanPush(w)
  BY <1>6, EnqueueAdds DEF OrphanPush, storeVars
<1>7. CASE Ready(w)
  BY <1>7 DEF Ready, storeVars, queueVars
<1>8. QED
  BY <1>1, <1>2, <1>3, <1>4, <1>5, <1>6, <1>7 DEF StartUp

LEMMA TypeReap ==
  ASSUME TypeInv, NEW w \in Workers, Reap(w)
  PROVE  TypeInv'
<1> USE DEF TypeInv, TypeOK, HoldsAJob, StoreTypeOK, QueueTypeOK, Holding, Steps,
            Goto, Hold, bounds, Pushing
<1>1. CASE BlpopTimeout(w)
  BY <1>1 DEF BlpopTimeout, storeVars, queueVars
<1>2. CASE ReapScan(w)
  BY <1>2 DEF ReapScan, storeVars, queueVars
<1>3. CASE ReapRemove(w)
  BY <1>3 DEF ReapRemove, ack, storeVars
<1>4. CASE ReapPush(w)
  BY <1>4, EnqueueAdds DEF ReapPush, storeVars
<1>5. CASE ReapDone(w)
  BY <1>5 DEF ReapDone, storeVars, queueVars
<1>6. QED
  BY <1>1, <1>2, <1>3, <1>4, <1>5 DEF Reap

LEMMA TypeProcess ==
  ASSUME TypeInv, NEW w \in Workers, Process(w)
  PROVE  TypeInv'
<1> USE DEF TypeInv, TypeOK, HoldsAJob, StoreTypeOK, QueueTypeOK, Holding, Steps,
            Goto, Hold, bounds
<1>1. CASE Dequeue(w)
  BY <1>1, PopTakesHead DEF Dequeue, storeVars
<1>2. CASE Track(w)
  BY <1>2 DEF Track, dequeue_track, storeVars
<1>3. CASE Load(w)
  <2> DEFINE R == [status : JobState \cup {"absent"}, attempts : Nat]
             row == [status |-> status[held[w]], attempts |-> attempts[held[w]]]
  <2>1. row \in R
    BY <1>3 DEF Load
  <2>2. sess' \in [Workers -> R]
    <3>1. sess' = sess \/ sess' = [sess EXCEPT ![w] = row]
      BY <1>3 DEF Load
    <3> HIDE DEF R, row
    <3>2. sess \in [Workers -> R]
      BY DEF R
    <3>3. QED
      BY <2>1, <3>1, <3>2
  <2>3. pc' \in [Workers -> Steps] /\ HoldsAJob'
    BY <1>3 DEF Load
  <2>4. QED
    BY <1>3, <2>2, <2>3 DEF Load, storeVars, queueVars
<1>4. CASE Claim(w)
  BY <1>4 DEF Claim, transition, increment_attempt, RowWritten, queueVars, JobState
<1>5. CASE Discard(w)
  BY <1>5 DEF Discard, storeVars, queueVars
<1>6. CASE ProviderDisabled(w)
  BY <1>6 DEF ProviderDisabled, Release, Blank, storeVars, queueVars
<1>7. CASE RunReturns(w)
  BY <1>7 DEF RunReturns, storeVars, queueVars
<1>8. CASE Succeed(w)
  BY <1>8 DEF Succeed, transition, log, RowWritten, queueVars, JobState, Events
<1>9. CASE InsertConflict(w)
  BY <1>9 DEF InsertConflict, Release, Blank, storeVars, queueVars
<1>10. CASE FailRetry(w)
  BY <1>10 DEF FailRetry, requeue_row, transition, log, RowWritten, queueVars, JobState, Events
<1>11. CASE FailFinal(w)
  BY <1>11 DEF FailFinal, transition, log, RowWritten, queueVars, JobState, Events
<1>12. CASE RequeuePush(w)
  BY <1>12, EnqueueAdds DEF RequeuePush, storeVars
<1>13. CASE AckDelivery(w)
  BY <1>13 DEF AckDelivery, ack, Release, Blank, storeVars
<1>14. CASE DlqRemove(w)
  BY <1>14 DEF DlqRemove, ack, storeVars
<1>15. CASE DlqPush(w)
  BY <1>15, DlqPushAdds DEF DlqPush, Release, Blank, storeVars
<1>16. QED
  BY <1>1, <1>2, <1>3, <1>4, <1>5, <1>6, <1>7, <1>8, <1>9, <1>10, <1>11, <1>12,
     <1>13, <1>14, <1>15 DEF Process

LEMMA TypeFault ==
  ASSUME TypeInv, NEW w \in Workers, Escapes(w) \/ Crash(w) \/ Stop(w)
  PROVE  TypeInv'
<1> USE BoundsAssumption
    DEF TypeInv, TypeOK, HoldsAJob, StoreTypeOK, QueueTypeOK, Holding, Steps,
        Goto, Hold, Blank, storeVars, queueVars
<1>1. CASE Escapes(w)
  BY <1>1 DEF Escapes, Fault, Release
<1>2. CASE Crash(w)
  BY <1>2 DEF Crash, Fault, Forget
<1>3. CASE Stop(w)
  BY <1>3 DEF Stop, Forget
<1>4. QED
  BY <1>1, <1>2, <1>3

LEMMA TypeLapse ==
  ASSUME TypeInv, NEW j \in Jobs, RowLapses(j) \/ DeliveryLapses(j)
  PROVE  TypeInv'
<1> USE BoundsAssumption
    DEF TypeInv, TypeOK, HoldsAJob, StoreTypeOK, QueueTypeOK, Lapse, workerVars
<1>1. CASE RowLapses(j)
  BY <1>1 DEF RowLapses, RowAges, queueVars
<1>2. CASE DeliveryLapses(j)
  BY <1>2 DEF DeliveryLapses, VisibilityTimeout, storeVars
<1>3. QED
  BY <1>1, <1>2

LEMMA TypeStutter == ASSUME TypeInv, UNCHANGED vars PROVE TypeInv'
BY DEF TypeInv, TypeOK, HoldsAJob, StoreTypeOK, QueueTypeOK, vars, storeVars,
       queueVars, workerVars, bounds

LEMMA TypeStep == TypeInv /\ [Next]_vars => TypeInv'
BY TypeSubmit, TypeStartUp, TypeReap, TypeProcess, TypeFault, TypeLapse, TypeStutter
DEF Next, WorkerStep

\* Every reachable state is well typed, and a worker that is between two
\* steps on a delivery holds the job of that delivery.
THEOREM TypeCorrect == Spec => [](TypeOK /\ HoldsAJob)
BY TypeStep, TypeInit, PTL DEF Spec, TypeInv

-----------------------------------------------------------------------------
(* What is committed before what.                                            *)

\* A worker on its way to the dead-letter list has committed the failure.
DlqAfterCommit ==
  \A w \in Workers : pc[w] \in {"dlq_rem", "dlq_push"} => "job.failed" \in audit[held[w]]

CommitInv ==
  /\ EnqueuedJobsExist
  /\ SucceededHasResult
  /\ FailedIsPermanent
  /\ DeadLetterIsCommitted
  /\ DlqAfterCommit

LEMMA CommitInit == Init => CommitInv
BY NoJobAssumption
DEF Init, CommitInv, EnqueuedJobsExist, SucceededHasResult, FailedIsPermanent,
    DeadLetterIsCommitted, DlqAfterCommit, StoreInit, QueueInit, Queued, DeadLettered

LEMMA CommitSubmit ==
  ASSUME TypeInv, CommitInv, NEW j \in Jobs,
         SubmitCommit(j) \/ SubmitEnqueue(j) \/ SubmitDies(j)
  PROVE  CommitInv'
<1> USE DEF TypeInv, TypeOK, HoldsAJob, StoreTypeOK, QueueTypeOK, CommitInv,
            EnqueuedJobsExist, SucceededHasResult, FailedIsPermanent,
            DeadLetterIsCommitted, DlqAfterCommit
<1>1. CASE SubmitCommit(j)
  BY <1>1 DEF SubmitCommit, transition, log, RowWritten, queueVars, Queued, DeadLettered
<1>2. CASE SubmitEnqueue(j)
  <2>1. \A k : Queued(k)' <=> (Queued(k) \/ k = j)
    BY <1>2, EnqueueAdds DEF SubmitEnqueue
  <2>2. QED
    BY <1>2, <2>1 DEF SubmitEnqueue, enqueue_job, storeVars, workerVars, bounds, DeadLettered
<1>3. CASE SubmitDies(j)
  BY <1>3 DEF SubmitDies, storeVars, queueVars, workerVars, Queued, DeadLettered
<1>4. QED
  BY <1>1, <1>2, <1>3

LEMMA CommitStartUp ==
  ASSUME TypeInv, CommitInv, NEW w \in Workers, StartUp(w)
  PROVE  CommitInv'
<1> USE DEF TypeInv, TypeOK, HoldsAJob, Holding, StoreTypeOK, QueueTypeOK, Goto, Hold,
            CommitInv, EnqueuedJobsExist, SucceededHasResult, FailedIsPermanent,
            DeadLetterIsCommitted, DlqAfterCommit
<1>1. CASE Start(w)
  BY <1>1 DEF Start, storeVars, queueVars, Queued, DeadLettered
<1>2. CASE RecoverCommit(w)
  BY <1>2 DEF RecoverCommit, requeue_row, transition, queueVars, Queued, DeadLettered
<1>3. CASE RecoverPush(w)
  <2>1. \A k : Queued(k)' <=> (Queued(k) \/ k = held[w])
    BY <1>3, EnqueueAdds DEF RecoverPush
  <2>2. QED
    BY <1>3, <2>1, NoJobAssumption DEF RecoverPush, enqueue_job, storeVars, DeadLettered
<1>4. CASE BootReapScan(w)
  BY <1>4 DEF BootReapScan, storeVars, queueVars, Queued, DeadLettered
<1>5. CASE OrphanScan(w)
  BY <1>5 DEF OrphanScan, storeVars, queueVars, Queued, DeadLettered
<1>6. CASE OrphanPush(w)
  <2>1. PICK m \in todo[w] : /\ enqueue_job(m)
                             /\ todo' = [todo EXCEPT ![w] = @ \ {m}]
    BY <1>6 DEF OrphanPush
  <2>2. \A k : Queued(k)' <=> (Queued(k) \/ k = m)
    BY <2>1, EnqueueAdds
  <2>3. QED
    BY <1>6, <2>1, <2>2 DEF OrphanPush, enqueue_job, storeVars, DeadLettered
<1>7. CASE Ready(w)
  BY <1>7 DEF Ready, storeVars, queueVars, Queued, DeadLettered
<1>8. QED
  BY <1>1, <1>2, <1>3, <1>4, <1>5, <1>6, <1>7 DEF StartUp

LEMMA CommitReap ==
  ASSUME TypeInv, CommitInv, NEW w \in Workers, Reap(w)
  PROVE  CommitInv'
<1> USE DEF TypeInv, TypeOK, HoldsAJob, Holding, StoreTypeOK, QueueTypeOK, Goto, Hold,
            CommitInv, EnqueuedJobsExist, SucceededHasResult, FailedIsPermanent,
            DeadLetterIsCommitted, DlqAfterCommit, Pushing
<1>1. CASE BlpopTimeout(w)
  BY <1>1 DEF BlpopTimeout, storeVars, queueVars, Queued, DeadLettered
<1>2. CASE ReapScan(w)
  BY <1>2 DEF ReapScan, storeVars, queueVars, Queued, DeadLettered
<1>3. CASE ReapRemove(w)
  BY <1>3 DEF ReapRemove, ack, storeVars, Queued, DeadLettered
<1>4. CASE ReapPush(w)
  <2>1. \A k : Queued(k)' <=> (Queued(k) \/ k = held[w])
    BY <1>4, EnqueueAdds DEF ReapPush
  <2>2. QED
    BY <1>4, <2>1, NoJobAssumption DEF ReapPush, enqueue_job, storeVars, DeadLettered
<1>5. CASE ReapDone(w)
  BY <1>5 DEF ReapDone, storeVars, queueVars, Queued, DeadLettered
<1>6. QED
  BY <1>1, <1>2, <1>3, <1>4, <1>5 DEF Reap

LEMMA CommitProcess ==
  ASSUME TypeInv, CommitInv, NEW w \in Workers, Process(w)
  PROVE  CommitInv'
<1> USE DEF TypeInv, TypeOK, HoldsAJob, Holding, StoreTypeOK, QueueTypeOK, Goto, Hold,
            CommitInv, EnqueuedJobsExist, SucceededHasResult, FailedIsPermanent,
            DeadLetterIsCommitted, DlqAfterCommit
<1>1. CASE Dequeue(w)
  <2>1. PICK m \in Jobs : dequeue_pop(m) /\ Hold(w, m)
    BY <1>1 DEF Dequeue
  <2>2. Queued(m) /\ \A k : Queued(k)' => Queued(k)
    BY <2>1, PopTakesHead
  <2>3. QED
    BY <1>1, <2>1, <2>2 DEF Dequeue, dequeue_pop, storeVars, DeadLettered
<1>2. CASE Track(w)
  BY <1>2 DEF Track, dequeue_track, storeVars, Queued, DeadLettered
<1>3. CASE Load(w)
  BY <1>3 DEF Load, storeVars, queueVars, Queued, DeadLettered
<1>4. CASE Claim(w)
  BY <1>4 DEF Claim, transition, queueVars, Queued, DeadLettered
<1>5. CASE Discard(w)
  BY <1>5 DEF Discard, storeVars, queueVars, Queued, DeadLettered
<1>6. CASE ProviderDisabled(w)
  BY <1>6, NoJobAssumption DEF ProviderDisabled, Release, storeVars, queueVars, Queued, DeadLettered
<1>7. CASE RunReturns(w)
  BY <1>7 DEF RunReturns, storeVars, queueVars, Queued, DeadLettered
<1>8. CASE Succeed(w)
  BY <1>8 DEF Succeed, transition, log, queueVars, Queued, DeadLettered
<1>9. CASE InsertConflict(w)
  BY <1>9, NoJobAssumption DEF InsertConflict, Release, storeVars, queueVars, Queued, DeadLettered
<1>10. CASE FailRetry(w)
  BY <1>10 DEF FailRetry, requeue_row, transition, log, queueVars, Queued, DeadLettered
<1>11. CASE FailFinal(w)
  BY <1>11 DEF FailFinal, transition, log, queueVars, Queued, DeadLettered
<1>12. CASE RequeuePush(w)
  <2>1. \A k : Queued(k)' <=> (Queued(k) \/ k = held[w])
    BY <1>12, EnqueueAdds DEF RequeuePush
  <2>2. QED
    BY <1>12, <2>1 DEF RequeuePush, enqueue_job, storeVars, DeadLettered
<1>13. CASE AckDelivery(w)
  BY <1>13, NoJobAssumption DEF AckDelivery, ack, Release, storeVars, Queued, DeadLettered
<1>14. CASE DlqRemove(w)
  BY <1>14 DEF DlqRemove, ack, storeVars, Queued, DeadLettered
<1>15. CASE DlqPush(w)
  <2>1. \A k : DeadLettered(k)' <=> (DeadLettered(k) \/ k = held[w])
    BY <1>15, DlqPushAdds DEF DlqPush
  <2>2. QED
    BY <1>15, <2>1, NoJobAssumption DEF DlqPush, dlq_push, Release, storeVars, Queued
<1>16. QED
  BY <1>1, <1>2, <1>3, <1>4, <1>5, <1>6, <1>7, <1>8, <1>9, <1>10, <1>11, <1>12,
     <1>13, <1>14, <1>15 DEF Process

LEMMA CommitOther ==
  ASSUME TypeInv, CommitInv,
         \/ \E w \in Workers : Escapes(w) \/ Crash(w) \/ Stop(w)
         \/ \E j \in Jobs : RowLapses(j) \/ DeliveryLapses(j)
         \/ UNCHANGED vars
  PROVE  CommitInv'
<1> USE NoJobAssumption
    DEF TypeInv, TypeOK, HoldsAJob, Holding, StoreTypeOK, QueueTypeOK, Goto, Hold,
        CommitInv, EnqueuedJobsExist, SucceededHasResult, FailedIsPermanent,
        DeadLetterIsCommitted, DlqAfterCommit, Queued, DeadLettered
<1>1. CASE \E w \in Workers : Escapes(w)
  BY <1>1 DEF Escapes, Release, storeVars, queueVars
<1>2. CASE \E w \in Workers : Crash(w) \/ Stop(w)
  <2>1. PICK w \in Workers : Forget(w) /\ UNCHANGED <<storeVars, queueVars, submitting>>
    BY <1>2 DEF Crash, Stop
  <2>2. QED
    BY <2>1 DEF Forget, storeVars, queueVars
<1>3. CASE \E j \in Jobs : RowLapses(j) \/ DeliveryLapses(j)
  BY <1>3 DEF RowLapses, DeliveryLapses, Lapse, RowAges, VisibilityTimeout,
              storeVars, queueVars, workerVars
<1>4. CASE UNCHANGED vars
  BY <1>4 DEF vars, storeVars, queueVars, workerVars
<1>5. QED
  BY <1>1, <1>2, <1>3, <1>4

LEMMA CommitStep == TypeInv /\ CommitInv /\ [Next]_vars => CommitInv'
BY CommitSubmit, CommitStartUp, CommitReap, CommitProcess, CommitOther
DEF Next, WorkerStep

LEMMA CommitCorrect == Spec => []CommitInv
<1>1. Spec => []TypeInv
  BY TypeCorrect DEF TypeInv
<1>2. QED
  BY <1>1, CommitStep, CommitInit, PTL DEF Spec

\* No message, wherever it is, names a job whose row is not committed.
THEOREM MessagesNameCommittedJobs == Spec => []EnqueuedJobsExist
<1>1. CommitInv => EnqueuedJobsExist
  BY DEF CommitInv
<1>2. QED
  BY <1>1, CommitCorrect, PTL

\* Whatever crashes or runs twice, a succeeded job has its result and audit
\* event, a visible FAILED is the end of the retries, and nothing reaches the
\* dead-letter list before its failure is committed.
THEOREM OutcomesAreBacked == Spec => []OutcomesAreCommitted
<1>1. CommitInv => OutcomesAreCommitted
  BY DEF CommitInv, OutcomesAreCommitted
<1>2. QED
  BY <1>1, CommitCorrect, PTL

-----------------------------------------------------------------------------
(* Nothing is left without an owner while no process or call fails.          *)

LEMMA SameQueue == queue' = queue => \A k : Queued(k)' <=> Queued(k)
BY DEF Queued

LEMMA SameDlq == dlq' = dlq => \A k : DeadLettered(k)' <=> DeadLettered(k)
BY DEF DeadLettered

OwnerInv == NoJobStranded /\ FailureReachesDlq

LEMMA OwnerInit == Init => OwnerInv
BY DEF Init, OwnerInv, NoJobStranded, FailureReachesDlq, StoreInit

\* One worker moves.  The invariant survives if every job that ends up queued,
\* running or failed has a new owner, or had one that the step left alone.
LEMMA OwnerFrame ==
  ASSUME TypeInv, OwnerInv, NEW w \in Workers,
         UNCHANGED <<faults, submitting>>,
         \A v \in Workers \ {w} :
           pc'[v] = pc[v] /\ held'[v] = held[v] /\ sess'[v] = sess[v],
         \A k \in Jobs \ Disabled : status'[k] = "queued" =>
           \/ Queued(k)' \/ CarriedBy(w, k)'
           \/ status[k] = "queued" /\ (Queued(k) => Queued(k)') /\ ~ CarriedBy(w, k),
         \A k \in Jobs \ Disabled : status'[k] = "running" =>
           \/ FinishedBy(w, k)'
           \/ status[k] = "running" /\ ~ FinishedBy(w, k) /\ (k \in results' => k \in results),
         \A k \in Jobs : status'[k] = "failed" =>
           \/ DeadLettered(k)' \/ BuriedBy(w, k)'
           \/ /\ status[k] = "failed" /\ ~ BuriedBy(w, k)
              /\ DeadLettered(k) => DeadLettered(k)'
  PROVE  OwnerInv'
<1> SUFFICES ASSUME faults = 0
             PROVE  OwnerInv'
  BY DEF OwnerInv, NoJobStranded, FailureReachesDlq
<1>1. ASSUME NEW k \in Jobs \ Disabled, status'[k] = "queued"
      PROVE  Carried(k)'
  <2>1. CASE Queued(k)' \/ CarriedBy(w, k)'
    BY <2>1 DEF Carried
  <2>2. CASE status[k] = "queued" /\ (Queued(k) => Queued(k)') /\ ~ CarriedBy(w, k)
    <3>1. Queued(k) \/ k \in submitting \/ \E v \in Workers \ {w} : CarriedBy(v, k)
      BY <2>2 DEF OwnerInv, NoJobStranded, Carried
    <3>2. \A v \in Workers \ {w} : CarriedBy(v, k) => CarriedBy(v, k)'
      BY DEF CarriedBy
    <3>3. QED
      BY <2>2, <3>1, <3>2 DEF Carried
  <2>3. QED
    BY <1>1, <2>1, <2>2
<1>2. ASSUME NEW k \in Jobs \ Disabled, status'[k] = "running"
      PROVE  \E v \in Workers : FinishedBy(v, k)'
  <2>1. CASE FinishedBy(w, k)'
    BY <2>1
  <2>2. CASE status[k] = "running" /\ ~ FinishedBy(w, k) /\ (k \in results' => k \in results)
    <3>1. PICK v \in Workers \ {w} : FinishedBy(v, k)
      BY <2>2 DEF OwnerInv, NoJobStranded
    <3>2. FinishedBy(v, k)'
      BY <2>2, <3>1 DEF FinishedBy, Executing
    <3>3. QED
      BY <3>2
  <2>3. QED
    BY <1>2, <2>1, <2>2
<1>3. ASSUME NEW k \in Jobs, status'[k] = "failed"
      PROVE  DeadLettered(k)' \/ \E v \in Workers : BuriedBy(v, k)'
  <2>1. CASE DeadLettered(k)' \/ BuriedBy(w, k)'
    BY <2>1
  <2>2. CASE /\ status[k] = "failed" /\ ~ BuriedBy(w, k)
             /\ DeadLettered(k) => DeadLettered(k)'
    <3>1. DeadLettered(k) \/ \E v \in Workers \ {w} : BuriedBy(v, k)
      BY <2>2 DEF OwnerInv, FailureReachesDlq
    <3>2. \A v \in Workers \ {w} : BuriedBy(v, k) => BuriedBy(v, k)'
      BY DEF BuriedBy
    <3>3. QED
      BY <2>2, <3>1, <3>2
  <2>3. QED
    BY <1>3, <2>1, <2>2
<1>4. QED
  BY <1>1, <1>2, <1>3 DEF OwnerInv, NoJobStranded, FailureReachesDlq

LEMMA OwnerSubmit ==
  ASSUME TypeInv, OwnerInv, NEW j \in Jobs,
         SubmitCommit(j) \/ SubmitEnqueue(j) \/ SubmitDies(j)
  PROVE  OwnerInv'
<1> USE DEF TypeInv, TypeOK, StoreTypeOK, QueueTypeOK, OwnerInv, NoJobStranded,
            FailureReachesDlq, Carried
<1>1. CASE SubmitCommit(j)
  <2>1. /\ UNCHANGED <<queue, dlq, results, pc, held, sess, faults>>
        /\ submitting' = submitting \cup {j}
        /\ status' = [status EXCEPT ![j] = "queued"]
    BY <1>1 DEF SubmitCommit, transition, queueVars, bounds
  <2>2. \A v \in Workers, k \in Jobs :
          /\ CarriedBy(v, k)' <=> CarriedBy(v, k)
          /\ FinishedBy(v, k)' <=> FinishedBy(v, k)
          /\ BuriedBy(v, k)' <=> BuriedBy(v, k)
    BY <2>1 DEF CarriedBy, FinishedBy, Executing, BuriedBy
  <2>3. QED
    BY <2>1, <2>2, SameQueue, SameDlq
<1>2. CASE SubmitEnqueue(j)
  <2>1. \A k : Queued(k)' <=> (Queued(k) \/ k = j)
    BY <1>2, EnqueueAdds DEF SubmitEnqueue
  <2>2. /\ UNCHANGED <<dlq, status, results, pc, held, sess, faults>>
        /\ submitting' = submitting \ {j}
    BY <1>2 DEF SubmitEnqueue, enqueue_job, storeVars, workerVars, bounds
  <2>3. \A v \in Workers, k \in Jobs :
          /\ CarriedBy(v, k)' <=> CarriedBy(v, k)
          /\ FinishedBy(v, k)' <=> FinishedBy(v, k)
          /\ BuriedBy(v, k)' <=> BuriedBy(v, k)
    BY <2>2 DEF CarriedBy, FinishedBy, Executing, BuriedBy
  <2>4. QED
    BY <2>1, <2>2, <2>3, SameDlq
<1>3. CASE SubmitDies(j)
  BY <1>3 DEF SubmitDies, Fault
<1>4. QED
  BY <1>1, <1>2, <1>3

LEMMA OwnerStartUp ==
  ASSUME TypeInv, OwnerInv, NEW w \in Workers, StartUp(w)
  PROVE  OwnerInv'
<1> USE DEF TypeInv, TypeOK, StoreTypeOK, QueueTypeOK, HoldsAJob, Holding, Goto, Hold,
            bounds, CarriedBy, FinishedBy, Executing, BuriedBy
<1>1. CASE Start(w)
  BY <1>1, SameQueue, SameDlq, OwnerFrame
  DEF Start, storeVars, queueVars
<1>2. CASE RecoverCommit(w)
  <2>1. /\ UNCHANGED <<faults, submitting>>
        /\ \A v \in Workers \ {w} :
             pc'[v] = pc[v] /\ held'[v] = held[v] /\ sess'[v] = sess[v]
    BY <1>2 DEF RecoverCommit, requeue_row, transition, queueVars
  <2>2. \A k \in Jobs \ Disabled : status'[k] = "queued" =>
          \/ Queued(k)' \/ CarriedBy(w, k)'
          \/ status[k] = "queued" /\ (Queued(k) => Queued(k)') /\ ~ CarriedBy(w, k)
    BY <1>2, SameQueue, SameDlq DEF RecoverCommit, requeue_row, transition, queueVars
  <2>3. \A k \in Jobs \ Disabled : status'[k] = "running" =>
          \/ FinishedBy(w, k)'
          \/ status[k] = "running" /\ ~ FinishedBy(w, k) /\ (k \in results' => k \in results)
    BY <1>2 DEF RecoverCommit, requeue_row, transition, queueVars
  <2>4. \A k \in Jobs : status'[k] = "failed" =>
          \/ DeadLettered(k)' \/ BuriedBy(w, k)'
          \/ /\ status[k] = "failed" /\ ~ BuriedBy(w, k)
             /\ DeadLettered(k) => DeadLettered(k)'
    BY <1>2, SameDlq DEF RecoverCommit, requeue_row, transition, queueVars
  <2> HIDE DEF CarriedBy, FinishedBy, Executing, BuriedBy
  <2>5. QED
    BY <2>1, <2>2, <2>3, <2>4, OwnerFrame
<1>3. CASE RecoverPush(w)
  <2>1. \A k : Queued(k)' <=> (Queued(k) \/ k = held[w])
    BY <1>3, EnqueueAdds DEF RecoverPush
  <2>2. QED
    BY <1>3, <2>1, SameDlq, OwnerFrame
    DEF RecoverPush, enqueue_job, storeVars
<1>4. CASE BootReapScan(w)
  BY <1>4, SameQueue, SameDlq, OwnerFrame
  DEF BootReapScan, storeVars, queueVars
<1>5. CASE OrphanScan(w)
  BY <1>5, SameQueue, SameDlq, OwnerFrame
  DEF OrphanScan, storeVars, queueVars
<1>6. CASE OrphanPush(w)
  <2>1. PICK m \in todo[w] : enqueue_job(m)
    BY <1>6 DEF OrphanPush
  <2>2. \A k : Queued(k)' <=> (Queued(k) \/ k = m)
    BY <2>1, EnqueueAdds
  <2>3. QED
    BY <1>6, <2>1, <2>2, SameDlq, OwnerFrame DEF OrphanPush, enqueue_job, storeVars
<1>7. CASE Ready(w)
  BY <1>7, SameQueue, SameDlq, OwnerFrame
  DEF Ready, storeVars, queueVars
<1>8. QED
  BY <1>1, <1>2, <1>3, <1>4, <1>5, <1>6, <1>7 DEF StartUp

LEMMA OwnerReap ==
  ASSUME TypeInv, OwnerInv, NEW w \in Workers, Reap(w)
  PROVE  OwnerInv'
<1> USE DEF TypeInv, TypeOK, StoreTypeOK, QueueTypeOK, HoldsAJob, Holding, Goto, Hold,
            bounds, CarriedBy, FinishedBy, Executing, BuriedBy, Pushing
<1>1. CASE BlpopTimeout(w)
  BY <1>1, SameQueue, SameDlq, OwnerFrame
  DEF BlpopTimeout, storeVars, queueVars
<1>2. CASE ReapScan(w)
  BY <1>2, SameQueue, SameDlq, OwnerFrame
  DEF ReapScan, storeVars, queueVars
<1>3. CASE ReapRemove(w)
  BY ZenonT(30), <1>3, SameQueue, SameDlq, OwnerFrame
  DEF ReapRemove, ack, storeVars
<1>4. CASE ReapPush(w)
  <2>0. \A k : Queued(k)' <=> (Queued(k) \/ k = held[w])
    BY <1>4, EnqueueAdds DEF ReapPush
  <2>1. /\ UNCHANGED <<faults, submitting>>
        /\ \A v \in Workers \ {w} :
             pc'[v] = pc[v] /\ held'[v] = held[v] /\ sess'[v] = sess[v]
    BY <1>4 DEF ReapPush, enqueue_job, storeVars
  <2>2. \A k \in Jobs \ Disabled : status'[k] = "queued" =>
          \/ Queued(k)' \/ CarriedBy(w, k)'
          \/ status[k] = "queued" /\ (Queued(k) => Queued(k)') /\ ~ CarriedBy(w, k)
    BY <1>4, <2>0 DEF ReapPush, enqueue_job, storeVars
  <2>3. \A k \in Jobs \ Disabled : status'[k] = "running" =>
          \/ FinishedBy(w, k)'
          \/ status[k] = "running" /\ ~ FinishedBy(w, k) /\ (k \in results' => k \in results)
    BY <1>4 DEF ReapPush, enqueue_job, storeVars
  <2>4. \A k \in Jobs : status'[k] = "failed" =>
          \/ DeadLettered(k)' \/ BuriedBy(w, k)'
          \/ /\ status[k] = "failed" /\ ~ BuriedBy(w, k)
             /\ DeadLettered(k) => DeadLettered(k)'
    BY <1>4, SameDlq DEF ReapPush, enqueue_job, storeVars
  <2> HIDE DEF CarriedBy, FinishedBy, Executing, BuriedBy
  <2>5. QED
    BY <2>1, <2>2, <2>3, <2>4, OwnerFrame
<1>5. CASE ReapDone(w)
  BY <1>5, SameQueue, SameDlq, OwnerFrame
  DEF ReapDone, storeVars, queueVars
<1>6. QED
  BY <1>1, <1>2, <1>3, <1>4, <1>5 DEF Reap

LEMMA OwnerProcess ==
  ASSUME TypeInv, OwnerInv, NEW w \in Workers, Process(w)
  PROVE  OwnerInv'
<1> USE DEF TypeInv, TypeOK, StoreTypeOK, QueueTypeOK, HoldsAJob, Holding, Goto, Hold,
            bounds, CarriedBy, FinishedBy, Executing, BuriedBy
<1>1. CASE Dequeue(w)
  <2>1. PICK m \in Jobs : dequeue_pop(m) /\ Hold(w, m)
    BY <1>1 DEF Dequeue
  <2>2. \A k : Queued(k) => Queued(k)' \/ k = m
    BY <2>1, PopTakesHead
  <2>3. QED
    BY <1>1, <2>1, <2>2, SameDlq, OwnerFrame DEF Dequeue, dequeue_pop, storeVars
<1>2. CASE Track(w)
  BY <1>2, SameQueue, SameDlq, OwnerFrame
  DEF Track, dequeue_track, storeVars
<1>3. CASE Load(w)
  <2>1. /\ UNCHANGED <<faults, submitting>>
        /\ \A v \in Workers \ {w} :
             pc'[v] = pc[v] /\ held'[v] = held[v] /\ sess'[v] = sess[v]
    BY <1>3 DEF Load, storeVars, queueVars
  <2>2. \A k \in Jobs \ Disabled : status'[k] = "queued" =>
          \/ Queued(k)' \/ CarriedBy(w, k)'
          \/ status[k] = "queued" /\ (Queued(k) => Queued(k)') /\ ~ CarriedBy(w, k)
    BY <1>3, SameQueue, SameDlq DEF Load, storeVars, queueVars
  <2>3. \A k \in Jobs \ Disabled : status'[k] = "running" =>
          \/ FinishedBy(w, k)'
          \/ status[k] = "running" /\ ~ FinishedBy(w, k) /\ (k \in results' => k \in results)
    BY <1>3 DEF Load, storeVars, queueVars
  <2>4. \A k \in Jobs : status'[k] = "failed" =>
          \/ DeadLettered(k)' \/ BuriedBy(w, k)'
          \/ /\ status[k] = "failed" /\ ~ BuriedBy(w, k)
             /\ DeadLettered(k) => DeadLettered(k)'
    BY <1>3, SameDlq DEF Load, storeVars, queueVars
  <2> HIDE DEF CarriedBy, FinishedBy, Executing, BuriedBy
  <2>5. QED
    BY <2>1, <2>2, <2>3, <2>4, OwnerFrame
<1>4. CASE Claim(w)
  BY <1>4, SameQueue, SameDlq, OwnerFrame
  DEF Claim, transition, ensure_transition, ALLOWED_TRANSITIONS, queueVars
<1>5. CASE Discard(w)
  <2>1. /\ UNCHANGED <<faults, submitting>>
        /\ \A v \in Workers \ {w} :
             pc'[v] = pc[v] /\ held'[v] = held[v] /\ sess'[v] = sess[v]
    BY <1>5 DEF Discard, ensure_transition, ALLOWED_TRANSITIONS, storeVars, queueVars
  <2>2. \A k \in Jobs \ Disabled : status'[k] = "queued" =>
          \/ Queued(k)' \/ CarriedBy(w, k)'
          \/ status[k] = "queued" /\ (Queued(k) => Queued(k)') /\ ~ CarriedBy(w, k)
    BY <1>5, SameQueue, SameDlq DEF Discard, ensure_transition, ALLOWED_TRANSITIONS, storeVars, queueVars
  <2>3. \A k \in Jobs \ Disabled : status'[k] = "running" =>
          \/ FinishedBy(w, k)'
          \/ status[k] = "running" /\ ~ FinishedBy(w, k) /\ (k \in results' => k \in results)
    BY <1>5 DEF Discard, ensure_transition, ALLOWED_TRANSITIONS, storeVars, queueVars
  <2>4. \A k \in Jobs : status'[k] = "failed" =>
          \/ DeadLettered(k)' \/ BuriedBy(w, k)'
          \/ /\ status[k] = "failed" /\ ~ BuriedBy(w, k)
             /\ DeadLettered(k) => DeadLettered(k)'
    BY <1>5, SameDlq DEF Discard, ensure_transition, ALLOWED_TRANSITIONS, storeVars, queueVars
  <2> HIDE DEF CarriedBy, FinishedBy, Executing, BuriedBy
  <2>5. QED
    BY <2>1, <2>2, <2>3, <2>4, OwnerFrame
<1>6. CASE ProviderDisabled(w)
  <2>1. /\ UNCHANGED <<faults, submitting>>
        /\ \A v \in Workers \ {w} :
             pc'[v] = pc[v] /\ held'[v] = held[v] /\ sess'[v] = sess[v]
    BY <1>6 DEF ProviderDisabled, Release, storeVars, queueVars
  <2>2. \A k \in Jobs \ Disabled : status'[k] = "queued" =>
          \/ Queued(k)' \/ CarriedBy(w, k)'
          \/ status[k] = "queued" /\ (Queued(k) => Queued(k)') /\ ~ CarriedBy(w, k)
    BY <1>6, SameQueue, SameDlq DEF ProviderDisabled, Release, storeVars, queueVars
  <2>3. \A k \in Jobs \ Disabled : status'[k] = "running" =>
          \/ FinishedBy(w, k)'
          \/ status[k] = "running" /\ ~ FinishedBy(w, k) /\ (k \in results' => k \in results)
    BY <1>6 DEF ProviderDisabled, Release, storeVars, queueVars
  <2>4. \A k \in Jobs : status'[k] = "failed" =>
          \/ DeadLettered(k)' \/ BuriedBy(w, k)'
          \/ /\ status[k] = "failed" /\ ~ BuriedBy(w, k)
             /\ DeadLettered(k) => DeadLettered(k)'
    BY <1>6, SameDlq DEF ProviderDisabled, Release, storeVars, queueVars
  <2> HIDE DEF CarriedBy, FinishedBy, Executing, BuriedBy
  <2>5. QED
    BY <2>1, <2>2, <2>3, <2>4, OwnerFrame
<1>7. CASE RunReturns(w)
  <2>1. /\ UNCHANGED <<faults, submitting>>
        /\ \A v \in Workers \ {w} :
             pc'[v] = pc[v] /\ held'[v] = held[v] /\ sess'[v] = sess[v]
    BY <1>7 DEF RunReturns, storeVars, queueVars
  <2>2. \A k \in Jobs \ Disabled : status'[k] = "queued" =>
          \/ Queued(k)' \/ CarriedBy(w, k)'
          \/ status[k] = "queued" /\ (Queued(k) => Queued(k)') /\ ~ CarriedBy(w, k)
    BY <1>7, SameQueue, SameDlq DEF RunReturns, storeVars, queueVars
  <2>3. \A k \in Jobs \ Disabled : status'[k] = "running" =>
          \/ FinishedBy(w, k)'
          \/ status[k] = "running" /\ ~ FinishedBy(w, k) /\ (k \in results' => k \in results)
    BY <1>7 DEF RunReturns, storeVars, queueVars
  <2>4. \A k \in Jobs : status'[k] = "failed" =>
          \/ DeadLettered(k)' \/ BuriedBy(w, k)'
          \/ /\ status[k] = "failed" /\ ~ BuriedBy(w, k)
             /\ DeadLettered(k) => DeadLettered(k)'
    BY <1>7, SameDlq DEF RunReturns, storeVars, queueVars
  <2> HIDE DEF CarriedBy, FinishedBy, Executing, BuriedBy
  <2>5. QED
    BY <2>1, <2>2, <2>3, <2>4, OwnerFrame
<1>8. CASE Succeed(w)
  BY <1>8, SameQueue, SameDlq, OwnerFrame
  DEF Succeed, transition, queueVars
<1>9. CASE InsertConflict(w)
  BY ZenonT(30), <1>9, SameQueue, SameDlq, OwnerFrame
  DEF InsertConflict, Release, storeVars, queueVars
<1>10. CASE FailRetry(w)
  BY <1>10, SameQueue, SameDlq, OwnerFrame
  DEF FailRetry, requeue_row, transition, queueVars
<1>11. CASE FailFinal(w)
  BY <1>11, SameQueue, SameDlq, OwnerFrame
  DEF FailFinal, transition, queueVars
<1>12. CASE RequeuePush(w)
  <2>1. \A k : Queued(k)' <=> (Queued(k) \/ k = held[w])
    BY <1>12, EnqueueAdds DEF RequeuePush
  <2>2. QED
    BY <1>12, <2>1, SameDlq, OwnerFrame
    DEF RequeuePush, enqueue_job, storeVars
<1>13. CASE AckDelivery(w)
  BY <1>13, SameQueue, SameDlq, OwnerFrame
  DEF AckDelivery, ack, Release, storeVars
<1>14. CASE DlqRemove(w)
  BY <1>14, SameQueue, SameDlq, OwnerFrame
  DEF DlqRemove, ack, storeVars
<1>15. CASE DlqPush(w)
  <2>1. \A k : DeadLettered(k)' <=> (DeadLettered(k) \/ k = held[w])
    BY <1>15, DlqPushAdds DEF DlqPush
  <2>2. QED
    BY <1>15, <2>1, SameQueue, OwnerFrame DEF DlqPush, dlq_push, Release, storeVars
<1>16. QED
  BY <1>1, <1>2, <1>3, <1>4, <1>5, <1>6, <1>7, <1>8, <1>9, <1>10, <1>11,
     <1>12, <1>13, <1>14, <1>15 DEF Process

LEMMA OwnerSame ==
  ASSUME OwnerInv,
         UNCHANGED <<status, results, queue, dlq, submitting, pc, held, sess, faults>>
  PROVE  OwnerInv'
<1>1. \A v \in Workers, k \in Jobs :
        /\ CarriedBy(v, k)' <=> CarriedBy(v, k)
        /\ FinishedBy(v, k)' <=> FinishedBy(v, k)
        /\ BuriedBy(v, k)' <=> BuriedBy(v, k)
  BY DEF CarriedBy, FinishedBy, Executing, BuriedBy
<1>2. QED
  BY <1>1, SameQueue, SameDlq DEF OwnerInv, NoJobStranded, FailureReachesDlq, Carried

LEMMA OwnerOther ==
  ASSUME TypeInv, OwnerInv,
         \/ \E w \in Workers : Escapes(w) \/ Crash(w) \/ Stop(w)
         \/ \E j \in Jobs : RowLapses(j) \/ DeliveryLapses(j)
         \/ UNCHANGED vars
  PROVE  OwnerInv'
<1>1. CASE \E w \in Workers : Escapes(w) \/ Crash(w)
  <2>1. faults' = faults + 1
    BY <1>1 DEF Escapes, Fault, Crash
  <2>2. QED
    BY <2>1 DEF TypeInv, TypeOK, OwnerInv, NoJobStranded, FailureReachesDlq
<1>2. ASSUME NEW w \in Workers, Stop(w) PROVE OwnerInv'
  <2>1. /\ UNCHANGED <<status, results, queue, dlq, faults, submitting>>
        /\ \A v \in Workers \ {w} :
             pc'[v] = pc[v] /\ held'[v] = held[v] /\ sess'[v] = sess[v]
    BY <1>2 DEF Stop, Forget, Goto, Hold, storeVars, queueVars, TypeInv, TypeOK
  <2>2. \A k : ~ CarriedBy(w, k) /\ ~ FinishedBy(w, k) /\ ~ BuriedBy(w, k)
    BY <1>2 DEF Stop, CarriedBy, FinishedBy, Executing, BuriedBy
  <2>3. QED
    BY <2>1, <2>2, SameQueue, SameDlq, OwnerFrame
<1>3. CASE \E j \in Jobs : RowLapses(j) \/ DeliveryLapses(j)
  BY <1>3, OwnerSame DEF RowLapses, DeliveryLapses, Lapse, RowAges, VisibilityTimeout,
                         storeVars, queueVars, workerVars
<1>4. CASE UNCHANGED vars
  BY <1>4, OwnerSame DEF vars, storeVars, queueVars, workerVars, bounds
<1>5. QED
  BY <1>1, <1>2, <1>3, <1>4

LEMMA OwnerCorrect == Spec => []OwnerInv
<1>1. TypeInv /\ OwnerInv /\ [Next]_vars => OwnerInv'
  BY OwnerSubmit, OwnerStartUp, OwnerReap, OwnerProcess, OwnerOther
  DEF Next, WorkerStep
<1>2. Spec => []TypeInv
  BY TypeCorrect DEF TypeInv
<1>3. QED
  BY <1>1, <1>2, OwnerInit, PTL DEF Spec

\* While no process dies and no call fails, every queued job has a message
\* that will claim it and every running job a worker that will finish it,
\* whatever duplicates, reaping and stale sessions do in between.
THEOREM NoJobIsStranded == Spec => []NoJobStranded
<1>1. OwnerInv => NoJobStranded
  BY DEF OwnerInv
<1>2. QED
  BY <1>1, OwnerCorrect, PTL

\* While no process dies and no call fails, a permanent failure is in the
\* dead-letter list or on its way there.
THEOREM FailuresReachDlq == Spec => []FailureReachesDlq
<1>1. OwnerInv => FailureReachesDlq
  BY DEF OwnerInv
<1>2. QED
  BY <1>1, OwnerCorrect, PTL
=============================================================================

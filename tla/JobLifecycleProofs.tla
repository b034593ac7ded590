--------------------------- MODULE JobLifecycleProofs ---------------------------
(***************************************************************************)
(* The pipeline while no row and no delivery outlives its timeout: each    *)
(* job has at most one message, so it is executed by one worker at a time, *)
(* its row goes through the life cycle of JobLifecycle, and a waiting      *)
(* client is told what stays true.  Any number of crashes, refused calls,  *)
(* stops and restarts, any jobs, workers and retry policy.                 *)
(***************************************************************************)
EXTENDS JobWatch, JobPipelineProofs

-----------------------------------------------------------------------------
(* Nothing is old, so no sweep finds anything.                               *)

Quiet ==
  lapses = 0 =>
    /\ aged = {} /\ expired = {}
    /\ \A w \in Workers :
         /\ todo[w] = {} /\ cutoff[w] = {}
         /\ pc[w] \notin {"recover_push", "boot_reap_push", "reap_push"}

LEMMA QuietInit == Init => Quiet
BY DEF Init, Quiet, StoreInit, QueueInit

LEMMA LapsesOnlyGrow == TypeInv /\ [Next]_vars /\ lapses' = 0 => lapses = 0
<1> SUFFICES ASSUME TypeInv, [Next]_vars, lapses' = 0 PROVE lapses = 0
  OBVIOUS
<1>1. lapses' = lapses \/ lapses' = lapses + 1
  BY DEF Next, vars, bounds, SubmitCommit, SubmitEnqueue, SubmitDies, WorkerStep, StartUp, Start,
     RecoverCommit, RecoverPush, BootReapScan, OrphanScan, OrphanPush, Ready, Reap, BlpopTimeout,
     ReapScan, ReapRemove, ReapPush, ReapDone, Process, Dequeue, Track, Load, Claim, Discard,
     ProviderDisabled, RunReturns, Succeed, InsertConflict, FailRetry, FailFinal, RequeuePush,
     AckDelivery, DlqRemove, DlqPush, Escapes, Crash, Stop, RowLapses, DeliveryLapses, Lapse
<1>2. QED
  BY <1>1 DEF TypeInv, TypeOK

LEMMA QuietStep == TypeInv /\ Quiet /\ [Next]_vars => Quiet'
<1> SUFFICES ASSUME TypeInv, Quiet, [Next]_vars, lapses' = 0 PROVE Quiet'
  BY DEF Quiet
<1>0. lapses = 0
  BY LapsesOnlyGrow
<1> USE <1>0 DEF TypeInv, TypeOK, StoreTypeOK, QueueTypeOK, Quiet
<1>1. ASSUME NEW j \in Jobs, SubmitCommit(j) \/ SubmitEnqueue(j) \/ SubmitDies(j) PROVE Quiet'
  <2>1. CASE SubmitCommit(j)
    BY <2>1 DEF SubmitCommit, transition, RowWritten, queueVars
  <2>2. CASE SubmitEnqueue(j)
    BY <2>2 DEF SubmitEnqueue, enqueue_job, storeVars, workerVars
  <2>3. CASE SubmitDies(j)
    BY <2>3 DEF SubmitDies, storeVars, queueVars, workerVars
  <2>4. QED
    BY <1>1, <2>1, <2>2, <2>3
<1>2. ASSUME NEW w \in Workers, StartUp(w) PROVE Quiet'
  <2>1. CASE Start(w)
    <3>1. /\ todo' = [todo EXCEPT ![w] = {}] /\ cutoff' = [cutoff EXCEPT ![w] = {}]
          /\ pc' = [pc EXCEPT ![w] = "recover"] /\ UNCHANGED <<aged, expired>>
      BY <2>1 DEF Start, Goto, storeVars, queueVars
    <3>2. QED
      BY <3>1
  <2>2. CASE BootReapScan(w) \/ OrphanScan(w) \/ Ready(w)
    <3>1. /\ \A v \in Workers : todo'[v] = {} /\ cutoff'[v] = {}
          /\ UNCHANGED <<aged, expired>>
      BY ZenonT(30), <2>2 DEF BootReapScan, OrphanScan, Ready, storeVars, queueVars
    <3>2. \E s \in {"boot_reap", "orphans", "poll"} : pc' = [pc EXCEPT ![w] = s]
      BY <2>2 DEF BootReapScan, OrphanScan, Ready, Goto
    <3>3. QED
      BY <3>1, <3>2
  <2>3. ~ RecoverCommit(w) /\ ~ RecoverPush(w) /\ ~ OrphanPush(w)
    BY DEF RecoverCommit, RecoverPush, OrphanPush
  <2>4. QED
    BY <1>2, <2>1, <2>2, <2>3 DEF StartUp
<1>3. ASSUME NEW w \in Workers, Reap(w) PROVE Quiet'
  BY <1>3 DEF Reap, BlpopTimeout, ReapScan, ReapRemove, ReapPush, ReapDone, Pushing, Goto,
     storeVars, queueVars
<1>4. ASSUME NEW w \in Workers, Process(w) PROVE Quiet'
  <2>1. aged' = {} /\ expired' = {} /\ todo' = todo
    BY <1>4 DEF Process, Dequeue, Track, Load, Claim, Discard, ProviderDisabled, RunReturns, Succeed,
       InsertConflict, FailRetry, FailFinal, RequeuePush, AckDelivery, DlqRemove, DlqPush,
       transition, requeue_row, enqueue_job, dequeue_pop, dequeue_track, ack, dlq_push,
       storeVars, queueVars
  <2>2. \A v \in Workers : cutoff'[v] = {}
    BY <1>4 DEF Process, Dequeue, Track, Load, Claim, Discard, ProviderDisabled, RunReturns, Succeed,
       InsertConflict, FailRetry, FailFinal, RequeuePush, AckDelivery, DlqRemove, DlqPush, RowWritten
  <2>3. \A v \in Workers : pc'[v] \notin {"recover_push", "boot_reap_push", "reap_push"}
    BY <1>4 DEF Process, Dequeue, Track, Load, Claim, Discard, ProviderDisabled, RunReturns, Succeed,
       InsertConflict, FailRetry, FailFinal, RequeuePush, AckDelivery, DlqRemove, DlqPush,
       Goto, Release
  <2>4. QED
    BY <2>1, <2>2, <2>3
<1>5. ASSUME NEW w \in Workers, Escapes(w) \/ Crash(w) \/ Stop(w) PROVE Quiet'
  BY <1>5 DEF Escapes, Crash, Stop, Forget, Release, Goto, storeVars, queueVars
<1>6. CASE \E j \in Jobs : RowLapses(j) \/ DeliveryLapses(j)
  BY <1>6 DEF RowLapses, DeliveryLapses, Lapse
<1>7. CASE UNCHANGED vars
  BY <1>7 DEF vars, storeVars, queueVars, workerVars
<1>8. QED
  BY <1>1, <1>2, <1>3, <1>4, <1>5, <1>6, <1>7 DEF Next, WorkerStep

-----------------------------------------------------------------------------
(* Each job has at most one message: waiting to be pushed by submit, in the  *)
(* queue, or in the hands of one worker.                                     *)

InHand == {"popped", "load", "claim", "run", "insert", "requeue"}

HasMessage(w, j) == held[w] = j /\ pc[w] \in InHand

Distinct == \A i, k \in DOMAIN queue : queue[i] = queue[k] => i = k

OneMessage ==
  lapses = 0 =>
    /\ Distinct
    /\ \A j \in submitting : ~ Queued(j)
    /\ \A w \in Workers, j \in Jobs : HasMessage(w, j) => ~ Queued(j) /\ j \notin submitting
    /\ \A v, w \in Workers, j \in Jobs : HasMessage(v, j) /\ HasMessage(w, j) => v = w

\* The row is in the state in which its message was sent, and a session that
\* has loaded it holds what it contains.
RowMatches ==
  lapses = 0 =>
    /\ \A j \in Jobs : Queued(j) \/ j \in submitting => status[j] = "queued"
    /\ \A w \in Workers :
         /\ pc[w] \in {"popped", "load", "claim", "requeue"} => status[held[w]] = "queued"
         /\ pc[w] \in {"run", "insert"} => status[held[w]] = "running"
         /\ pc[w] \in {"claim", "run", "insert"} =>
              sess[w].status = status[held[w]] /\ sess[w].attempts = attempts[held[w]]
    /\ \A j \in results : status[j] = "succeeded"

\* A job that may still run has an attempt left.
AttemptsMatch ==
  lapses = 0 =>
    \A j \in Jobs :
      /\ status[j] = "absent" => attempts[j] = 0
      /\ status[j] = "queued" => attempts[j] < MaxAttempts[j]
      /\ status[j] = "running" => attempts[j] <= MaxAttempts[j]
      /\ status[j] = "failed" => attempts[j] = MaxAttempts[j]

CalmInv == Quiet /\ OneMessage /\ RowMatches /\ AttemptsMatch

LEMMA CalmInit == Init => CalmInv
<1> SUFFICES ASSUME Init PROVE OneMessage /\ RowMatches /\ AttemptsMatch
  BY QuietInit DEF CalmInv
<1>1. queue = <<>> /\ DOMAIN queue = {} /\ submitting = {} /\ results = {}
  BY DEF Init, QueueInit, StoreInit
<1>2. \A w \in Workers : pc[w] = "down"
  BY DEF Init
<1>3. \A j \in Jobs : status[j] = "absent" /\ attempts[j] = 0
  BY DEF Init, StoreInit
<1>4. QED
  BY <1>1, <1>2, <1>3 DEF OneMessage, RowMatches, AttemptsMatch, Distinct, HasMessage, InHand, Queued

-----------------------------------------------------------------------------
LEMMA EnqueueStaysDistinct ==
  ASSUME NEW S, queue \in Seq(S), NEW m \in S, enqueue_job(m), Distinct, ~ Queued(m)
  PROVE  Distinct'
BY DEF enqueue_job, Distinct, Queued

LEMMA PopStaysDistinct ==
  ASSUME NEW S, queue \in Seq(S), NEW m, dequeue_pop(m), Distinct
  PROVE  Distinct' /\ ~ Queued(m)'
<1>1. /\ Len(queue) \in Nat \ {0} /\ DOMAIN queue = 1 .. Len(queue) /\ queue[1] = m
      /\ DOMAIN queue' = 1 .. Len(queue) - 1
      /\ \A i \in DOMAIN queue' : queue'[i] = queue[i + 1]
  BY DEF dequeue_pop
<1>2. QED
  BY SMTT(20), <1>1 DEF Distinct, Queued

\* A worker moves without sending or taking a message.
LEMMA MessageFrame ==
  ASSUME OneMessage, lapses = 0, NEW w \in Workers,
         UNCHANGED <<queue, submitting>>,
         \A v \in Workers \ {w} : pc'[v] = pc[v] /\ held'[v] = held[v],
         \A k \in Jobs : HasMessage(w, k)' => HasMessage(w, k)
  PROVE  OneMessage'
<1>1. Distinct' /\ \A k : Queued(k)' <=> Queued(k)
  BY SameQueue DEF OneMessage, Distinct
<1>2. \A v \in Workers, k \in Jobs : HasMessage(v, k)' => HasMessage(v, k)
  BY DEF HasMessage
<1>3. QED
  BY <1>1, <1>2 DEF OneMessage

\* A worker moves and writes at most the row whose message it has.
LEMMA RowFrame ==
  ASSUME TypeInv, OneMessage, RowMatches, lapses = 0, NEW w \in Workers,
         UNCHANGED <<queue, submitting>>,
         \A v \in Workers \ {w} :
           pc'[v] = pc[v] /\ held'[v] = held[v] /\ sess'[v] = sess[v],
         \A k \in Jobs :
           \/ HasMessage(w, k) /\ (k \in results' => status'[k] = "succeeded")
           \/ /\ status'[k] = status[k] /\ attempts'[k] = attempts[k]
              /\ k \in results' => k \in results,
         results' \subseteq Jobs,
         pc'[w] \in {"popped", "load", "claim", "requeue"} => status'[held'[w]] = "queued",
         pc'[w] \in {"run", "insert"} => status'[held'[w]] = "running",
         pc'[w] \in {"claim", "run", "insert"} =>
           sess'[w].status = status'[held'[w]] /\ sess'[w].attempts = attempts'[held'[w]]
  PROVE  RowMatches'
<1>1. \A k : Queued(k)' <=> Queued(k)
  BY SameQueue
<1>2. ASSUME NEW k \in Jobs, Queued(k)' \/ k \in submitting' PROVE status'[k] = "queued"
  <2>1. ~ HasMessage(w, k)
    BY <1>1, <1>2 DEF OneMessage
  <2>2. QED
    BY <1>1, <1>2, <2>1 DEF RowMatches
<1>3. ASSUME NEW v \in Workers \ {w}
      PROVE  /\ pc'[v] \in {"popped", "load", "claim", "requeue"} => status'[held'[v]] = "queued"
             /\ pc'[v] \in {"run", "insert"} => status'[held'[v]] = "running"
             /\ pc'[v] \in {"claim", "run", "insert"} =>
                  sess'[v].status = status'[held'[v]] /\ sess'[v].attempts = attempts'[held'[v]]
  <2> SUFFICES ASSUME pc[v] \in InHand
               PROVE  status'[held[v]] = status[held[v]] /\ attempts'[held[v]] = attempts[held[v]]
    BY DEF RowMatches, InHand
  <2>1. held[v] \in Jobs
    BY DEF TypeInv, HoldsAJob, Holding, InHand
  <2>2. ~ HasMessage(w, held[v])
    BY <2>1 DEF OneMessage, HasMessage
  <2>3. QED
    BY <2>1, <2>2
<1>4. ASSUME NEW k \in results' PROVE status'[k] = "succeeded"
  BY <1>4 DEF RowMatches
<1>5. QED
  BY <1>2, <1>3, <1>4 DEF RowMatches

-----------------------------------------------------------------------------
(* The steps, group by group.                                                *)

Calm == TypeInv /\ CommitInv /\ CalmInv /\ lapses = 0

MsgRowInv == OneMessage /\ RowMatches /\ AttemptsMatch

LEMMA PoliciesArePositive == \A j \in Jobs : MaxAttempts[j] \in Nat \ {0}
BY MaxAttemptsAssumption

LEMMA QueuedMayRun == ensure_transition("queued", "running")
BY DEF ensure_transition, ALLOWED_TRANSITIONS

LEMMA CalmSubmit ==
  ASSUME Calm, NEW j \in Jobs, SubmitCommit(j) \/ SubmitEnqueue(j) \/ SubmitDies(j)
  PROVE  MsgRowInv'
<1> USE DEF Calm, CalmInv, TypeInv, TypeOK, StoreTypeOK, QueueTypeOK, MsgRowInv
<1>1. CASE SubmitCommit(j)
  <2>1. /\ status[j] = "absent" /\ status' = [status EXCEPT ![j] = "queued"]
        /\ submitting' = submitting \cup {j}
        /\ UNCHANGED <<queue, results, attempts, pc, held, sess>>
    BY <1>1 DEF SubmitCommit, transition, queueVars
  <2>2. ~ Queued(j) /\ \A w \in Workers : held[w] # j
    BY <2>1 DEF CommitInv, EnqueuedJobsExist
  <2>3. /\ \A k : Queued(k)' <=> Queued(k)
        /\ \A w \in Workers, k \in Jobs : HasMessage(w, k)' <=> HasMessage(w, k)
        /\ Distinct' <=> Distinct
    BY <2>1, SameQueue DEF HasMessage, Distinct
  <2>4. OneMessage'
    BY <2>1, <2>2, <2>3 DEF OneMessage, HasMessage
  <2>5. \A w \in Workers : pc[w] \in InHand => held[w] \in Jobs /\ status'[held[w]] = status[held[w]]
    BY <2>1, <2>2 DEF HoldsAJob, Holding, InHand
  <2>6. RowMatches'
    BY <2>1, <2>3, <2>5 DEF RowMatches, InHand
  <2>7. AttemptsMatch'
    <3>1. attempts[j] = 0 /\ 0 < MaxAttempts[j]
      BY <2>1, PoliciesArePositive DEF AttemptsMatch
    <3>2. status'[j] = "queued" /\ \A k \in Jobs \ {j} : status'[k] = status[k]
      BY <2>1
    <3>3. QED
      BY <2>1, <3>1, <3>2 DEF AttemptsMatch
  <2>8. QED
    BY <2>4, <2>6, <2>7
<1>2. CASE SubmitEnqueue(j)
  <2>1. /\ j \in submitting /\ submitting' = submitting \ {j}
        /\ enqueue_job(j)
        /\ UNCHANGED <<status, results, attempts, pc, held, sess>>
    BY <1>2 DEF SubmitEnqueue, storeVars, workerVars
  <2>2. Distinct' /\ \A k : Queued(k)' <=> (Queued(k) \/ k = j)
    BY <2>1, EnqueueAdds, EnqueueStaysDistinct DEF OneMessage
  <2>3. \A w \in Workers, k \in Jobs : HasMessage(w, k)' <=> HasMessage(w, k)
    BY <2>1 DEF HasMessage
  <2>4. QED
    BY <2>1, <2>2, <2>3 DEF OneMessage, RowMatches, AttemptsMatch
<1>3. CASE SubmitDies(j)
  <2>1. /\ submitting' \subseteq submitting
        /\ UNCHANGED <<queue, status, results, attempts, pc, held, sess>>
    BY <1>3 DEF SubmitDies, storeVars, queueVars, workerVars
  <2>2. /\ \A k : Queued(k)' <=> Queued(k)
        /\ \A w \in Workers, k \in Jobs : HasMessage(w, k)' <=> HasMessage(w, k)
        /\ Distinct' <=> Distinct
    BY <2>1, SameQueue DEF HasMessage, Distinct
  <2>3. QED
    BY <2>1, <2>2 DEF OneMessage, RowMatches, AttemptsMatch
<1>4. QED
  BY <1>1, <1>2, <1>3

\* Sweeps find nothing: a worker that starts or reaps writes and sends nothing.
LEMMA CalmSweep ==
  ASSUME Calm, NEW w \in Workers, StartUp(w) \/ Reap(w)
  PROVE  /\ UNCHANGED <<queue, submitting, status, attempts, results, held, sess>>
         /\ pc[w] \notin InHand /\ pc'[w] \notin InHand
         /\ \A v \in Workers \ {w} : pc'[v] = pc[v]
<1> USE DEF Calm, CalmInv, Quiet, TypeInv, TypeOK, InHand, Goto, storeVars, queueVars
<1>1. CASE StartUp(w)
  <2>1. ~ RecoverCommit(w) /\ ~ RecoverPush(w) /\ ~ OrphanPush(w)
    BY DEF RecoverCommit, RecoverPush, OrphanPush
  <2>2. CASE Start(w)
    BY <2>2 DEF Start
  <2>3. CASE BootReapScan(w) \/ OrphanScan(w) \/ Ready(w)
    BY <2>3 DEF BootReapScan, OrphanScan, Ready
  <2>4. QED
    BY <1>1, <2>1, <2>2, <2>3 DEF StartUp
<1>2. CASE Reap(w)
  <2>1. ~ ReapRemove(w) /\ ~ ReapPush(w)
    BY DEF ReapRemove, ReapPush, Pushing
  <2>2. QED
    BY <1>2, <2>1 DEF Reap, BlpopTimeout, ReapScan, ReapDone
<1>3. QED
  BY <1>1, <1>2

\* A step that writes no row keeps what is true of rows and attempts.
LEMMA CalmQuietStep ==
  ASSUME Calm, NEW w \in Workers,
         UNCHANGED <<queue, submitting, status, attempts, results>>,
         \A v \in Workers \ {w} :
           pc'[v] = pc[v] /\ held'[v] = held[v] /\ sess'[v] = sess[v],
         pc'[w] \notin InHand
  PROVE  MsgRowInv'
<1> USE DEF Calm, CalmInv, TypeInv, TypeOK, StoreTypeOK
<1>1. OneMessage'
  BY MessageFrame DEF HasMessage
<1>2. RowMatches'
  BY RowFrame DEF InHand
<1>3. AttemptsMatch'
  BY DEF AttemptsMatch
<1>4. QED
  BY <1>1, <1>2, <1>3 DEF MsgRowInv

LEMMA CalmProcess ==
  ASSUME Calm, NEW w \in Workers, Process(w)
  PROVE  MsgRowInv'
<1> USE DEF Calm, CalmInv, TypeInv, TypeOK, StoreTypeOK, QueueTypeOK
<1> DEFINE j == held[w]
<1>0. \A v \in Workers \ {w} : pc'[v] = pc[v] /\ held'[v] = held[v] /\ sess'[v] = sess[v]
  BY DEF Process, Dequeue, Track, Load, Claim, Discard, ProviderDisabled, RunReturns, Succeed,
     InsertConflict, FailRetry, FailFinal, RequeuePush, AckDelivery, DlqRemove, DlqPush,
     Goto, Hold, Release
<1>1. CASE Dequeue(w)
  <2>1. PICK m \in Jobs : /\ dequeue_pop(m) /\ held' = [held EXCEPT ![w] = m]
                          /\ pc[w] = "poll" /\ pc' = [pc EXCEPT ![w] = "popped"]
                          /\ UNCHANGED <<status, attempts, results, submitting, sess>>
    BY <1>1 DEF Dequeue, Hold, Goto, storeVars
  <2>2. Queued(m) /\ \A k : Queued(k)' => Queued(k)
    BY <2>1, PopTakesHead
  <2>3. Distinct' /\ ~ Queued(m)'
    BY <2>1, PopStaysDistinct DEF OneMessage
  <2>4. \A v \in Workers, k \in Jobs : HasMessage(v, k)' => HasMessage(v, k) \/ (v = w /\ k = m)
    BY <2>1 DEF HasMessage
  <2>5. \A v \in Workers : ~ HasMessage(v, m)
    BY <2>2 DEF OneMessage
  <2>6. OneMessage'
    BY <2>1, <2>2, <2>3, <2>4, <2>5 DEF OneMessage
  <2>7. RowMatches'
    BY <2>1, <2>2 DEF RowMatches
  <2>8. QED
    BY <2>1, <2>6, <2>7 DEF MsgRowInv, AttemptsMatch
<1>2. CASE Track(w) \/ RunReturns(w)
  <2>1. /\ UNCHANGED <<status, attempts, results, queue, submitting, held, sess>>
        /\ \/ pc[w] = "popped" /\ pc' = [pc EXCEPT ![w] = "load"]
           \/ pc[w] = "run" /\ pc' = [pc EXCEPT ![w] = "insert"]
    BY <1>2 DEF Track, RunReturns, dequeue_track, Goto, storeVars, queueVars
  <2>2. OneMessage'
    BY <2>1, <1>0, MessageFrame DEF HasMessage, InHand
  <2>3. /\ pc[w] = "popped" => status[j] = "queued"
        /\ pc[w] = "run" => /\ status[j] = "running" /\ sess[w].status = status[j]
                            /\ sess[w].attempts = attempts[j]
    BY DEF RowMatches
  <2>4. RowMatches'
    BY <2>1, <2>3, <1>0, RowFrame
  <2>5. QED
    BY <2>1, <2>2, <2>4 DEF MsgRowInv, AttemptsMatch
<1>3. CASE Load(w)
  <2>1. /\ UNCHANGED <<status, attempts, results, queue, submitting, held>>
        /\ pc[w] = "load" /\ status[j] = "queued" /\ j \in Jobs
    BY <1>3 DEF Load, storeVars, queueVars, RowMatches, HoldsAJob, Holding
  <2>2. /\ pc' = [pc EXCEPT ![w] = "claim"]
        /\ sess'[w].status = status[j] /\ sess'[w].attempts = attempts[j]
    BY <1>3, <2>1 DEF Load, Goto
  <2>3. OneMessage'
    BY <2>1, <2>2, <1>0, MessageFrame DEF HasMessage, InHand
  <2>4. RowMatches'
    BY <2>1, <2>2, <1>0, RowFrame
  <2>5. QED
    BY <2>1, <2>3, <2>4 DEF MsgRowInv, AttemptsMatch
<1>4. CASE Claim(w)
  <2>1. /\ pc[w] = "claim" /\ j \in Jobs /\ HasMessage(w, j)
        /\ status[j] = "queued" /\ sess[w].attempts = attempts[j]
    BY <1>4 DEF Claim, RowMatches, HoldsAJob, Holding, HasMessage, InHand
  <2>2. /\ UNCHANGED <<results, queue, submitting, held>>
        /\ pc' = [pc EXCEPT ![w] = "run"]
        /\ status' = [status EXCEPT ![j] = "running"]
        /\ attempts' = [attempts EXCEPT ![j] = attempts[j] + 1]
        /\ sess'[w].status = "running" /\ sess'[w].attempts = attempts[j] + 1
    BY <1>4, <2>1 DEF Claim, transition, increment_attempt, Goto, queueVars
  <2>3. OneMessage'
    BY <2>1, <2>2, <1>0, MessageFrame DEF HasMessage, InHand
  <2>4. j \notin results
    BY <2>1 DEF RowMatches
  <2>5. RowMatches'
    BY ZenonT(30), <2>1, <2>2, <2>4, <1>0, RowFrame
  <2>6. AttemptsMatch'
    <3>1. /\ status'[j] = "running" /\ attempts'[j] = attempts[j] + 1
          /\ \A k \in Jobs \ {j} : status'[k] = status[k] /\ attempts'[k] = attempts[k]
      BY <2>1, <2>2
    <3>2. attempts[j] < MaxAttempts[j] /\ attempts[j] \in Nat
      BY <2>1 DEF AttemptsMatch
    <3>3. attempts'[j] <= MaxAttempts[j]
      BY <2>1, <3>1, <3>2, PoliciesArePositive
    <3>4. QED
      BY <3>1, <3>3 DEF AttemptsMatch
  <2>7. QED
    BY <2>3, <2>5, <2>6 DEF MsgRowInv
<1>5. CASE Discard(w)
  <2>1. pc[w] = "claim" /\ ~ ensure_transition(sess[w].status, "running")
    BY <1>5 DEF Discard
  <2>2. sess[w].status = "queued"
    BY <2>1 DEF RowMatches
  <2>3. QED
    BY <2>1, <2>2, QueuedMayRun
<1>6. CASE InsertConflict(w)
  BY <1>6 DEF InsertConflict, RowMatches
<1>7. CASE ProviderDisabled(w) \/ AckDelivery(w) \/ DlqRemove(w) \/ DlqPush(w)
  <2>1. UNCHANGED <<queue, submitting, status, attempts, results>>
    BY <1>7 DEF ProviderDisabled, AckDelivery, DlqRemove, DlqPush, ack, dlq_push, storeVars, queueVars
  <2>2. pc'[w] \notin InHand
    BY <1>7 DEF ProviderDisabled, AckDelivery, DlqRemove, DlqPush, Goto, Release, InHand
  <2>3. QED
    BY <1>0, <2>1, <2>2, CalmQuietStep
<1>8. CASE Succeed(w) \/ FailRetry(w) \/ FailFinal(w)
  <2>1. /\ pc[w] \in {"run", "insert"} /\ j \in Jobs /\ HasMessage(w, j)
        /\ status[j] = "running" /\ sess[w].attempts = attempts[j]
        /\ j \notin results
    BY <1>8 DEF Succeed, FailRetry, FailFinal, RowMatches, HoldsAJob, Holding, HasMessage, InHand
  <2>2. /\ UNCHANGED <<attempts, queue, submitting, held, sess>>
        /\ \/ /\ status' = [status EXCEPT ![j] = "succeeded"] /\ results' = results \cup {j}
              /\ pc' = [pc EXCEPT ![w] = "ack"]
           \/ /\ status' = [status EXCEPT ![j] = "queued"] /\ results' = results
              /\ attempts[j] < MaxAttempts[j] /\ pc' = [pc EXCEPT ![w] = "requeue"]
           \/ /\ status' = [status EXCEPT ![j] = "failed"] /\ results' = results
              /\ attempts[j] >= MaxAttempts[j] /\ pc' = [pc EXCEPT ![w] = "dlq_rem"]
    BY <1>8, <2>1 DEF Succeed, FailRetry, FailFinal, transition, requeue_row, Goto, queueVars
  <2>3. OneMessage'
    BY <2>1, <2>2, <1>0, MessageFrame DEF HasMessage, InHand
  <2>4. RowMatches'
    <3>1. \A k \in Jobs \ {j} : status'[k] = status[k] /\ (k \in results' => k \in results)
      BY <2>1, <2>2
    <3>2. /\ j \in results' => status'[j] = "succeeded"
          /\ pc'[w] \in {"ack", "requeue", "dlq_rem"} /\ held'[w] = j
          /\ pc'[w] = "requeue" => status'[j] = "queued"
      BY <2>1, <2>2
    <3>3. \A k \in Jobs :
            \/ HasMessage(w, k) /\ (k \in results' => status'[k] = "succeeded")
            \/ /\ status'[k] = status[k] /\ attempts'[k] = attempts[k]
               /\ k \in results' => k \in results
      BY <2>1, <2>2, <3>1, <3>2
    <3>4. results' \subseteq Jobs /\ UNCHANGED <<queue, submitting>>
      BY <2>1, <2>2
    <3>5. QED
      BY <3>2, <3>3, <3>4, <1>0, RowFrame
  <2>5. AttemptsMatch'
    <3>1. \A k \in Jobs \ {j} : status'[k] = status[k]
      BY <2>1, <2>2
    <3>2. attempts[j] <= MaxAttempts[j] /\ attempts[j] \in Nat
      BY <2>1 DEF AttemptsMatch
    <3>3. \/ status'[j] = "succeeded"
          \/ status'[j] = "queued" /\ attempts[j] < MaxAttempts[j]
          \/ status'[j] = "failed" /\ attempts[j] >= MaxAttempts[j]
      BY <2>1, <2>2
    <3>4. QED
      BY <2>1, <2>2, <3>1, <3>2, <3>3, PoliciesArePositive DEF AttemptsMatch
  <2>6. QED
    BY <2>3, <2>4, <2>5 DEF MsgRowInv
<1>9. CASE RequeuePush(w)
  <2>1. /\ pc[w] = "requeue" /\ j \in Jobs /\ HasMessage(w, j) /\ status[j] = "queued"
        /\ enqueue_job(j) /\ pc' = [pc EXCEPT ![w] = "ack"]
        /\ UNCHANGED <<status, attempts, results, submitting, held, sess>>
    BY <1>9 DEF RequeuePush, RowMatches, HoldsAJob, Holding, HasMessage, InHand, Goto, storeVars
  <2>2. ~ Queued(j) /\ j \notin submitting /\ \A v \in Workers \ {w} : ~ HasMessage(v, j)
    BY <2>1 DEF OneMessage
  <2>3. Distinct' /\ \A k : Queued(k)' <=> (Queued(k) \/ k = j)
    BY <2>1, <2>2, EnqueueAdds, EnqueueStaysDistinct DEF OneMessage
  <2>4. \A v \in Workers, k \in Jobs : HasMessage(v, k)' => HasMessage(v, k) /\ v # w
    BY <2>1 DEF HasMessage, InHand
  <2>5. OneMessage'
    BY <2>1, <2>2, <2>3, <2>4 DEF OneMessage
  <2>6. RowMatches'
    BY <2>1, <2>3 DEF RowMatches
  <2>7. QED
    BY <2>1, <2>5, <2>6 DEF MsgRowInv, AttemptsMatch
<1>10. QED
  BY <1>1, <1>2, <1>3, <1>4, <1>5, <1>6, <1>7, <1>8, <1>9 DEF Process

LEMMA CalmOther ==
  ASSUME Calm,
         \/ \E w \in Workers : Escapes(w) \/ Crash(w) \/ Stop(w)
         \/ \E k \in Jobs : RowLapses(k) \/ DeliveryLapses(k)
         \/ UNCHANGED vars,
         lapses' = 0
  PROVE  MsgRowInv'
<1> USE DEF Calm, CalmInv, TypeInv, TypeOK, StoreTypeOK, QueueTypeOK
<1>1. ASSUME NEW w \in Workers, Escapes(w) \/ Crash(w) \/ Stop(w) PROVE MsgRowInv'
  <2>1. UNCHANGED <<queue, submitting, status, attempts, results>>
    BY <1>1 DEF Escapes, Crash, Stop, storeVars, queueVars
  <2>2. pc'[w] \notin InHand
    BY <1>1 DEF Escapes, Crash, Stop, Forget, Goto, Release, InHand
  <2>3. \A v \in Workers \ {w} : pc'[v] = pc[v] /\ held'[v] = held[v] /\ sess'[v] = sess[v]
    BY <1>1 DEF Escapes, Crash, Stop, Forget, Goto, Release, Hold
  <2>4. QED
    BY <2>1, <2>2, <2>3, CalmQuietStep
<1>2. CASE \E k \in Jobs : RowLapses(k) \/ DeliveryLapses(k)
  BY <1>2 DEF RowLapses, DeliveryLapses, Lapse
<1>3. CASE UNCHANGED vars
  <2>1. UNCHANGED <<queue, submitting, status, attempts, results, pc, held, sess>>
    BY <1>3 DEF vars, storeVars, queueVars, workerVars
  <2>2. /\ \A k : Queued(k)' <=> Queued(k)
        /\ \A w \in Workers, k \in Jobs : HasMessage(w, k)' <=> HasMessage(w, k)
        /\ Distinct' <=> Distinct
    BY <2>1, SameQueue DEF HasMessage, Distinct
  <2>3. QED
    BY <2>1, <2>2 DEF MsgRowInv, OneMessage, RowMatches, AttemptsMatch
<1>4. QED
  BY <1>1, <1>2, <1>3

LEMMA CalmStep == TypeInv /\ CommitInv /\ CalmInv /\ [Next]_vars => CalmInv'
<1> SUFFICES ASSUME TypeInv, CommitInv, CalmInv, [Next]_vars, lapses' = 0
             PROVE  MsgRowInv'
  BY QuietStep DEF CalmInv, MsgRowInv, OneMessage, RowMatches, AttemptsMatch
<1>1. Calm
  BY LapsesOnlyGrow DEF Calm
<1>2. ASSUME NEW w \in Workers, WorkerStep(w) PROVE MsgRowInv'
  <2>1. CASE StartUp(w) \/ Reap(w)
    <3>1. /\ UNCHANGED <<queue, submitting, status, attempts, results, held, sess>>
          /\ pc'[w] \notin InHand /\ \A v \in Workers \ {w} : pc'[v] = pc[v]
      BY <1>1, <2>1, CalmSweep
    <3>2. QED
      BY <1>1, <3>1, CalmQuietStep
  <2>2. QED
    BY <1>1, <1>2, <2>1, CalmProcess DEF WorkerStep
<1>3. QED
  BY <1>1, <1>2, CalmSubmit, CalmOther DEF Next

-----------------------------------------------------------------------------
(* What follows.                                                             *)

LEMMA CommitHolds == Spec => []CommitInv
BY CommitCorrect

LEMMA TypesHold == Spec => []TypeInv
BY TypeCorrect DEF TypeInv

LEMMA CalmHolds == Spec => []CalmInv
BY CalmInit, CalmStep, TypesHold, CommitHolds, PTL DEF Spec

\* Whatever crashes, a job is executed by one worker at a time as long as no
\* row and no delivery outlives its timeout.
THEOREM ExecutionIsExclusive == Spec => []ExclusiveExecution
<1>1. TypeInv /\ CalmInv => ExclusiveExecution
  BY DEF CalmInv, OneMessage, ExclusiveExecution, Executing, HasMessage, InHand
<1>2. QED
  BY <1>1, TypesHold, CalmHolds, PTL

-----------------------------------------------------------------------------
(* The refinement: every step of the pipeline is a step of the life cycle of *)
(* one job, or changes nothing a client can see.                             *)

LEMMA FollowsInit == Init => Lifecycle!Init
BY DEF Init, StoreInit, Lifecycle!Init

LEMMA FollowsStep ==
  ASSUME Calm, [Next]_vars
  PROVE  [Lifecycle!Next]_<<status, attempts>>
<1> USE DEF Calm, CalmInv, TypeInv, TypeOK, StoreTypeOK,
            Lifecycle!Next, Lifecycle!Progress, Lifecycle!Become
<1>1. ASSUME NEW j \in Jobs, SubmitCommit(j) PROVE Lifecycle!Submit(j)
  BY <1>1 DEF SubmitCommit, transition, Lifecycle!Submit
<1>2. ASSUME NEW w \in Workers, Claim(w) PROVE Lifecycle!Run(held[w]) /\ held[w] \in Jobs
  <2>1. /\ pc[w] = "claim" /\ held[w] \in Jobs
        /\ status[held[w]] = "queued" /\ sess[w].attempts = attempts[held[w]]
    BY <1>2 DEF Claim, RowMatches, HoldsAJob, Holding
  <2>2. QED
    BY <1>2, <2>1 DEF Claim, transition, increment_attempt, Lifecycle!Run
<1>3. ASSUME NEW w \in Workers, Succeed(w) \/ FailRetry(w) \/ FailFinal(w)
      PROVE  Lifecycle!Progress(held[w]) /\ held[w] \in Jobs
  <2> DEFINE j == held[w]
  <2>1. /\ pc[w] \in {"run", "insert"} /\ j \in Jobs
        /\ status[j] = "running" /\ sess[w].attempts = attempts[j]
        /\ attempts[j] <= MaxAttempts[j]
    BY <1>3 DEF Succeed, FailRetry, FailFinal, RowMatches, AttemptsMatch, HoldsAJob, Holding
  <2>2. CASE Succeed(w)
    BY <2>1, <2>2 DEF Succeed, transition, Lifecycle!Succeed
  <2>3. CASE FailRetry(w)
    BY <2>1, <2>3 DEF FailRetry, requeue_row, transition, Lifecycle!Retry
  <2>4. CASE FailFinal(w)
    <3>1. attempts[j] >= MaxAttempts[j] /\ attempts[j] \in Nat /\ MaxAttempts[j] \in Nat
      BY <2>1, <2>4, PoliciesArePositive DEF FailFinal
    <3>2. attempts[j] = MaxAttempts[j]
      <4>1. \A a, b \in Nat : a <= b /\ a >= b => a = b
        OBVIOUS
      <4>2. QED
        BY <2>1, <3>1, <4>1
    <3>3. QED
      BY <2>1, <2>4, <3>2 DEF FailFinal, transition, Lifecycle!GiveUp
  <2>5. QED
    BY <1>3, <2>1, <2>2, <2>3, <2>4
<1>4. ASSUME NEW w \in Workers, StartUp(w) \/ Reap(w) PROVE UNCHANGED <<status, attempts>>
  BY <1>4, CalmSweep
<1>5. ASSUME NEW w \in Workers, Process(w),
             ~ Claim(w), ~ Succeed(w), ~ FailRetry(w), ~ FailFinal(w)
      PROVE  UNCHANGED <<status, attempts>>
  BY <1>5 DEF Process, Dequeue, Track, Load, Discard, ProviderDisabled, RunReturns, InsertConflict,
     RequeuePush, AckDelivery, DlqRemove, DlqPush, storeVars
<1>6. ASSUME NEW w \in Workers, Escapes(w) \/ Crash(w) \/ Stop(w) PROVE UNCHANGED <<status, attempts>>
  BY <1>6 DEF Escapes, Crash, Stop, storeVars
<1>7. ASSUME NEW j \in Jobs, SubmitEnqueue(j) \/ SubmitDies(j) \/ RowLapses(j) \/ DeliveryLapses(j)
      PROVE  UNCHANGED <<status, attempts>>
  BY <1>7 DEF SubmitEnqueue, SubmitDies, RowLapses, DeliveryLapses, RowAges, storeVars
<1>8. CASE UNCHANGED vars
  BY <1>8 DEF vars, storeVars
<1>9. QED
  BY <1>1, <1>2, <1>3, <1>4, <1>5, <1>6, <1>7, <1>8 DEF Next, WorkerStep

\* Every result stays and a settled row is final while nothing is old.
LEMMA SettledRowStays ==
  ASSUME Calm, [Next]_vars, NEW j \in Jobs
  PROVE  /\ j \in results => j \in results'
         /\ status[j] \in Settled => status'[j] = status[j] /\ attempts'[j] = attempts[j]
<1>1. results \subseteq results'
  BY DEF Next, WorkerStep, StartUp, Reap, Process, SubmitCommit, SubmitEnqueue, SubmitDies, Start,
     RecoverCommit, RecoverPush, BootReapScan, OrphanScan, OrphanPush, Ready, BlpopTimeout, ReapScan,
     ReapRemove, ReapPush, ReapDone, Dequeue, Track, Load, Claim, Discard, ProviderDisabled,
     RunReturns, Succeed, InsertConflict, FailRetry, FailFinal, RequeuePush, AckDelivery, DlqRemove,
     DlqPush, Escapes, Crash, Stop, RowLapses, DeliveryLapses, RowAges, vars, storeVars
<1>2. ASSUME NEW k \in Jobs, Lifecycle!Submit(k) \/ Lifecycle!Progress(k), status[j] \in Settled
      PROVE  status'[j] = status[j] /\ attempts'[j] = attempts[j]
  <2>1. k # j
    BY <1>2 DEF Settled, Lifecycle!Submit, Lifecycle!Progress, Lifecycle!Run, Lifecycle!Succeed,
       Lifecycle!Retry, Lifecycle!GiveUp
  <2>2. QED
    BY <1>2, <2>1 DEF Calm, TypeInv, TypeOK, StoreTypeOK, Lifecycle!Submit, Lifecycle!Progress,
       Lifecycle!Run, Lifecycle!Succeed, Lifecycle!Retry, Lifecycle!GiveUp, Lifecycle!Become
<1>3. QED
  BY <1>1, <1>2, FollowsStep DEF Lifecycle!Next

\* Whatever crashes, the rows start and move as the life cycle of a job
\* prescribes, as long as no row and no delivery outlives its timeout.
THEOREM PipelineFollowsLifecycle == Spec => Lifecycle!Init /\ FollowsLifecycle
<1>1. TypeInv /\ CommitInv /\ CalmInv /\ [Next]_vars
        => [lapses = 0 => Lifecycle!Next]_<<status, attempts>>
  BY FollowsStep DEF Calm
<1>2. QED
  BY <1>1, FollowsInit, TypesHold, CommitHolds, CalmHolds, PTL DEF Spec, FollowsLifecycle

\* With no timeout ever outlived, this is the safety half of the abstract
\* specification itself.
THEOREM PipelineImplementsLifecycle ==
  ASSUME MaxLapses = 0
  PROVE  Spec => Lifecycle!Init /\ [][Lifecycle!Next]_<<status, attempts>>
<1>1. TypeInv => lapses = 0
  BY DEF TypeInv, TypeOK
<1>2. TypeInv /\ CommitInv /\ CalmInv /\ [Next]_vars => [Lifecycle!Next]_<<status, attempts>>
  BY <1>1, FollowsStep DEF Calm
<1>3. QED
  BY <1>2, FollowsInit, TypesHold, CommitHolds, CalmHolds, PTL DEF Spec

-----------------------------------------------------------------------------
(* A client that waits.  Its steps change nothing in the pipeline.           *)

WatchInv == TypeInv /\ CommitInv /\ CalmInv

LEMMA WatchKeeps == WatchInv /\ [WatchNext]_watchVars => WatchInv'
<1>1. [WatchNext]_watchVars => [Next]_vars
  BY DEF WatchNext, watchVars
<1>2. QED
  BY <1>1, TypeStep, CommitStep, CalmStep DEF WatchInv

\* A settled row is never left while nothing is old, and it was settled with
\* all that belongs to it.
LEMMA ToldStep ==
  WatchInv /\ ToldOutcomeStands /\ [WatchNext]_watchVars => ToldOutcomeStands'
<1> SUFFICES ASSUME WatchInv, ToldOutcomeStands, [WatchNext]_watchVars, lapses' = 0
             PROVE  ToldOutcomeStands'
  BY DEF ToldOutcomeStands
<1> DEFINE j == WatchedJob
<1>1. [Next]_vars
  BY DEF WatchNext, watchVars
<1>2. Calm
  BY <1>1, LapsesOnlyGrow DEF Calm, WatchInv
<1>3. CASE UNCHANGED client
  <2>1. status[j] = "succeeded" => status'[j] = "succeeded" /\ (j \in results => j \in results')
    BY <1>1, <1>2, SettledRowStays, WatchedJobAssumption DEF Settled
  <2>2. status[j] = "failed" => status'[j] = "failed" /\ attempts'[j] = attempts[j]
    BY <1>1, <1>2, SettledRowStays, WatchedJobAssumption DEF Settled
  <2>3. QED
    BY <1>2, <1>3, <2>1, <2>2 DEF Calm, ToldOutcomeStands
<1>4. CASE (Watch \/ Client \/ GiveUp) /\ UNCHANGED vars
  <2>1. UNCHANGED <<status, attempts, results, lapses>>
    BY <1>4 DEF vars, storeVars, bounds
  <2>2. status[j] = "succeeded" => j \in results
    BY <1>2, WatchedJobAssumption DEF Calm, CommitInv, SucceededHasResult
  <2>3. status[j] = "failed" => attempts[j] = MaxAttempts[j]
    BY <1>2, WatchedJobAssumption DEF Calm, CalmInv, AttemptsMatch
  <2>4. QED
    BY <1>2, <1>4, <2>1, <2>2, <2>3
    DEF Calm, ToldOutcomeStands, Watch, Client, GiveUp, SeeSucceeded, SeeFailed, GetResults
<1>5. QED
  BY <1>3, <1>4 DEF WatchNext, watchVars

\* What a waiting client is told stays true as long as nothing outlives its
\* timeout, whatever crashes before and after it was told.
THEOREM ToldOutcomesStand == WatchSpec => []ToldOutcomeStands
<1>1. WatchInit => WatchInv
  BY TypeInit, CommitInit, CalmInit DEF WatchInit, WatchInv
<1>2. WatchInit => ToldOutcomeStands
  BY DEF WatchInit, ToldOutcomeStands
<1>3. QED
  BY <1>1, <1>2, WatchKeeps, ToldStep, PTL DEF WatchSpec
=============================================================================

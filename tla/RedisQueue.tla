------------------------------ MODULE RedisQueue ------------------------------
(***************************************************************************)
(* The Redis keys of queue/redis_queue.py and one operator per Redis       *)
(* command it issues.  Redis runs one command at a time, so a command is   *)
(* atomic; a method that issues two commands is two operators, and the     *)
(* caller may be interrupted between them.                                 *)
(*                                                                         *)
(* A message is the JSON of a job id and its correlation id.  Every        *)
(* delivery of a job (first, retry, recovery) carries the same text, so a  *)
(* message is the job it names, and the sorted set cannot tell two         *)
(* deliveries of one job apart.                                            *)
(***************************************************************************)
EXTENDS Naturals, Sequences

VARIABLES
  queue,        \* the list quantum:jobs, head first
  processing,   \* members of the sorted set quantum:jobs.processing
  expired,      \* those whose score is older than the visibility timeout
  dlq           \* the list quantum:jobs.dlq

queueVars == <<queue, processing, expired, dlq>>

QueueTypeOK(Messages) ==
  /\ queue \in Seq(Messages)
  /\ processing \subseteq Messages
  /\ expired \subseteq processing
  /\ dlq \in Seq(Messages)

QueueInit ==
  /\ queue = <<>>
  /\ processing = {}
  /\ expired = {}
  /\ dlq = <<>>

Queued(m) == \E i \in DOMAIN queue : queue[i] = m
DeadLettered(m) == \E i \in DOMAIN dlq : dlq[i] = m

\* RPUSH of enqueue_job.
enqueue_job(m) ==
  /\ queue' = Append(queue, m)
  /\ UNCHANGED <<processing, expired, dlq>>

\* BLPOP of dequeue: the message leaves the list and is tracked nowhere yet.
dequeue_pop(m) ==
  /\ queue # <<>>
  /\ m = Head(queue)
  /\ queue' = Tail(queue)
  /\ UNCHANGED <<processing, expired, dlq>>

\* ZADD of dequeue: a member already present only gets a fresh score.
dequeue_track(m) ==
  /\ processing' = processing \cup {m}
  /\ expired' = expired \ {m}
  /\ UNCHANGED <<queue, dlq>>

\* ZREM, as ack, move_to_dlq and requeue_timed_out issue it: no error when
\* the member is already gone.
ack(m) ==
  /\ processing' = processing \ {m}
  /\ expired' = expired \ {m}
  /\ UNCHANGED <<queue, dlq>>

\* Second command of move_to_dlq.
dlq_push(m) ==
  /\ dlq' = Append(dlq, m)
  /\ UNCHANGED <<queue, processing, expired>>

\* A member's score falls behind time.time() - visibility_timeout_seconds.
VisibilityTimeout(m) ==
  /\ m \in processing \ expired
  /\ expired' = expired \cup {m}
  /\ UNCHANGED <<queue, processing, dlq>>

=============================================================================

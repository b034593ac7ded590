----------------------------- MODULE JobSubmission -----------------------------
(***************************************************************************)
(* Concurrent POST /v1/experiments requests with an Idempotency-Key, as    *)
(* JobService.submit serves them: look the key up, insert experiment and   *)
(* job, commit, push, read back, answer.  jobs.idempotency_key is UNIQUE,  *)
(* so PostgreSQL makes a second INSERT of a key wait for the transaction   *)
(* that inserted it first and fail once that one has committed.  A client  *)
(* that got no answer sends its request again with the same key.  The key  *)
(* "" is never looked up and always inserted: once it is taken, every      *)
(* request that sends it fails.                                            *)
(***************************************************************************)
EXTENDS Naturals

CONSTANTS
  Clients,
  Keys, NoKey,
  EmptyKey,          \* the key "", which submit takes for none and stores
  idempotency_key,   \* the key each client sends, or NoKey
  MaxTries,          \* bound on the requests of a client
  MaxFaults          \* bound on failed calls and dying API processes

ASSUME KeysAssumption == NoKey \notin Keys /\ idempotency_key \in [Clients -> Keys \cup {NoKey}]
ASSUME EmptyKeyAssumption == EmptyKey # NoKey
ASSUME TriesAssumption == MaxTries \in Nat /\ MaxFaults \in Nat

\* The row a request inserts: the client and the number of its request.
Rows == Clients \X (1 .. MaxTries)
KeyOf(row) == idempotency_key[row[1]]
SameKey(r, s) == KeyOf(r) = KeyOf(s) /\ KeyOf(r) # NoKey

VARIABLES
  jobs,     \* committed rows of jobs (each with its experiment)
  pushed,   \* rows whose message was pushed to the queue
  pc,       \* where the request of each client is
  tries,    \* requests each client has sent
  answer,   \* the rows named by the answers each client received
  faults

vars == <<jobs, pushed, pc, tries, answer, faults>>

Steps == {"idle", "lookup", "insert", "commit", "push", "readback", "error"}

TypeOK ==
  /\ jobs \subseteq Rows /\ pushed \subseteq jobs
  /\ pc \in [Clients -> Steps]
  /\ tries \in [Clients -> 0 .. MaxTries]
  /\ answer \in [Clients -> SUBSET Rows]
  /\ faults \in 0 .. MaxFaults

Init ==
  /\ jobs = {} /\ pushed = {}
  /\ pc = [c \in Clients |-> "idle"]
  /\ tries = [c \in Clients |-> 0]
  /\ answer = [c \in Clients |-> {}]
  /\ faults = 0

Goto(c, step) == pc' = [pc EXCEPT ![c] = step]
Row(c) == <<c, tries[c]>>
Answer(c, row) ==
  /\ answer' = [answer EXCEPT ![c] = @ \cup {row}]
  /\ Goto(c, "idle")

-----------------------------------------------------------------------------
\* A first request, a repeated one, or a retry after an error.
Request(c) ==
  /\ pc[c] \in {"idle", "error"} /\ tries[c] < MaxTries
  /\ tries' = [tries EXCEPT ![c] = @ + 1]
  /\ Goto(c, "lookup")
  /\ UNCHANGED <<jobs, pushed, answer, faults>>

\* submit looks only for a key that is not empty; the index takes "" for one.
SearchesKey(c) == idempotency_key[c] \notin {NoKey, EmptyKey}

\* Mutant: any job counts as the key's job.
MatchesAny(c) == IF idempotency_key[c] = NoKey THEN {} ELSE jobs

Matches(c) == {row \in jobs : SameKey(row, Row(c))}

\* get_by_idempotency_key: an existing job is the answer.
LookupHit(c) ==
  /\ pc[c] = "lookup" /\ SearchesKey(c)
  /\ \E row \in Matches(c) : Answer(c, row)
  /\ UNCHANGED <<jobs, pushed, tries, faults>>

LookupMiss(c) ==
  /\ pc[c] = "lookup" /\ (SearchesKey(c) => Matches(c) = {})
  /\ Goto(c, "insert")
  /\ UNCHANGED <<jobs, pushed, tries, answer, faults>>

\* Mutant: the lock outlives the commit.
KeyIsTaken(c) ==
  \E d \in Clients \ {c} : (pc[d] = "commit" \/ Row(d) \in jobs) /\ SameKey(Row(d), Row(c))

\* An open transaction holds an uncommitted row with the key of c's row.
KeyIsLocked(c) == \E d \in Clients \ {c} : pc[d] = "commit" /\ SameKey(Row(d), Row(c))

\* Mutant: an open row is not waited for.
InsertUnlocked(c) ==
  /\ pc[c] = "insert"
  /\ IF Matches(c) = {} THEN Goto(c, "commit") ELSE Goto(c, "error")
  /\ UNCHANGED <<jobs, pushed, tries, answer, faults>>

\* experiments.create and jobs.create with their flushes.  A duplicate key
\* raises IntegrityError, which rolls the experiment back too: a 500.
Insert(c) ==
  /\ pc[c] = "insert" /\ ~ KeyIsLocked(c)
  /\ IF Matches(c) = {} THEN Goto(c, "commit") ELSE Goto(c, "error")
  /\ UNCHANGED <<jobs, pushed, tries, answer, faults>>

\* transition to QUEUED, audit event, commit
Commit(c) ==
  /\ pc[c] = "commit"
  /\ jobs' = jobs \cup {Row(c)}
  /\ Goto(c, "push")
  /\ UNCHANGED <<pushed, tries, answer, faults>>

\* Mutant: submit answers without pushing.
PushSkipped(c) ==
  /\ pc[c] = "push"
  /\ Goto(c, "readback")
  /\ UNCHANGED <<jobs, pushed, tries, answer, faults>>

Push(c) ==
  /\ pc[c] = "push"
  /\ pushed' = pushed \cup {Row(c)}
  /\ Goto(c, "readback")
  /\ UNCHANGED <<jobs, tries, answer, faults>>

\* jobs.get after the push, then the response
ReadBack(c) ==
  /\ pc[c] = "readback"
  /\ IF Row(c) \in jobs THEN Answer(c, Row(c)) ELSE Goto(c, "error") /\ UNCHANGED answer
  /\ UNCHANGED <<jobs, pushed, tries, faults>>

\* The API process dies or one of its calls fails: what is not committed is
\* rolled back, the client gets an error or nothing.
Fail(c) ==
  /\ pc[c] \notin {"idle", "error"}
  /\ faults < MaxFaults
  /\ faults' = faults + 1
  /\ Goto(c, "error")
  /\ UNCHANGED <<jobs, pushed, tries, answer>>

Serve(c) ==
  \/ LookupHit(c) \/ LookupMiss(c) \/ Insert(c)
  \/ Commit(c) \/ Push(c) \/ ReadBack(c)

Next == \E c \in Clients : Request(c) \/ Serve(c) \/ Fail(c)

Spec == Init /\ [][Next]_vars

\* The event loop and the database go on with a request they have begun.
FairSpec == Spec /\ \A c \in Clients : WF_vars(Serve(c))

-----------------------------------------------------------------------------
\* However requests with one key overlap, fail and are retried, at most one
\* job is created for the key.
OneJobPerKey == \A r, s \in jobs : SameKey(r, s) => r = s

\* Every answer names a committed job, and all the answers given for a key,
\* to any client in any of its tries, name the same one.
AnswersAgree ==
  \A c, d \in Clients : \A r \in answer[c], s \in answer[d] :
    /\ r \in jobs
    /\ idempotency_key[c] = idempotency_key[d] /\ idempotency_key[c] # NoKey => r = s

\* A client is only told of a job whose message is in the queue or about to
\* be pushed by the request that created it, unless that request died.
AnsweredJobIsQueued ==
  faults = 0 =>
    \A c \in Clients : \A r \in answer[c] :
      r \in pushed \/ (pc[r[1]] = "push" /\ r = Row(r[1]))

\* A request never hangs on the key lock of another.
EveryRequestEnds == \A c \in Clients : pc[c] = "lookup" ~> pc[c] \in {"idle", "error"}
=============================================================================

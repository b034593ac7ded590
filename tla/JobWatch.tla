------------------------------- MODULE JobWatch -------------------------------
(***************************************************************************)
(* A client that waits for the job pipeline: QCPClient.wait_for_result of  *)
(* the SDK, which `qcp experiment run --wait` calls.  Each poll is a GET   *)
(* that reads one committed row; the result is read by a second GET, and   *)
(* anything may happen between the two.                                    *)
(***************************************************************************)
EXTENDS JobPipelineProperties

CONSTANT WatchedJob

ASSUME WatchedJobAssumption == WatchedJob \in Jobs

VARIABLE client   \* where wait_for_result is, or how it ended

watchVars == <<vars, client>>

WatchInit == Init /\ client = "away"

-----------------------------------------------------------------------------
\* The job id is known from the answer to the submission.
Watch == client = "away" /\ status[WatchedJob] # "absent" /\ client' = "polling"

\* get_job says succeeded.
SeeSucceeded ==
  client = "polling" /\ status[WatchedJob] = "succeeded" /\ client' = "succeeded"

\* Mutant: a status that JobState does not have.
SeeError == client = "polling" /\ status[WatchedJob] = "error" /\ client' = "raised"

\* get_job says failed: RuntimeError.
SeeFailed == client = "polling" /\ status[WatchedJob] = "failed" /\ client' = "raised"

\* get_results; a 404 is None, and the loop polls on.
GetResults ==
  /\ client = "succeeded"
  /\ client' = IF WatchedJob \in results THEN "returned" ELSE "polling"

\* The deadline has passed or a request raised.  Polls that find the job
\* unfinished change nothing here.
GiveUp == client \in {"polling", "succeeded"} /\ client' = "gave_up"

Client == SeeSucceeded \/ SeeFailed \/ GetResults

WatchNext ==
  \/ Next /\ UNCHANGED client
  \/ (Watch \/ Client \/ GiveUp) /\ UNCHANGED vars

\* time.sleep ends: the client polls until it is answered or gives up.
WatchSpec == WatchInit /\ [][WatchNext]_watchVars /\ Fairness /\ WF_client(Client)

-----------------------------------------------------------------------------
\* What the client was told stays true while nothing outlives its timeout,
\* though status, result and attempts are read at different times: a job seen
\* as succeeded has a result to read and a job reported as failed had used its
\* attempts up.
ToldOutcomeStands ==
  lapses = 0 =>
    /\ client \in {"succeeded", "returned"} =>
         status[WatchedJob] = "succeeded" /\ WatchedJob \in results
    /\ client = "raised" =>
         /\ status[WatchedJob] = "failed"
         /\ attempts[WatchedJob] = MaxAttempts[WatchedJob]

\* A client that keeps waiting is answered: no job stays unfinished, and no
\* succeeded job keeps its result from the client.
WaiterIsAnswered == client = "polling" ~> client \in {"returned", "raised", "gave_up"}
=============================================================================

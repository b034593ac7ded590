---------------------------- MODULE JobStateMachine ----------------------------
(***************************************************************************)
(* The states of a job row and the transitions domain/state_machine.py     *)
(* allows.  Every write of jobs.status goes through ensure_transition, but *)
(* the state it checks is the one held by the caller's session object, so  *)
(* the operators here take that state as a parameter.                      *)
(***************************************************************************)

JobState == {"submitted", "queued", "running", "succeeded", "failed"}

ALLOWED_TRANSITIONS ==
  [ submitted |-> {"queued", "failed"},
    queued    |-> {"running", "failed"},
    running   |-> {"succeeded", "failed"},
    succeeded |-> {},
    failed    |-> {"queued"} ]

\* ensure_transition raises InvalidStateTransition exactly when this is false.
ensure_transition(current, next) ==
  /\ current \in DOMAIN ALLOWED_TRANSITIONS
  /\ next \in ALLOWED_TRANSITIONS[current]

=============================================================================

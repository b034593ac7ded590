---------------------------- MODULE WorkflowEngine ----------------------------
(***************************************************************************)
(* POST /v1/workflows: validate a definition, store it, read it back, sort *)
(* its steps, run them and commit.  Everything happens in one transaction  *)
(* that the route commits at the end, so another client sees nothing or    *)
(* the finished run.  The sort is recursive in the code; here its calls    *)
(* are on a stack, one step of the model per dependency looked at.  A step *)
(* records a result; two actions also record how many were there before.   *)
(***************************************************************************)
EXTENDS Naturals, SequencesExt

CONSTANTS
  StepNames,
  KNOWN_ACTIONS, OtherActions,
  Definitions   \* the step lists clients may send

\* min_length=1; the names a step depends on are any the client writes
ASSUME DefinitionsAssumption ==
  /\ KNOWN_ACTIONS \cap OtherActions = {}
  /\ \A steps \in Definitions :
       /\ steps # <<>>
       /\ steps \in Seq([name : StepNames, action : KNOWN_ACTIONS \cup OtherActions,
                        depends_on : Seq(StepNames)])

VARIABLES
  request,      \* the steps in the request
  pc,
  workflow,     \* the row of workflows in the open transaction
  run,          \* the row of workflow_runs in the open transaction
  listed,       \* topological_sort: listed steps still to visit,
  calls,        \*   the calls of _visit, each a step and what it has to visit yet,
  visited,      \*   the names visited
  order,        \*   and the sorted steps, later those left to run
  results,      \* step_results of start_run, not in the row before its end
  committed     \* both rows as other sessions read them

sort == <<listed, calls, visited>>
vars == <<request, pc, workflow, run, sort, order, results, committed>>

NoDefinition == <<>>
NoRun == [state |-> "none", current_step |-> "none", step_results |-> <<>>]
Nothing == [workflow |-> NoDefinition, run |-> NoRun]

-----------------------------------------------------------------------------
Names(list) == {list[i].name : i \in DOMAIN list}

\* validate_workflow: actions and dependencies must be known.
Valid(list) ==
  \A i \in DOMAIN list :
    /\ list[i].action \in KNOWN_ACTIONS
    /\ ToSet(list[i].depends_on) \subseteq Names(list)

\* name_to_step: the last step of a name is the one that counts.
StepNamed(list, name) ==
  list[CHOOSE i \in DOMAIN list :
         /\ list[i].name = name
         /\ \A k \in DOMAIN list : list[k].name = name => k <= i]

\* Mutant: a visited name is visited again.
VisitAgain(stack, name) ==
  /\ calls' = Append(stack, StepNamed(workflow, name))
  /\ visited' = visited \cup {name}

\* _visit up to its loop: a name is marked before its dependencies are.
visit(stack, name) ==
  IF name \in visited
  THEN calls' = stack /\ UNCHANGED visited
  ELSE /\ calls' = Append(stack, StepNamed(workflow, name))
       /\ visited' = visited \cup {name}

-----------------------------------------------------------------------------
\* _execute_step: compare and optimise count the results before them.  An
\* action that is not implemented cannot pass the validation.
execute_step(step, prior) ==
  [name |-> step.name,
   counted |-> IF step.action \in {"compare", "optimise"} THEN Len(prior) ELSE 0]

\* update_run: what is None stays as it is.
update_run(state, current_step) ==
  [run EXCEPT !.state = state, !.current_step = current_step]

Init ==
  /\ request \in Definitions
  /\ pc = "received"
  /\ workflow = NoDefinition /\ run = NoRun
  /\ listed = <<>> /\ calls = <<>> /\ visited = {}
  /\ order = <<>> /\ results = <<>>
  /\ committed = Nothing

\* 422, nothing saved
Reject ==
  /\ pc = "received" /\ ~ Valid(request)
  /\ pc' = "rejected"
  /\ UNCHANGED <<request, workflow, run, sort, order, results, committed>>

\* create_workflow: save_definition
CreateWorkflow ==
  /\ pc = "received" /\ Valid(request)
  /\ workflow' = request
  /\ pc' = "saved"
  /\ UNCHANGED <<request, run, sort, order, results, committed>>

\* start_run up to the sort: get_definition and create_run
StartRun ==
  /\ pc = "saved"
  /\ run' = update_run("pending", "none")
  /\ listed' = workflow
  /\ pc' = "sorting"
  /\ UNCHANGED <<request, workflow, calls, visited, order, results, committed>>

sorting == pc = "sorting" /\ UNCHANGED <<request, pc, workflow, run, results, committed>>

\* topological_sort: the next of the listed steps is visited.
VisitListed ==
  /\ sorting
  /\ calls = <<>> /\ listed # <<>>
  /\ visit(calls, Head(listed).name)
  /\ listed' = Tail(listed)
  /\ UNCHANGED order

\* _visit: the next dependency of the innermost call is visited.
VisitDependency ==
  /\ sorting
  /\ calls # <<>> /\ Last(calls).depends_on # <<>>
  /\ visit([calls EXCEPT ![Len(calls)].depends_on = Tail(@)], Head(Last(calls).depends_on))
  /\ UNCHANGED <<listed, order>>

\* Mutant: a step is appended before all its dependencies were visited.
AppendEarly ==
  /\ sorting
  /\ calls # <<>>
  /\ order' = Append(order, StepNamed(workflow, Last(calls).name))
  /\ calls' = Front(calls)
  /\ UNCHANGED <<listed, visited>>

\* _visit: the step is appended after its dependencies, the call returns.
AppendStep ==
  /\ sorting
  /\ calls # <<>> /\ Last(calls).depends_on = <<>>
  /\ order' = Append(order, StepNamed(workflow, Last(calls).name))
  /\ calls' = Front(calls)
  /\ UNCHANGED <<listed, visited>>

\* the sort returns, the run moves to RUNNING
Sorted ==
  /\ pc = "sorting" /\ calls = <<>> /\ listed = <<>>
  /\ run' = update_run("running", run.current_step)
  /\ pc' = "running"
  /\ UNCHANGED <<request, workflow, sort, order, results, committed>>

\* Mutant: the run is committed after every step.
RunStepCommitted ==
  /\ pc = "running" /\ order # <<>>
  /\ run' = update_run("running", Head(order).name)
  /\ results' = Append(results, execute_step(Head(order), results))
  /\ committed' = [workflow |-> workflow, run |-> run']
  /\ order' = Tail(order)
  /\ UNCHANGED <<request, pc, workflow, sort>>

\* current_step is flushed, the step executes, its result is kept.
RunStep ==
  /\ pc = "running" /\ order # <<>>
  /\ run' = update_run("running", Head(order).name)
  /\ results' = Append(results, execute_step(Head(order), results))
  /\ order' = Tail(order)
  /\ UNCHANGED <<request, pc, workflow, sort, committed>>

\* SUCCEEDED and the results; the route answers with the row as it is now.
Finish ==
  /\ pc = "running" /\ order = <<>>
  /\ run' = [update_run("succeeded", run.current_step) EXCEPT !.step_results = results]
  /\ pc' = "finished"
  /\ UNCHANGED <<request, workflow, sort, order, results, committed>>

Commit ==
  /\ pc = "finished"
  /\ committed' = [workflow |-> workflow, run |-> run]
  /\ pc' = "answered"
  /\ UNCHANGED <<request, workflow, run, sort, order, results>>

\* The process dies or a database call fails: the transaction rolls back.
Fail ==
  /\ pc \notin {"answered", "rejected"}
  /\ pc' = "rejected"
  /\ workflow' = NoDefinition /\ run' = NoRun
  /\ listed' = <<>> /\ calls' = <<>> /\ visited' = {}
  /\ order' = <<>> /\ results' = <<>>
  /\ UNCHANGED <<request, committed>>

\* GET /v1/workflows/runs and /v1/workflows/runs/{id}: get_run and list_runs
\* join the run with its workflow's name.
get_run == committed.run
workflow_name == IF committed.workflow = NoDefinition THEN "unknown" ELSE "known"

Next ==
  \/ Reject \/ CreateWorkflow \/ StartRun
  \/ VisitListed \/ VisitDependency \/ AppendStep \/ Sorted
  \/ RunStep \/ Finish \/ Commit \/ Fail

Spec == Init /\ [][Next]_vars

-----------------------------------------------------------------------------
Needs(list, name) == ToSet(StepNamed(list, name).depends_on)

\* Reference: no cycle, that is, no set of names of which each needs another
\* of the set (or itself).
Acyclic(list) ==
  \A cycle \in SUBSET Names(list) \ {{}} :
    \E name \in cycle : Needs(list, name) \cap cycle = {}

\* A step ran after all it depends on, and a step that counts the results
\* before it has counted theirs.
DependenciesRanFirst ==
  \A i \in DOMAIN results :
    LET step == StepNamed(workflow, results[i].name)
        needed == Needs(workflow, results[i].name)
    IN /\ needed \subseteq Names(SubSeq(results, 1, i - 1))
       /\ step.action \in {"compare", "optimise"} => results[i].counted >= Cardinality(needed)

\* Dependencies run first in every definition without a cycle, in whatever
\* order its steps and their dependencies are listed.  Definitions with a
\* cycle are accepted, and there no order could be right.
AcyclicRunsInOrder ==
  Valid(request) /\ Acyclic(request) => DependenciesRanFirst

\* The sort recurses no deeper than there are names, though a definition may
\* have cycles and names that repeat: it always ends.
RecursionIsBounded == Len(calls) <= Cardinality(Names(workflow))

\* Every name of an accepted definition runs exactly once, cycles included,
\* and a run that succeeded left none out.
EachNameRunsOnce ==
  /\ Len(results) = Cardinality(Names(results))
  /\ run.state = "succeeded" => Names(run.step_results) = Names(request)

\* Another client never reads a run that is not finished or whose workflow it
\* cannot read: a crash in the middle leaves no run that is RUNNING for ever.
OnlyFinishedRunsAreVisible ==
  committed # Nothing =>
    /\ get_run.state = "succeeded"
    /\ Names(get_run.step_results) = Names(committed.workflow)
    /\ workflow_name # "unknown"
=============================================================================

--------------------------- MODULE MCWorkflowEngine ---------------------------
(* All lists of one to three steps over two or three names. *)
EXTENDS WorkflowEngine

DepLists(names) == {<<>>} \cup {<<x>> : x \in names} \cup
                   {d \in names \X names : d[1] # d[2]}

StepsOver(names, actions) ==
  [name : names, action : actions, depends_on : DepLists(names)]

\* Distinct names in listed order: every dependency graph on three nodes,
\* with every order of the dependency lists.
Graphs3 ==
  { <<[name |-> "a", action |-> "noop", depends_on |-> da],
      [name |-> "b", action |-> "noop", depends_on |-> db],
      [name |-> "c", action |-> "compare", depends_on |-> dc]>> :
    da, db, dc \in DepLists({"a", "b", "c"}) }

\* Two steps with any names, actions and dependencies.
AnyPair == [1 .. 2 -> StepsOver({"a", "b"}, {"noop", "run_circuit"})]

AllDefinitions == Graphs3 \cup AnyPair
ThreeNames == {"a", "b", "c"}
Known == {"noop", "simulate", "optimise", "hardware_run", "compare", "benchmark"}
Unknown == {"run_circuit"}
=============================================================================

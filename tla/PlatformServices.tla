---------------------------- MODULE PlatformServices ----------------------------
(***************************************************************************)
(* Cost governance and benchmarking side by side.  They share no table and *)
(* no process, so a behaviour takes the steps of one of them.              *)
(***************************************************************************)
EXTENDS CostGovernance, Benchmarking

VARIABLE service   \* which of the two the behaviour is about

serviceVars == <<costVars, benchVars, service>>

Init == CostInit /\ BenchInit /\ service \in {"costs", "benchmarks"}

Costs == service = "costs" /\ CostNext /\ UNCHANGED <<benchVars, service>>
Benchmarks == service = "benchmarks" /\ BenchNext /\ UNCHANGED <<costVars, service>>

Next == Costs \/ Benchmarks

\* The worker's loop goes on with whatever it awaits.
Worker == service = "benchmarks" /\ WorkerStep /\ UNCHANGED <<costVars, service>>

Spec == Init /\ [][Next]_serviceVars /\ WF_serviceVars(Worker)

-----------------------------------------------------------------------------
\* EveryProviderShown of the benchmark worker: a failed transaction or a
\* death does not outlive its cycle, and with fewer failures than cycles
\* every provider gets on the gauges unless the worker is told to stop.
MeasuredProvidersShown == service = "benchmarks" => EveryProviderShown
=============================================================================

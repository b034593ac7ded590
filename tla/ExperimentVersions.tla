-------------------------- MODULE ExperimentVersions --------------------------
(***************************************************************************)
(* The numbers of an experiment's versions: a SELECT of the highest one    *)
(* and an INSERT of the next, with no unique index and no lock in between. *)
(* A row is named by the call that inserts it.                             *)
(***************************************************************************)
EXTENDS Naturals, FiniteSets

CONSTANTS Calls, Experiments, NoExperiment

ASSUME ExperimentsAssumption == NoExperiment \notin Experiments

VARIABLES
  version,   \* the committed rows: [experiment, number], number 0 when absent
  max_ver    \* what a call has read

NoVersion == [experiment |-> NoExperiment, number |-> 0]

VersionsInit ==
  /\ version = [c \in Calls |-> NoVersion]
  /\ max_ver = [c \in Calls |-> 0]

Numbers(e) == { version[d].number : d \in { c \in Calls : version[c].experiment = e } }

\* Mutant: the rows are counted.
SelectCount(c, e) ==
  /\ max_ver' = [max_ver EXCEPT ![c] =
       Cardinality({ d \in Calls : version[d].experiment = e })]
  /\ UNCHANGED version

\* max_ver or 0
SelectMax(c, e) ==
  /\ \E n \in Numbers(e) \cup {0} :
       /\ \A k \in Numbers(e) : k <= n
       /\ max_ver' = [max_ver EXCEPT ![c] = n]
  /\ UNCHANGED version

\* Mutant: the first number is used again.
InsertSame(c, e) ==
  /\ version' = [version EXCEPT ![c] =
       [experiment |-> e, number |-> IF max_ver[c] = 0 THEN 1 ELSE max_ver[c]]]
  /\ UNCHANGED max_ver

\* The row and its commit.
Insert(c, e) ==
  /\ version' = [version EXCEPT ![c] = [experiment |-> e, number |-> max_ver[c] + 1]]
  /\ UNCHANGED max_ver
=============================================================================

----------------------------- MODULE CostGovernance -----------------------------
(***************************************************************************)
(* Budgets and cost records.  A caller asks check_budget whether a job     *)
(* fits, runs it, and calls record_cost, which inserts a cost record and   *)
(* adds the cost to a budget of the scope: SELECT, addition in Python,     *)
(* UPDATE, and the caller's commit.  The transactions are READ COMMITTED:  *)
(* a SELECT takes no lock and sees what is committed, an UPDATE locks its  *)
(* row until the commit and writes the sum computed before.  Nothing in    *)
(* the repository calls check_budget or record_cost yet; the callers here  *)
(* check every job once, run it if it fits, and record it once.            *)
(***************************************************************************)
EXTENDS Integers

CONSTANTS
  Jobs,
  Budgets,       \* rows that may be created
  NoBudget,
  Scopes,        \* pairs (scope, scope_id)
  JobScope,      \* the scope a caller charges a job to
  BudgetScope,   \* the scope a budget is created for; scopes need not be distinct
  Cost,          \* shots * cost_per_shot
  Limit,         \* monthly_limit_usd
  Threshold      \* alert_threshold_pct

ASSUME CostAssumption ==
  /\ NoBudget \notin Budgets
  /\ JobScope \in [Jobs -> Scopes] /\ BudgetScope \in [Budgets -> Scopes]
  /\ Cost \in [Jobs -> Nat] /\ Limit \in [Budgets -> Nat] /\ Threshold \in Nat

VARIABLES
  budgets,   \* committed rows of budgets
  spend,     \* their current_spend_usd
  records,   \* jobs with a committed cost record
  at,        \* where the caller of each job is
  chosen,    \* the budget row record_cost works on
  value,     \* current_spend_usd of the object in the session
  alerted,   \* budgets a threshold warning was given for
  charged,   \* sum of the committed records that went to each budget
  crossed    \* scopes where a job was checked or a budget created while
             \* another job was between its check and its commit

costState == <<budgets, spend, records>>
session == <<at, chosen, value>>
costVars == <<costState, session, alerted, charged, crossed>>

CostInit ==
  /\ budgets = {} /\ records = {} /\ alerted = {} /\ crossed = {}
  /\ spend = [b \in Budgets |-> 0]
  /\ charged = [b \in Budgets |-> 0]
  /\ at = [j \in Jobs |-> "new"]
  /\ chosen = [j \in Jobs |-> NoBudget]
  /\ value = [j \in Jobs |-> 0]

-----------------------------------------------------------------------------
Open(j) == at[j] \in {"checked", "add", "flush", "commit"}
Busy(scope) == \E j \in Jobs : Open(j) /\ JobScope[j] = scope
Cross(scope) == crossed' = IF Busy(scope) THEN crossed \cup {scope} ELSE crossed

\* get_by_scope: nothing makes the scope unique, and the query does not say
\* which of several rows it wants.
ScopeRows(scope) == {b \in budgets : BudgetScope[b] = scope}
get_by_scope(scope) == IF ScopeRows(scope) = {} THEN {NoBudget} ELSE ScopeRows(scope)

\* Mutant: what was spent is forgotten.
FitsLimit(j, b) == b = NoBudget \/ Cost[j] <= Limit[b]

\* check_budget: open by default.
Fits(j, b) == b = NoBudget \/ Cost[j] <= Limit[b] - spend[b]

\* The share used has reached the threshold; of a limit of 0 none is used.
Over(b, amount) ==
  IF Limit[b] > 0 THEN amount * 100 >= Threshold * Limit[b] ELSE Threshold = 0

-----------------------------------------------------------------------------
\* POST /v1/budgets with its commit
CreateBudget(b) ==
  /\ b \notin budgets
  /\ budgets' = budgets \cup {b}
  /\ Cross(BudgetScope[b])
  /\ UNCHANGED <<spend, records, session, alerted, charged>>

\* check_budget and its caller: a job that does not fit is not run.
Check(j) ==
  /\ at[j] = "new"
  /\ \E b \in get_by_scope(JobScope[j]) :
       at' = [at EXCEPT ![j] = IF Fits(j, b) THEN "checked" ELSE "refused"]
  /\ Cross(JobScope[j])
  /\ UNCHANGED <<costState, chosen, value, alerted, charged>>

\* record_cost: the record is inserted, the budget looked up once more.
Record(j) ==
  /\ at[j] = "checked"
  /\ \E b \in get_by_scope(JobScope[j]) :
       /\ chosen' = [chosen EXCEPT ![j] = b]
       /\ at' = [at EXCEPT ![j] = IF b = NoBudget THEN "commit" ELSE "add"]
  /\ UNCHANGED <<costState, value, alerted, charged, crossed>>

\* add_spend: SELECT and addition.  get_by_scope kept no reference to the
\* row it loaded, so the object is a new one with the committed amount.
AddSpend(j) ==
  /\ at[j] = "add"
  /\ value' = [value EXCEPT ![j] = spend[chosen[j]] + Cost[j]]
  /\ at' = [at EXCEPT ![j] = "flush"]
  /\ UNCHANGED <<costState, chosen, alerted, charged, crossed>>

RowLocked(b) == \E k \in Jobs : at[k] = "commit" /\ chosen[k] = b

\* Mutant: the spend is committed before the record is.
FlushCommits(j) ==
  /\ at[j] = "flush" /\ ~ RowLocked(chosen[j])
  /\ alerted' = IF Over(chosen[j], value[j]) THEN alerted \cup {chosen[j]} ELSE alerted
  /\ spend' = [spend EXCEPT ![chosen[j]] = value[j]]
  /\ at' = [at EXCEPT ![j] = "commit"]
  /\ UNCHANGED <<budgets, records, chosen, value, charged, crossed>>

\* Mutant: the warning is decided by the amount before the addition.
FlushAlertsLate(j) ==
  /\ at[j] = "flush" /\ ~ RowLocked(chosen[j])
  /\ alerted' = IF Over(chosen[j], spend[chosen[j]]) THEN alerted \cup {chosen[j]} ELSE alerted
  /\ at' = [at EXCEPT ![j] = "commit"]
  /\ UNCHANGED <<costState, chosen, value, charged, crossed>>

\* The UPDATE waits for the row, writes the sum computed before, and the
\* threshold is compared with that sum.
Flush(j) ==
  /\ at[j] = "flush" /\ ~ RowLocked(chosen[j])
  /\ alerted' = IF Over(chosen[j], value[j]) THEN alerted \cup {chosen[j]} ELSE alerted
  /\ at' = [at EXCEPT ![j] = "commit"]
  /\ UNCHANGED <<costState, chosen, value, charged, crossed>>

\* The caller commits record and spend together.
Commit(j) ==
  /\ at[j] = "commit"
  /\ records' = records \cup {j}
  /\ IF chosen[j] = NoBudget THEN UNCHANGED <<spend, charged>>
     ELSE /\ spend' = [spend EXCEPT ![chosen[j]] = value[j]]
          /\ charged' = [charged EXCEPT ![chosen[j]] = @ + Cost[j]]
  /\ at' = [at EXCEPT ![j] = "done"]
  /\ UNCHANGED <<budgets, chosen, value, alerted, crossed>>

\* The job fails before it costs anything, or a statement or the process
\* does and the transaction rolls back.
Fail(j) ==
  /\ Open(j)
  /\ at' = [at EXCEPT ![j] = "failed"]
  /\ UNCHANGED <<costState, chosen, value, alerted, charged, crossed>>

CostNext ==
  \/ \E b \in Budgets : CreateBudget(b)
  \/ \E j \in Jobs :
       Check(j) \/ Record(j) \/ AddSpend(j) \/ Flush(j) \/ Commit(j) \/ Fail(j)

CostSpec == CostInit /\ [][CostNext]_costVars

-----------------------------------------------------------------------------
\* Types; a caller that adds to a budget works on a committed row of its scope.
CostTypeOK ==
  /\ budgets \subseteq Budgets /\ records \subseteq Jobs /\ alerted \subseteq Budgets
  /\ crossed \subseteq Scopes
  /\ spend \in [Budgets -> Nat] /\ charged \in [Budgets -> Nat]
  /\ at \in [Jobs -> {"new", "refused", "checked", "add", "flush", "commit", "done", "failed"}]
  /\ chosen \in [Jobs -> Budgets \cup {NoBudget}]
  /\ value \in [Jobs -> Nat]
  /\ \A j \in Jobs :
       /\ chosen[j] # NoBudget => chosen[j] \in ScopeRows(JobScope[j])
       /\ at[j] \in {"add", "flush"} => chosen[j] # NoBudget

\* However sessions overlap, fail and overwrite each other's sums, a budget
\* never claims more than the committed cost records that were charged to it.
SpendNeverExceedsRecords == \A b \in Budgets : spend[b] <= charged[b]

\* Where no two jobs of a scope were between check and commit at once, no
\* amount is lost, and the limit of the scope's only budget is kept.
SerialSpendIsExact ==
  \A b \in budgets : BudgetScope[b] \notin crossed =>
    /\ spend[b] = charged[b]
    /\ ScopeRows(BudgetScope[b]) = {b} => spend[b] <= Limit[b]

\* A committed spend that has reached the alert threshold was announced,
\* also when the sum that crossed it was overwritten or overtaken.
ThresholdIsAnnounced ==
  \A b \in Budgets : spend[b] > 0 /\ Over(b, spend[b]) => b \in alerted
=============================================================================

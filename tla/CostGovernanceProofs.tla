-------------------------- MODULE CostGovernanceProofs --------------------------
(***************************************************************************)
(* Budgets, for any jobs, budgets, scopes, costs and limits.               *)
(***************************************************************************)
EXTENDS CostGovernance, TLAPS

USE CostAssumption

\* The amount a session computed is no more than what was charged when its
\* own cost is counted too.
SumsAreCovered ==
  \A j \in Jobs : at[j] \in {"flush", "commit"} /\ chosen[j] # NoBudget =>
    value[j] <= charged[chosen[j]] + Cost[j]

\* A session about to commit a sum over the threshold has announced it.
AnnouncedFirst ==
  \A j \in Jobs : at[j] = "commit" /\ chosen[j] # NoBudget /\ Over(chosen[j], value[j]) =>
    chosen[j] \in alerted

\* A row that does not exist was never spent on.
NewIsUnspent == \A b \in Budgets \ budgets : spend[b] = 0 /\ charged[b] = 0

\* In a scope that was not crossed one job at a time is open, it fits the
\* only budget there is, and the sum it computed still holds.
AloneInScope ==
  \A j \in Jobs : Open(j) /\ JobScope[j] \notin crossed =>
    /\ \A k \in Jobs : Open(k) /\ JobScope[k] = JobScope[j] => k = j
    /\ \A b \in budgets : ScopeRows(JobScope[j]) = {b} => spend[b] + Cost[j] <= Limit[b]
    /\ at[j] \in {"flush", "commit"} /\ chosen[j] # NoBudget =>
         value[j] = spend[chosen[j]] + Cost[j]

Covered == CostTypeOK /\ SumsAreCovered /\ SpendNeverExceedsRecords
Announced == CostTypeOK /\ AnnouncedFirst /\ ThresholdIsAnnounced
Serial == CostTypeOK /\ NewIsUnspent /\ AloneInScope /\ SerialSpendIsExact

USE DEF costVars, costState, session

-----------------------------------------------------------------------------
LEMMA TypeInit == CostInit => CostTypeOK
BY DEF CostInit, CostTypeOK

LEMMA TypeStep == CostTypeOK /\ [CostNext]_costVars => CostTypeOK'
<1> SUFFICES ASSUME CostTypeOK, [CostNext]_costVars PROVE CostTypeOK'
  OBVIOUS
<1> USE DEF CostTypeOK, ScopeRows
<1>1. ASSUME NEW b \in Budgets, CreateBudget(b) PROVE CostTypeOK'
  BY <1>1 DEF CreateBudget, Cross
<1>2. ASSUME NEW j \in Jobs, Check(j) PROVE CostTypeOK'
  BY <1>2 DEF Check, Cross
<1>3. ASSUME NEW j \in Jobs, Record(j) PROVE CostTypeOK'
  BY <1>3 DEF Record, get_by_scope
<1>4. ASSUME NEW j \in Jobs, AddSpend(j) PROVE CostTypeOK'
  <2>1. spend[chosen[j]] + Cost[j] \in Nat
    BY <1>4 DEF AddSpend
  <2>2. QED
    BY <1>4, <2>1 DEF AddSpend
<1>5. ASSUME NEW j \in Jobs, Flush(j) PROVE CostTypeOK'
  BY <1>5 DEF Flush
<1>6. ASSUME NEW j \in Jobs, Commit(j) PROVE CostTypeOK'
  BY <1>6 DEF Commit
<1>7. ASSUME NEW j \in Jobs, Fail(j) PROVE CostTypeOK'
  BY <1>7 DEF Fail, Open
<1>8. CASE UNCHANGED costVars
  BY <1>8
<1>9. QED
  BY <1>1, <1>2, <1>3, <1>4, <1>5, <1>6, <1>7, <1>8 DEF CostNext

\* Every variable keeps its type, and a caller that adds to a budget works on
\* a committed row of its scope (record_cost and its two lookups).
THEOREM CostTypeCorrect == CostSpec => []CostTypeOK
BY TypeInit, TypeStep, PTL DEF CostSpec

-----------------------------------------------------------------------------
LEMMA CoveredStep == Covered /\ [CostNext]_costVars => Covered'
<1> SUFFICES ASSUME Covered, [CostNext]_costVars PROVE (SumsAreCovered /\ SpendNeverExceedsRecords)'
  BY TypeStep DEF Covered
<1> USE DEF Covered, CostTypeOK, SumsAreCovered, SpendNeverExceedsRecords
<1>1. ASSUME NEW b \in Budgets, CreateBudget(b)
      PROVE  (SumsAreCovered /\ SpendNeverExceedsRecords)'
  BY <1>1 DEF CreateBudget
<1>2. ASSUME NEW j \in Jobs, Check(j)
      PROVE  (SumsAreCovered /\ SpendNeverExceedsRecords)'
  BY <1>2 DEF Check
<1>3. ASSUME NEW j \in Jobs, Record(j)
      PROVE  (SumsAreCovered /\ SpendNeverExceedsRecords)'
  BY <1>3 DEF Record
<1>4. ASSUME NEW j \in Jobs, AddSpend(j)
      PROVE  (SumsAreCovered /\ SpendNeverExceedsRecords)'
  BY <1>4 DEF AddSpend
<1>5. ASSUME NEW j \in Jobs, Flush(j)
      PROVE  (SumsAreCovered /\ SpendNeverExceedsRecords)'
  BY <1>5 DEF Flush
<1>6. ASSUME NEW j \in Jobs, Commit(j)
      PROVE  (SumsAreCovered /\ SpendNeverExceedsRecords)'
  <2>1. SpendNeverExceedsRecords'
    BY <1>6 DEF Commit
  <2>2. \A b \in Budgets : charged[b] <= charged'[b]
    BY <1>6 DEF Commit
  <2>4. QED
    BY <1>6, <2>1, <2>2 DEF Commit
<1>7. ASSUME NEW j \in Jobs, Fail(j)
      PROVE  (SumsAreCovered /\ SpendNeverExceedsRecords)'
  BY <1>7 DEF Fail
<1>8. CASE UNCHANGED costVars
  BY <1>8
<1>9. QED
  BY <1>1, <1>2, <1>3, <1>4, <1>5, <1>6, <1>7, <1>8 DEF CostNext

\* However sessions interleave, lose each other's sums or fail, a budget's
\* spend is covered by the records charged to it (record_cost, add_spend).
THEOREM SpendIsCovered == CostSpec => []SpendNeverExceedsRecords
<1>1. CostInit => Covered
  BY TypeInit DEF CostInit, Covered, SumsAreCovered, SpendNeverExceedsRecords
<1>2. QED
  BY <1>1, CoveredStep, PTL DEF CostSpec, Covered

-----------------------------------------------------------------------------
LEMMA AnnouncedStep == Announced /\ [CostNext]_costVars => Announced'
<1> SUFFICES ASSUME Announced, [CostNext]_costVars PROVE (AnnouncedFirst /\ ThresholdIsAnnounced)'
  BY TypeStep DEF Announced
<1> USE DEF Announced, CostTypeOK, AnnouncedFirst, ThresholdIsAnnounced
<1>1. ASSUME NEW b \in Budgets, CreateBudget(b)
      PROVE  (AnnouncedFirst /\ ThresholdIsAnnounced)'
  BY <1>1 DEF CreateBudget
<1>2. ASSUME NEW j \in Jobs, Check(j) \/ Record(j) \/ AddSpend(j) \/ Fail(j)
      PROVE  (AnnouncedFirst /\ ThresholdIsAnnounced)'
  BY <1>2 DEF Check, Record, AddSpend, Fail
<1>3. ASSUME NEW j \in Jobs, Flush(j)
      PROVE  (AnnouncedFirst /\ ThresholdIsAnnounced)'
  BY <1>3 DEF Flush
<1>4. ASSUME NEW j \in Jobs, Commit(j)
      PROVE  (AnnouncedFirst /\ ThresholdIsAnnounced)'
  BY <1>4 DEF Commit
<1>5. CASE UNCHANGED costVars
  BY <1>5
<1>6. QED
  BY <1>1, <1>2, <1>3, <1>4, <1>5 DEF CostNext

\* A spend that reached its threshold was warned about, also when the session
\* that crossed it was overtaken by another (record_cost).
THEOREM CrossedThresholdsAreAnnounced == CostSpec => []ThresholdIsAnnounced
<1>1. CostInit => Announced
  BY TypeInit DEF CostInit, Announced, AnnouncedFirst, ThresholdIsAnnounced
<1>2. QED
  BY <1>1, AnnouncedStep, PTL DEF CostSpec, Announced

-----------------------------------------------------------------------------
\* Steps that write no budget row and open or move no job.
LEMMA SerialQuiet ==
  ASSUME Serial, CostTypeOK', UNCHANGED <<budgets, spend, charged, crossed>>,
         \A j \in Jobs : Open(j)' => Open(j),
         \A j \in Jobs : at'[j] \in {"flush", "commit"} /\ chosen'[j] # NoBudget =>
           \/ at[j] \in {"flush", "commit"} /\ chosen'[j] = chosen[j] /\ value'[j] = value[j]
           \/ value'[j] = spend[chosen'[j]] + Cost[j]
  PROVE  Serial'
BY DEF Serial, NewIsUnspent, AloneInScope, SerialSpendIsExact, ScopeRows, Open

LEMMA SerialCreate ==
  ASSUME Serial, CostTypeOK', NEW c \in Budgets, CreateBudget(c)
  PROVE  Serial'
<1> USE DEF Serial, CreateBudget, ScopeRows
<1>1. NewIsUnspent'
  BY DEF NewIsUnspent, CostTypeOK
<1>2. \A j \in Jobs : Open(j) /\ JobScope[j] \notin crossed' => JobScope[j] # BudgetScope[c]
  BY DEF Cross, Busy
<1>3. crossed \subseteq crossed' /\ \A j \in Jobs : Open(j)' <=> Open(j)
  BY DEF Cross, Open
<1>4. AloneInScope'
  BY <1>2, <1>3 DEF AloneInScope, CostTypeOK, Open
<1>5. SerialSpendIsExact'
  BY <1>3 DEF SerialSpendIsExact, NewIsUnspent, CostTypeOK
<1>6. QED
  BY <1>1, <1>4, <1>5

LEMMA SerialCheck ==
  ASSUME Serial, CostTypeOK', NEW j \in Jobs, Check(j)
  PROVE  Serial'
<1> USE DEF Serial, Check, ScopeRows
<1>1. NewIsUnspent' /\ SerialSpendIsExact'
  BY DEF NewIsUnspent, SerialSpendIsExact, Cross
<1>2. crossed \subseteq crossed'
  BY DEF Cross
<1>3. ~ Open(j) /\ \A k \in Jobs \ {j} : Open(k)' <=> Open(k)
  BY DEF Open, CostTypeOK
<1>4. JobScope[j] \notin crossed' => \A k \in Jobs : ~ (Open(k) /\ JobScope[k] = JobScope[j])
  BY DEF Cross, Busy
<1>5. Open(j)' => at'[j] = "checked" /\ \E b \in get_by_scope(JobScope[j]) : Fits(j, b)
  BY DEF Open, CostTypeOK
<1>6. ASSUME NEW b \in budgets, ScopeRows(JobScope[j]) = {b}, Open(j)'
      PROVE  spend[b] + Cost[j] <= Limit[b]
  <2>1. Fits(j, b) /\ b # NoBudget
    BY <1>5, <1>6 DEF get_by_scope, CostTypeOK
  <2>2. QED
    BY <2>1 DEF Fits, CostTypeOK
<1>7. AloneInScope'
  BY <1>2, <1>3, <1>4, <1>5, <1>6 DEF AloneInScope, Open, CostTypeOK
<1>8. QED
  BY <1>1, <1>7

LEMMA SerialCommit ==
  ASSUME Serial, CostTypeOK', NEW j \in Jobs, Commit(j)
  PROVE  Serial'
<1> USE DEF Serial, Commit, ScopeRows
<1>1. Open(j) /\ ~ Open(j)' /\ \A k \in Jobs \ {j} : Open(k)' <=> Open(k)
  BY DEF Open, CostTypeOK
<1>2. \A b \in budgets : BudgetScope[b] # JobScope[j] => spend'[b] = spend[b] /\ charged'[b] = charged[b]
  BY DEF CostTypeOK
<1>3. NewIsUnspent'
  BY DEF NewIsUnspent, CostTypeOK
<1>4. ASSUME NEW k \in Jobs, Open(k)', JobScope[k] \notin crossed
      PROVE  JobScope[k] # JobScope[j]
  BY <1>1, <1>4 DEF AloneInScope
<1>5. AloneInScope'
  BY <1>1, <1>2, <1>4 DEF AloneInScope, CostTypeOK, Open
<1>6. ASSUME NEW b \in budgets, BudgetScope[b] \notin crossed
      PROVE  /\ spend'[b] = charged'[b]
             /\ ScopeRows(BudgetScope[b]) = {b} => spend'[b] <= Limit[b]
  <2>1. CASE chosen[j] # b
    BY <1>6, <2>1 DEF SerialSpendIsExact, CostTypeOK
  <2>2. CASE chosen[j] = b
    <3>1. b # NoBudget /\ BudgetScope[b] = JobScope[j]
      BY <2>2 DEF CostTypeOK
    <3>2. value[j] = spend[b] + Cost[j] /\ spend'[b] = value[j] /\ charged'[b] = charged[b] + Cost[j]
      BY <1>1, <1>6, <2>2, <3>1 DEF AloneInScope, CostTypeOK
    <3>3. QED
      BY <1>1, <1>6, <3>1, <3>2 DEF SerialSpendIsExact, AloneInScope, CostTypeOK
  <2>3. QED
    BY <2>1, <2>2
<1>7. QED
  BY <1>3, <1>5, <1>6 DEF SerialSpendIsExact

LEMMA SerialStep == Serial /\ [CostNext]_costVars => Serial'
<1> SUFFICES ASSUME Serial, [CostNext]_costVars PROVE Serial'
  OBVIOUS
<1>0. CostTypeOK'
  BY TypeStep DEF Serial
<1>1. ASSUME NEW j \in Jobs, Record(j) PROVE Serial'
  BY <1>0, <1>1, SerialQuiet DEF Record, Open, CostTypeOK, Serial
<1>2. ASSUME NEW j \in Jobs, AddSpend(j) PROVE Serial'
  BY <1>0, <1>2, SerialQuiet DEF AddSpend, Open, CostTypeOK, Serial
<1>3. ASSUME NEW j \in Jobs, Flush(j) PROVE Serial'
  BY <1>0, <1>3, SerialQuiet DEF Flush, Open, CostTypeOK, Serial
<1>4. ASSUME NEW j \in Jobs, Fail(j) PROVE Serial'
  BY <1>0, <1>4, SerialQuiet DEF Fail, Open, CostTypeOK, Serial
<1>5. CASE UNCHANGED costVars
  BY <1>0, <1>5, SerialQuiet DEF Open
<1>6. QED
  BY <1>0, <1>1, <1>2, <1>3, <1>4, <1>5, SerialCreate, SerialCheck, SerialCommit DEF CostNext

\* In a scope whose jobs never overlapped between check and commit the spend
\* is exact and the limit of its only budget is kept (check_budget and
\* record_cost).
THEOREM SerialScopesAreExact == CostSpec => []SerialSpendIsExact
<1>1. CostInit => Serial
  BY TypeInit DEF CostInit, Serial, NewIsUnspent, AloneInScope, SerialSpendIsExact, Open
<1>2. QED
  BY <1>1, SerialStep, PTL DEF CostSpec, Serial
=============================================================================

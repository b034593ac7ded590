------------------------------ MODULE Benchmarking ------------------------------
(***************************************************************************)
(* The benchmark worker and the calibration results clients post.  Each    *)
(* cycle of the worker measures every provider in one session, commits,    *)
(* reads the latest row of every provider and sets the gauges.  An error   *)
(* while one provider is saved is logged and the loop goes on.  What that  *)
(* costs depends on the session's transaction: without a connection none   *)
(* has begun and only this provider is missing; a statement PostgreSQL     *)
(* refuses aborts what was flushed, and COMMIT then rolls back in silence; *)
(* a failed flush or a lost connection makes every later call raise, the   *)
(* commit too.  run() catches what leaves the cycle and starts again.      *)
(***************************************************************************)
EXTENDS Naturals, Sequences

CONSTANTS
  ExecutionProvider,   \* the sequence of providers in the order of the enum
  Posts,               \* POST /v1/benchmarks calls
  PostProvider,        \* the provider each of them is about
  NoRow,
  MaxCycles,           \* bound on the cycles of the worker
  MaxFaults            \* bound on failing calls and deaths of the worker

Providers == {ExecutionProvider[i] : i \in 1 .. Len(ExecutionProvider)}

Row == [provider : Providers, measured_at : Nat, by : Posts \cup Nat]

ASSUME BenchmarkAssumption ==
  /\ ExecutionProvider \in Seq(Providers) /\ Len(ExecutionProvider) > 0
  /\ \A i, j \in 1 .. Len(ExecutionProvider) :
       ExecutionProvider[i] = ExecutionProvider[j] => i = j
  /\ PostProvider \in [Posts -> Providers]
  /\ Posts \cap 1 .. MaxCycles = {}
  /\ NoRow \notin Row
  /\ MaxCycles \in Nat /\ MaxFaults \in Nat

VARIABLES
  rows,        \* committed rows of benchmarks: [provider, measured_at, by]
  now,         \* the clock, which moves when it is read
  pc,          \* where the worker is
  next,        \* index of the provider its loop is at
  pending,     \* rows flushed and not committed
  tx,          \* the session's transaction, one of TxStates
  latest,      \* rows read after the commit, by provider
  gauge,       \* what the gauges of each provider show, by the row shown
  shutdown,    \* _shutdown
  cycles,      \* cycles begun
  post,        \* the row each POST has flushed, NoRow before and after
  posted,      \* POSTs that have ended
  bfaults

workerVars == <<pc, next, pending, tx, latest, gauge, cycles>>
benchVars == <<rows, now, workerVars, shutdown, post, posted, bfaults>>

\* "aborted": PostgreSQL accepts nothing but its end.  "failed": SQLAlchemy
\* wants a rollback first and raises.
TxStates == {"none", "open", "aborted", "failed"}

Blank == [p \in Providers |-> NoRow]

BenchInit ==
  /\ rows = {} /\ now = 1
  /\ pc = "sleep" /\ next = 1
  /\ pending = {} /\ tx = "none"
  /\ latest = Blank /\ gauge = Blank
  /\ shutdown = FALSE /\ cycles = 0
  /\ post = [c \in Posts |-> NoRow] /\ posted = {}
  /\ bfaults = 0

-----------------------------------------------------------------------------
Fault == bfaults < MaxFaults /\ bfaults' = bfaults + 1

\* run_calibration: the row is measured now.
Measured(p, who) == [provider |-> p, measured_at |-> now, by |-> who]

\* Mutant: rows of open transactions are read too.
RowsOfDirty(p) ==
  {r \in rows \cup pending \cup {post[c] : c \in Posts} : r # NoRow /\ r.provider = p}

RowsOf(p) == {r \in rows : r.provider = p}

\* Mutant: the order is that of the default, ascending.
Earliest(p) ==
  IF RowsOf(p) = {} THEN {NoRow}
  ELSE {r \in RowsOf(p) : \A s \in RowsOf(p) : r.measured_at <= s.measured_at}

\* latest(provider): ORDER BY measured_at DESC LIMIT 1
Latest(p) ==
  IF RowsOf(p) = {} THEN {NoRow}
  ELSE {r \in RowsOf(p) : \A s \in RowsOf(p) : s.measured_at <= r.measured_at}

\* Mutant: one session for all cycles.
CloseSessionKept == pending' = {} /\ next' = 1 /\ latest' = Blank /\ tx' = tx

\* The session is closed: what it has not committed is gone.
CloseSession == pending' = {} /\ next' = 1 /\ latest' = Blank /\ tx' = "none"
EndCycle == pc' = "sleep" /\ CloseSession

\* The interval is over: a fresh session.
StartCycle ==
  /\ pc = "sleep" /\ ~ shutdown /\ cycles < MaxCycles
  /\ pc' = "save" /\ cycles' = cycles + 1
  /\ UNCHANGED <<rows, now, next, pending, tx, latest, gauge, shutdown, post, posted, bfaults>>

\* The loop is at a provider, or through.
Saving == pc = "save" /\ next <= Len(ExecutionProvider)
Saved == pc = "save" /\ next > Len(ExecutionProvider)

\* The loop body for one provider: merge, flush.
Save ==
  /\ Saving /\ tx \in {"none", "open"}
  /\ tx' = "open"
  /\ pending' = pending \cup {Measured(ExecutionProvider[next], cycles)}
  /\ now' = now + 1
  /\ next' = next + 1
  /\ UNCHANGED <<rows, pc, latest, gauge, cycles, shutdown, post, posted, bfaults>>

\* No connection is to be had: no transaction begins, the loop goes on.
ConnectFails ==
  /\ Saving /\ tx = "none"
  /\ Fault
  /\ next' = next + 1
  /\ UNCHANGED <<rows, now, pc, pending, tx, latest, gauge, cycles, shutdown, post, posted>>

\* Mutant: each provider has a savepoint of its own.
SaveFailsAlone ==
  /\ Saving
  /\ Fault
  /\ next' = next + 1
  /\ UNCHANGED <<rows, now, pc, pending, tx, latest, gauge, cycles, shutdown, post, posted>>

\* The SELECT of merge is refused (the transaction is aborted), or the flush
\* fails or the connection is lost: what was flushed is rolled back.
SaveFails ==
  /\ Saving /\ tx # "failed"
  /\ Fault
  /\ tx' \in {"aborted", "failed"} /\ pending' = {}
  /\ next' = next + 1
  /\ UNCHANGED <<rows, now, pc, latest, gauge, cycles, shutdown, post, posted>>

\* In such a transaction the next providers fail too, and are logged too.
SaveRefused ==
  /\ Saving /\ tx \in {"aborted", "failed"}
  /\ next' = next + 1
  /\ UNCHANGED <<rows, now, pc, pending, tx, latest, gauge, cycles, shutdown, post, posted, bfaults>>

\* An aborted transaction has nothing left to commit, and says nothing.
CommitCycle ==
  /\ Saved /\ tx # "failed"
  /\ rows' = rows \cup pending /\ pending' = {}
  /\ pc' = "read" /\ next' = 1 /\ tx' = "none"
  /\ UNCHANGED <<now, latest, gauge, cycles, shutdown, post, posted, bfaults>>

\* PendingRollbackError: the commit raises out of the cycle.
CommitRefused ==
  /\ Saved /\ tx = "failed"
  /\ EndCycle
  /\ UNCHANGED <<rows, now, gauge, cycles, shutdown, post, posted, bfaults>>

\* get_all_latest: one query per provider, each sees what is committed by then.
ReadLatest ==
  /\ pc = "read" /\ next <= Len(ExecutionProvider)
  /\ \E r \in Latest(ExecutionProvider[next]) :
       latest' = [latest EXCEPT ![ExecutionProvider[next]] = r]
  /\ next' = next + 1
  /\ UNCHANGED <<rows, now, pc, pending, tx, gauge, cycles, shutdown, post, posted, bfaults>>

\* update_benchmark_metrics, with no await in it
UpdateGauges ==
  /\ pc = "read" /\ next > Len(ExecutionProvider)
  /\ gauge' = [p \in Providers |-> IF latest[p] = NoRow THEN gauge[p] ELSE latest[p]]
  /\ EndCycle
  /\ UNCHANGED <<rows, now, cycles, shutdown, post, posted, bfaults>>

\* The commit fails, before it is done or in its reply, or a read fails.
CommitFails ==
  /\ Saved /\ tx # "failed"
  /\ Fault
  /\ rows' \in {rows, rows \cup pending}
  /\ EndCycle
  /\ UNCHANGED <<now, gauge, cycles, shutdown, post, posted>>

ReadFails ==
  /\ pc = "read"
  /\ Fault
  /\ EndCycle
  /\ UNCHANGED <<rows, now, gauge, cycles, shutdown, post, posted>>

\* The process dies and, unless it had been told to stop, is started again:
\* gauges live in its memory.
WorkerDies ==
  /\ pc # "stopped"
  /\ Fault
  /\ CloseSession
  /\ pc' = IF shutdown THEN "stopped" ELSE "sleep"
  /\ gauge' = Blank
  /\ UNCHANGED <<rows, now, cycles, shutdown, post, posted>>

\* SIGTERM: noticed when the cycle is over.
Signal ==
  /\ ~ shutdown /\ shutdown' = TRUE
  /\ UNCHANGED <<rows, now, workerVars, post, posted, bfaults>>

Stop ==
  /\ pc = "sleep" /\ shutdown
  /\ pc' = "stopped"
  /\ UNCHANGED <<rows, now, next, pending, tx, latest, gauge, cycles, shutdown, post, posted, bfaults>>

-----------------------------------------------------------------------------
\* run_benchmark: measured and flushed, then committed or lost.
PostMeasures(c) ==
  /\ post[c] = NoRow /\ c \notin posted
  /\ post' = [post EXCEPT ![c] = Measured(PostProvider[c], c)]
  /\ now' = now + 1
  /\ UNCHANGED <<rows, workerVars, shutdown, posted, bfaults>>

PostEnds(c, kept) ==
  /\ post[c] # NoRow
  /\ rows' = rows \cup kept
  /\ post' = [post EXCEPT ![c] = NoRow]
  /\ posted' = posted \cup {c}
  /\ UNCHANGED <<now, workerVars, shutdown, bfaults>>

PostCommits(c) == PostEnds(c, {post[c]})
PostFails(c) == PostEnds(c, {})

WorkerStep ==
  \/ StartCycle \/ Save \/ SaveRefused \/ CommitCycle \/ CommitRefused
  \/ ReadLatest \/ UpdateGauges \/ Stop

BenchNext ==
  \/ WorkerStep \/ ConnectFails \/ SaveFails \/ CommitFails \/ ReadFails
  \/ WorkerDies \/ Signal
  \/ \E c \in Posts : PostMeasures(c) \/ PostCommits(c) \/ PostFails(c)

\* The loop goes on with whatever it awaits; nothing makes clients post.
BenchSpec == BenchInit /\ [][BenchNext]_benchVars /\ WF_benchVars(WorkerStep)

-----------------------------------------------------------------------------
\* Types; what is flushed was measured in the past.
Stamped == [provider : Providers, measured_at : 1 .. now - 1, by : Posts \cup 1 .. MaxCycles]

BenchTypeOK ==
  /\ rows \subseteq Stamped /\ pending \subseteq Stamped
  /\ now \in Nat \ {0}
  /\ pc \in {"sleep", "save", "read", "stopped"}
  /\ next \in 1 .. Len(ExecutionProvider) + 1
  /\ tx \in TxStates /\ shutdown \in BOOLEAN
  /\ latest \in [Providers -> Stamped \cup {NoRow}]
  /\ gauge \in [Providers -> Stamped \cup {NoRow}]
  /\ cycles \in 0 .. MaxCycles /\ (pc = "save" => cycles > 0) /\ bfaults \in 0 .. MaxFaults
  /\ post \in [Posts -> Stamped \cup {NoRow}] /\ posted \subseteq Posts

\* Cycle k has left a row of its n-th provider.
Left(k, n) == \E r \in rows : r.by = k /\ r.provider = ExecutionProvider[n]

\* The loop looks as if a provider that fails cost only its own row.  It
\* does so only before the first row of the cycle: after it, a failure costs
\* them all.  So a cycle that left the row of a provider left the rows of
\* those that come after it, and only its first providers can be missing.
CycleHasNoGaps ==
  \A k \in 1 .. MaxCycles, i \in 1 .. Len(ExecutionProvider) - 1 :
    Left(k, i) => Left(k, i + 1)

\* What gauges show is committed, and while the worker lives it is never
\* replaced by an older measurement, though clients may commit late a result
\* measured before.
GaugesNeverGoBack ==
  [][\A p \in Providers : gauge[p] # NoRow /\ gauge'[p] # NoRow =>
       /\ gauge'[p] \in rows'
       /\ gauge'[p].measured_at >= gauge[p].measured_at]_benchVars

\* The gauges never mix cycles: where one provider's gauge shows a
\* measurement of a cycle, every provider's gauge shows what that cycle
\* measured for it or something newer.
GaugesAreFresh ==
  \A p \in Providers, r \in rows :
    gauge[p] # NoRow /\ r.by = gauge[p].by =>
      /\ gauge[r.provider] # NoRow
      /\ gauge[r.provider].measured_at >= r.measured_at

\* A failed transaction or a death does not outlive its cycle: with fewer
\* failures than cycles, every provider gets on the gauges unless the worker
\* is told to stop.
EveryProviderShown == <>(shutdown \/ \A p \in Providers : gauge[p] # NoRow)
=============================================================================

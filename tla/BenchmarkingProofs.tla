--------------------------- MODULE BenchmarkingProofs ---------------------------
(***************************************************************************)
(* The benchmark worker, for any providers, cycles, posts and faults.      *)
(***************************************************************************)
EXTENDS Benchmarking, TLAPS

\* The open transaction holds a row of a provider.
Flushed(i) == \E r \in pending : r.provider = ExecutionProvider[i]

\* Only an open transaction holds rows; it holds those of all providers the
\* loop has passed since its first; a cycle has no committed row before its
\* commit.
LoopInv ==
  /\ pc \in {"sleep", "stopped"} => next = 1
  /\ pc # "save" \/ tx # "open" => pending = {}
  /\ \A r \in pending : r.by = cycles
  /\ \A i, j \in 1 .. next - 1 : i <= j /\ Flushed(i) => Flushed(j)
  /\ \A r \in rows : r.by \in Posts \/ r.by \in 1 .. cycles
  /\ pc = "save" => \A r \in rows : r.by # cycles

\* A POST commits one row, once.
PostInv ==
  /\ \A c \in Posts : post[c] # NoRow => post[c].by = c /\ c \notin posted
  /\ \A r \in rows : r.by \in Posts => r.by \in posted
  /\ \A r, s \in rows : r.by = s.by /\ r.by \in Posts => r = s

\* What has been read is committed, at least as new as the gauge, and at
\* least as new as what any cycle measured.
ReadInv ==
  /\ pc # "read" => latest = Blank
  /\ \A p \in Providers :
       /\ latest[p] # NoRow => latest[p] \in RowsOf(p)
       /\ gauge[p] # NoRow => gauge[p] \in RowsOf(p)
       /\ latest[p] # NoRow /\ gauge[p] # NoRow => gauge[p].measured_at <= latest[p].measured_at
  /\ pc = "read" =>
       \A i \in 1 .. next - 1 : \A r \in RowsOf(ExecutionProvider[i]) :
         r.by \in 1 .. MaxCycles =>
           /\ latest[ExecutionProvider[i]] # NoRow
           /\ r.measured_at <= latest[ExecutionProvider[i]].measured_at

Loop == BenchTypeOK /\ LoopInv
Reads == Loop /\ PostInv /\ ReadInv

USE DEF workerVars, benchVars

-----------------------------------------------------------------------------
\* What the steps need to know of the constants.
LEMMA Constants ==
  /\ Len(ExecutionProvider) \in Nat \ {0}
  /\ \A i \in 1 .. Len(ExecutionProvider) : ExecutionProvider[i] \in Providers
  /\ PostProvider \in [Posts -> Providers]
  /\ \A i, j \in 1 .. Len(ExecutionProvider) :
       ExecutionProvider[i] = ExecutionProvider[j] => i = j
  /\ MaxCycles \in Nat /\ MaxFaults \in Nat
  /\ \A c \in Posts : c \notin 1 .. MaxCycles
<1>1. Len(ExecutionProvider) \in Nat \ {0}
  BY BenchmarkAssumption
<1>2. \A i \in 1 .. Len(ExecutionProvider) : ExecutionProvider[i] \in Providers
  BY DEF Providers
<1>3. QED
  BY <1>1, <1>2, BenchmarkAssumption

LEMMA BlankIsTyped == Blank \in [Providers -> Stamped \cup {NoRow}]
BY DEF Blank

LEMMA TypeInit == BenchInit => BenchTypeOK
<1> SUFFICES ASSUME BenchInit PROVE BenchTypeOK
  OBVIOUS
<1>1. post \in [Posts -> Stamped \cup {NoRow}]
  BY DEF BenchInit
<1>2. tx \in TxStates /\ shutdown \in BOOLEAN
  BY DEF BenchInit, TxStates
<1>3. QED
  BY <1>1, <1>2, Constants, BlankIsTyped DEF BenchInit, BenchTypeOK

\* The clock only moves forward.
LEMMA StampsStay ==
  ASSUME now \in Nat, now' = now \/ now' = now + 1
  PROVE  /\ Stamped \subseteq Stamped'
         /\ \A f \in [Providers -> Stamped \cup {NoRow}] : f \in [Providers -> Stamped' \cup {NoRow}]
         /\ \A f \in [Posts -> Stamped \cup {NoRow}] : f \in [Posts -> Stamped' \cup {NoRow}]
<1>1. Stamped \subseteq Stamped'
  BY DEF Stamped
<1> HIDE DEF Stamped
<1>2. QED
  BY <1>1

\* A new row is stamped with the time before the clock moves.
LEMMA StampsAreTyped ==
  ASSUME NEW p \in Providers, NEW who \in Posts \cup 1 .. MaxCycles,
         now \in Nat \ {0}, now' = now + 1
  PROVE  Measured(p, who) \in Stamped'
BY DEF Stamped, Measured

LEMMA TypeStep == BenchTypeOK /\ [BenchNext]_benchVars => BenchTypeOK'
<1> SUFFICES ASSUME BenchTypeOK, [BenchNext]_benchVars PROVE BenchTypeOK'
  OBVIOUS
<1> USE Constants DEF BenchTypeOK
<1>1. CASE StartCycle
  BY <1>1, StampsStay DEF StartCycle
<1>2. CASE Save
  <2>1. ExecutionProvider[next] \in Providers /\ cycles \in 1 .. MaxCycles
    BY <1>2 DEF Save, Saving
  <2>2. QED
    BY <1>2, <2>1, StampsStay, StampsAreTyped DEF Save, Saving, TxStates
<1>3. CASE ConnectFails \/ SaveFails \/ SaveRefused
  BY <1>3, StampsStay DEF ConnectFails, SaveFails, SaveRefused, Saving, Fault, TxStates
<1>4. CASE CommitCycle
  BY <1>4, StampsStay DEF CommitCycle, Saved, TxStates
<1>5. CASE CommitRefused \/ CommitFails \/ ReadFails \/ WorkerDies
  BY <1>5, StampsStay, BlankIsTyped DEF CommitRefused, CommitFails, ReadFails, WorkerDies, EndCycle,
     CloseSession, Fault, TxStates
<1>6. CASE ReadLatest
  <2>1. \A r \in Latest(ExecutionProvider[next]) : r \in Stamped \cup {NoRow}
    BY DEF Latest, RowsOf
  <2>2. QED
    BY <1>6, <2>1, StampsStay DEF ReadLatest
<1>7. CASE UpdateGauges
  <2>1. gauge' \in [Providers -> Stamped \cup {NoRow}]
    BY <1>7 DEF UpdateGauges
  <2>2. QED
    BY <1>7, <2>1, StampsStay, BlankIsTyped DEF UpdateGauges, EndCycle, CloseSession, TxStates
<1>8. CASE Signal \/ Stop
  BY <1>8, StampsStay DEF Signal, Stop
<1>9. ASSUME NEW c \in Posts, PostMeasures(c) PROVE BenchTypeOK'
  BY <1>9, StampsStay, StampsAreTyped DEF PostMeasures
<1>10. ASSUME NEW c \in Posts, PostCommits(c) \/ PostFails(c) PROVE BenchTypeOK'
  BY <1>10, StampsStay DEF PostCommits, PostFails, PostEnds
<1>11. CASE UNCHANGED benchVars
  BY <1>11, StampsStay
<1>12. QED
  BY <1>1, <1>2, <1>3, <1>4, <1>5, <1>6, <1>7, <1>8, <1>9, <1>10, <1>11
  DEF BenchNext, WorkerStep

-----------------------------------------------------------------------------
LEMMA LoopStep == Loop /\ PostInv /\ [BenchNext]_benchVars => Loop'
<1> SUFFICES ASSUME Loop, PostInv, [BenchNext]_benchVars PROVE LoopInv'
  BY TypeStep DEF Loop
<1> USE Constants DEF Loop, BenchTypeOK, LoopInv, Stamped
<1>1. CASE StartCycle
  <2>1. pending' = {} /\ next' = 1 /\ pc' = "save" /\ rows' = rows
    BY <1>1 DEF StartCycle
  <2>2. cycles' = cycles + 1 /\ cycles' \in 1 .. MaxCycles
    BY <1>1 DEF StartCycle
  <2>3. QED
    BY <2>1, <2>2
<1>2. CASE Save
  <2> DEFINE m == Measured(ExecutionProvider[next], cycles)
  <2>1. pending' = pending \cup {m} /\ next' = next + 1 /\ tx' = "open" /\ UNCHANGED <<rows, pc, cycles>>
    BY <1>2 DEF Save
  <2>2. m.provider = ExecutionProvider[next] /\ m.by = cycles
    BY DEF Measured
  <2>3. next \in 1 .. Len(ExecutionProvider) /\ pc = "save"
    BY <1>2 DEF Save, Saving
  <2> HIDE DEF m
  <2>4. ASSUME NEW i \in 1 .. next, NEW j \in 1 .. next, i <= j, Flushed(i)'
        PROVE  Flushed(j)'
    <3>1. CASE j = next
      BY <2>1, <2>2, <3>1 DEF Flushed
    <3>2. CASE j # next
      <4>1. i \in 1 .. next - 1 /\ j \in 1 .. next - 1 /\ ExecutionProvider[i] # ExecutionProvider[next]
        BY <2>3, <2>4, <3>2
      <4>2. Flushed(i)
        BY <2>1, <2>2, <2>4, <4>1 DEF Flushed
      <4>3. Flushed(j)
        BY <2>4, <4>1, <4>2
      <4>4. QED
        BY <2>1, <4>3 DEF Flushed
    <3>3. QED
      BY <3>1, <3>2
  <2>5. \A i, j \in 1 .. next' - 1 : i <= j /\ Flushed(i)' => Flushed(j)'
    BY <2>1, <2>4
  <2>6. QED
    BY <2>1, <2>2, <2>3, <2>5
<1>3. CASE ConnectFails \/ SaveFails \/ SaveRefused
  <2>1. pending' = {} /\ UNCHANGED <<rows, pc, cycles>> /\ pc = "save"
    BY <1>3 DEF ConnectFails, SaveFails, SaveRefused, Saving
  <2>2. QED
    BY <2>1 DEF Flushed
<1>4. CASE CommitCycle
  <2>1. pending' = {} /\ rows' = rows \cup pending /\ pc' = "read" /\ cycles' = cycles
    BY <1>4 DEF CommitCycle
  <2>2. \A r \in pending : r.by \in 1 .. cycles
    BY <1>4 DEF CommitCycle, Saved
  <2>3. QED
    BY <2>1, <2>2 DEF Flushed
<1>5. CASE CommitRefused \/ CommitFails \/ ReadFails \/ WorkerDies \/ UpdateGauges
  <2>1. pending' = {} /\ next' = 1 /\ pc' # "save" /\ cycles' = cycles
    BY <1>5 DEF CommitRefused, CommitFails, ReadFails, WorkerDies, UpdateGauges, EndCycle, CloseSession
  <2>2. \A r \in rows' : r \in rows \/ (r.by = cycles /\ cycles > 0)
    BY <1>5 DEF CommitRefused, CommitFails, ReadFails, WorkerDies, UpdateGauges, Saved
  <2>3. QED
    BY <2>1, <2>2 DEF Flushed
<1>6. CASE ReadLatest
  BY <1>6 DEF ReadLatest, Flushed
<1> DEFINE Kept == /\ UNCHANGED <<pending, tx, next, cycles>>
                   /\ pc' = pc \/ (pc = "sleep" /\ pc' = "stopped")
                   /\ \A r \in rows' : r \in rows \/ r.by \in Posts
<1>7. ASSUME Kept PROVE LoopInv'
  <2>1. \A i : Flushed(i)' <=> Flushed(i)
    BY <1>7 DEF Flushed
  <2>2. QED
    BY <1>7, <2>1
<1>8. CASE Signal \/ Stop \/ \E c \in Posts : PostMeasures(c)
  BY <1>7, <1>8 DEF Signal, Stop, PostMeasures
<1>9. ASSUME NEW c \in Posts, PostCommits(c) \/ PostFails(c) PROVE LoopInv'
  <2>1. \A r \in rows' : r \in rows \/ r.by \in Posts
    BY <1>9 DEF PostCommits, PostFails, PostEnds, PostInv
  <2>2. QED
    BY <1>7, <1>9, <2>1 DEF PostCommits, PostFails, PostEnds
<1>10. CASE UNCHANGED benchVars
  BY <1>7, <1>10
<1>11. QED
  BY <1>1, <1>2, <1>3, <1>4, <1>5, <1>6, <1>7, <1>8, <1>9, <1>10
  DEF BenchNext, WorkerStep

LEMMA PostStep == Loop /\ PostInv /\ [BenchNext]_benchVars => PostInv'
<1> SUFFICES ASSUME Loop, PostInv, [BenchNext]_benchVars PROVE PostInv'
  OBVIOUS
<1> USE Constants DEF Loop, BenchTypeOK, LoopInv, PostInv
<1>1. CASE CommitCycle \/ CommitFails
  <2>1. UNCHANGED <<post, posted>> /\ \A r \in rows' : r \in rows \/ r.by \in 1 .. MaxCycles
    BY <1>1 DEF CommitCycle, CommitFails, Saved
  <2>2. QED
    BY <2>1
<1>2. ASSUME NEW c \in Posts, PostMeasures(c) PROVE PostInv'
  BY <1>2 DEF PostMeasures, Measured
<1>3. ASSUME NEW c \in Posts, PostCommits(c) \/ PostFails(c) PROVE PostInv'
  BY <1>3 DEF PostCommits, PostFails, PostEnds
<1>4. CASE UNCHANGED <<rows, post, posted>>
  BY <1>4
<1>5. QED
  BY <1>1, <1>2, <1>3, <1>4 DEF BenchNext, WorkerStep, StartCycle, Save, ConnectFails, SaveFails, SaveRefused,
     CommitRefused, ReadLatest, UpdateGauges, ReadFails, WorkerDies, Signal, Stop

-----------------------------------------------------------------------------
\* The commit of a cycle adds at once what its transaction holds.
LEMMA GapStep ==
  Loop /\ PostInv /\ CycleHasNoGaps /\ [BenchNext]_benchVars => CycleHasNoGaps'
<1> SUFFICES ASSUME Loop, PostInv, CycleHasNoGaps, [BenchNext]_benchVars,
                    NEW k \in 1 .. MaxCycles, NEW i \in 1 .. Len(ExecutionProvider) - 1,
                    Left(k, i)'
             PROVE  Left(k, i + 1)'
  BY DEF CycleHasNoGaps, Left
<1>1. Left(k, i) => Left(k, i + 1)
  BY DEF CycleHasNoGaps, Left
<1> USE Constants DEF Loop, BenchTypeOK, LoopInv, PostInv
<1>2. CASE rows' = rows
  BY <1>1, <1>2 DEF Left
<1>3. CASE Saved /\ rows' = rows \cup pending
  <2>1. CASE k # cycles
    BY <1>1, <1>3, <2>1 DEF Left
  <2>2. CASE k = cycles
    <3>1. \A r \in rows : r.by # k
      BY <1>3, <2>2 DEF Saved
    <3>2. Flushed(i)
      BY <1>3, <3>1 DEF Left, Flushed
    <3>3. i \in 1 .. next - 1 /\ i + 1 \in 1 .. next - 1
      BY <1>3 DEF Saved
    <3>4. Flushed(i + 1)
      BY <3>2, <3>3
    <3>5. QED
      BY <1>3, <2>2, <3>4 DEF Left, Flushed
  <2>3. QED
    BY <2>1, <2>2
<1>4. ASSUME NEW c \in Posts, PostCommits(c) \/ PostFails(c)
      PROVE  Left(k, i + 1)'
  <2>1. \A r \in rows' : r.by = k => r \in rows
    BY <1>4 DEF PostCommits, PostFails, PostEnds
  <2>2. Left(k, i) /\ rows \subseteq rows'
    BY <1>4, <2>1 DEF Left, PostCommits, PostFails, PostEnds
  <2>3. QED
    BY <1>1, <2>2 DEF Left
<1>5. QED
  BY <1>2, <1>3, <1>4 DEF BenchNext, WorkerStep, StartCycle, Save, ConnectFails, SaveFails, SaveRefused,
     CommitCycle, CommitRefused, CommitFails, ReadLatest, ReadFails, UpdateGauges, WorkerDies, Signal,
     Stop, PostMeasures

-----------------------------------------------------------------------------
LEMMA NoRowIsNone == now \in Nat => NoRow \notin Stamped
<1> SUFFICES ASSUME now \in Nat PROVE Stamped \subseteq Row
  BY BenchmarkAssumption
<1>1. QED
  BY Constants DEF Stamped, Row

\* Each read sees all that is committed; what commits while the worker reads
\* was posted, and is of no cycle.
LEMMA ReadStep == Reads /\ [BenchNext]_benchVars => ReadInv'
<1> SUFFICES ASSUME Reads, [BenchNext]_benchVars PROVE ReadInv'
  OBVIOUS
<1> USE Constants, NoRowIsNone DEF Reads, Loop, BenchTypeOK, ReadInv, RowsOf
<1>1. CASE StartCycle \/ Save \/ ConnectFails \/ SaveFails \/ SaveRefused
  BY <1>1 DEF StartCycle, Save, ConnectFails, SaveFails, SaveRefused, Saving
<1>2. CASE CommitCycle
  BY <1>2 DEF CommitCycle, Saved
<1>3. CASE CommitRefused \/ CommitFails \/ ReadFails
  BY <1>3 DEF CommitRefused, CommitFails, ReadFails, EndCycle, CloseSession, Blank
<1>4. CASE WorkerDies
  BY <1>4 DEF WorkerDies, CloseSession, Blank
<1>5. CASE ReadLatest
  <2> DEFINE q == ExecutionProvider[next]
  <2>1. PICK r \in Latest(q) : latest' = [latest EXCEPT ![q] = r]
    BY <1>5 DEF ReadLatest
  <2>2. q \in Providers /\ next' = next + 1 /\ UNCHANGED <<rows, pc, gauge>> /\ pc = "read"
    BY <1>5 DEF ReadLatest
  <2>3. latest'[q] = r /\ \A p \in Providers \ {q} : latest'[p] = latest[p]
    BY <2>1, <2>2
  <2>4. \/ RowsOf(q) = {} /\ r = NoRow
        \/ r \in RowsOf(q) /\ r # NoRow /\ \A s \in RowsOf(q) : s.measured_at <= r.measured_at
    BY <2>1 DEF Latest
  <2>5. ASSUME NEW p \in Providers
        PROVE  /\ latest'[p] # NoRow => latest'[p] \in RowsOf(p)
               /\ latest'[p] # NoRow /\ gauge[p] # NoRow => gauge[p].measured_at <= latest'[p].measured_at
    <3>1. CASE p = q
      BY <2>3, <2>4, <3>1
    <3>2. CASE p # q
      BY <2>3, <3>2
    <3>3. QED
      BY <3>1, <3>2
  <2>6. ASSUME NEW i \in 1 .. next, NEW s \in RowsOf(ExecutionProvider[i]), s.by \in 1 .. MaxCycles
        PROVE  /\ latest'[ExecutionProvider[i]] # NoRow
               /\ s.measured_at <= latest'[ExecutionProvider[i]].measured_at
    <3>1. CASE ExecutionProvider[i] = q
      BY <2>3, <2>4, <2>6, <3>1
    <3>2. CASE ExecutionProvider[i] # q
      <4>1. i \in 1 .. next - 1 /\ ExecutionProvider[i] \in Providers
        BY <3>2
      <4>2. QED
        BY <2>2, <2>3, <2>6, <3>2, <4>1
    <3>3. QED
      BY <3>1, <3>2
  <2> HIDE DEF q
  <2>7. QED
    BY <2>2, <2>5, <2>6
<1>6. CASE UpdateGauges
  <2>1. \A p \in Providers : gauge'[p] = IF latest[p] = NoRow THEN gauge[p] ELSE latest[p]
    BY <1>6 DEF UpdateGauges
  <2>2. latest' = Blank /\ rows' = rows /\ pc' = "sleep"
    BY <1>6 DEF UpdateGauges, EndCycle, CloseSession
  <2>3. QED
    BY <2>1, <2>2 DEF Blank
<1>7. CASE Signal \/ Stop
  BY <1>7 DEF Signal, Stop
<1>8. ASSUME NEW c \in Posts, PostMeasures(c) PROVE ReadInv'
  BY <1>8 DEF PostMeasures
<1>9. ASSUME NEW c \in Posts, PostCommits(c) \/ PostFails(c) PROVE ReadInv'
  <2>1. rows \subseteq rows' /\ \A r \in rows' \ rows : r.by = c
    BY <1>9 DEF PostCommits, PostFails, PostEnds, PostInv
  <2>2. UNCHANGED <<pc, next, latest, gauge>>
    BY <1>9 DEF PostCommits, PostFails, PostEnds
  <2>3. QED
    BY <2>1, <2>2
<1>10. CASE UNCHANGED benchVars
  BY <1>10
<1>11. QED
  BY <1>1, <1>2, <1>3, <1>4, <1>5, <1>6, <1>7, <1>8, <1>9, <1>10
  DEF BenchNext, WorkerStep

LEMMA ReadsInit == BenchInit => Reads
<1> SUFFICES ASSUME BenchInit PROVE LoopInv /\ PostInv /\ ReadInv
  BY TypeInit DEF Reads, Loop
<1>1. rows = {} /\ pending = {} /\ pc = "sleep" /\ next = 1
  BY DEF BenchInit
<1>2. /\ \A c \in Posts : post[c] = NoRow
      /\ latest = Blank /\ \A p \in Providers : latest[p] = NoRow /\ gauge[p] = NoRow
  BY DEF BenchInit, Blank
<1>3. QED
  BY <1>1, <1>2 DEF LoopInv, PostInv, ReadInv

LEMMA ReadsStep == Reads /\ [BenchNext]_benchVars => Reads'
BY LoopStep, PostStep, ReadStep DEF Reads

\* A gauge is only set to what was read after all of its cycle was committed.
LEMMA FreshStep == Reads /\ GaugesAreFresh /\ [BenchNext]_benchVars => GaugesAreFresh'
<1> SUFFICES ASSUME Reads, GaugesAreFresh, [BenchNext]_benchVars,
                    NEW p \in Providers, NEW r \in rows',
                    gauge'[p] # NoRow, r.by = gauge'[p].by
             PROVE  /\ gauge'[r.provider] # NoRow
                    /\ gauge'[r.provider].measured_at >= r.measured_at
  BY DEF GaugesAreFresh
<1> USE Constants, NoRowIsNone DEF Reads, Loop, BenchTypeOK
<1>1. CASE UNCHANGED <<rows, gauge>>
  BY <1>1 DEF GaugesAreFresh
<1>2. CASE CommitCycle \/ CommitFails
  <2>1. gauge[p] \in rows /\ gauge' = gauge
    BY <1>2 DEF CommitCycle, CommitFails, ReadInv, RowsOf
  <2>2. gauge[p].by # cycles /\ r \in rows \cup pending
    BY <1>2, <2>1 DEF CommitCycle, CommitFails, Saved, LoopInv
  <2>3. r \in rows
    BY <2>1, <2>2 DEF LoopInv
  <2>4. QED
    BY <2>1, <2>3 DEF GaugesAreFresh
<1>3. CASE WorkerDies
  BY <1>3 DEF WorkerDies, Blank
<1>4. CASE UpdateGauges
  <2>1. \A s \in Providers : gauge'[s] = IF latest[s] = NoRow THEN gauge[s] ELSE latest[s]
    BY <1>4 DEF UpdateGauges
  <2>2. rows' = rows /\ pc = "read" /\ next > Len(ExecutionProvider)
    BY <1>4 DEF UpdateGauges, EndCycle, CloseSession
  <2>3. gauge'[p] \in RowsOf(p) /\ r \in Stamped
    BY <2>1, <2>2 DEF ReadInv
  <2>4. CASE r.by \in Posts
    <3>1. r = gauge'[p] /\ r.provider = p
      BY <2>2, <2>3, <2>4 DEF RowsOf, PostInv
    <3>2. QED
      BY <2>3, <3>1 DEF Stamped
  <2>5. CASE r.by \in 1 .. MaxCycles
    <3>1. PICK i \in 1 .. Len(ExecutionProvider) : ExecutionProvider[i] = r.provider
      BY <2>3 DEF Stamped, Providers
    <3>2. i \in 1 .. next - 1 /\ r \in RowsOf(ExecutionProvider[i])
      BY <2>2, <3>1 DEF RowsOf
    <3>3. latest[r.provider] # NoRow /\ r.measured_at <= latest[r.provider].measured_at
      BY <2>2, <2>5, <3>1, <3>2 DEF ReadInv
    <3>4. r.provider \in Providers /\ latest[r.provider] \in Stamped /\ r.measured_at \in Nat
      BY <2>3, <3>3 DEF Stamped
    <3>5. gauge'[r.provider] = latest[r.provider]
      BY <2>1, <3>3, <3>4
    <3>6. QED
      BY <3>3, <3>4, <3>5 DEF Stamped
  <2>6. QED
    BY <2>3, <2>4, <2>5 DEF Stamped
<1>5. ASSUME NEW c \in Posts, PostCommits(c) \/ PostFails(c)
      PROVE  r \in rows /\ gauge' = gauge
  <2>1. gauge[p] \in rows /\ gauge' = gauge
    BY <1>5 DEF PostCommits, PostFails, PostEnds, ReadInv, RowsOf
  <2>2. r \in rows \cup {post[c]} /\ post[c] # NoRow
    BY <1>5 DEF PostCommits, PostFails, PostEnds
  <2>3. r # post[c] \/ r \in rows
    BY <2>1, <2>2 DEF PostInv
  <2>4. QED
    BY <2>1, <2>2, <2>3
<1>6. QED
  BY <1>1, <1>2, <1>3, <1>4, <1>5 DEF GaugesAreFresh, BenchNext, WorkerStep, StartCycle, Save,
     ConnectFails, SaveFails, SaveRefused, CommitRefused, ReadLatest, ReadFails, Signal, Stop, PostMeasures,
     EndCycle, CloseSession

\* What a gauge is set to was read since, and the clock only moves forward.
LEMMA BackStep ==
  ASSUME Reads, [BenchNext]_benchVars,
         NEW p \in Providers, gauge[p] # NoRow, gauge'[p] # NoRow
  PROVE  gauge'[p] \in rows' /\ gauge'[p].measured_at >= gauge[p].measured_at
<1> USE NoRowIsNone DEF Reads, Loop, BenchTypeOK
<1>1. gauge[p] \in rows /\ gauge[p].measured_at \in Nat
  BY DEF ReadInv, RowsOf, Stamped
<1>2. rows \subseteq rows'
  BY DEF BenchNext, WorkerStep, StartCycle, Save, ConnectFails, SaveFails, SaveRefused, CommitCycle, CommitRefused,
     CommitFails, ReadLatest, UpdateGauges, ReadFails, WorkerDies, Signal, Stop, PostMeasures, PostCommits,
     PostFails, PostEnds, EndCycle, CloseSession
<1>3. CASE gauge' = gauge
  BY <1>1, <1>2, <1>3
<1>4. CASE WorkerDies
  BY <1>4 DEF WorkerDies, Blank
<1>5. CASE UpdateGauges
  <2>1. gauge'[p] = IF latest[p] = NoRow THEN gauge[p] ELSE latest[p]
    BY <1>5 DEF UpdateGauges
  <2>2. CASE latest[p] = NoRow
    BY <1>1, <1>2, <2>1, <2>2
  <2>3. CASE latest[p] # NoRow
    BY <1>1, <1>2, <2>1, <2>3 DEF ReadInv, RowsOf, Stamped
  <2>4. QED
    BY <2>2, <2>3
<1>6. QED
  BY <1>3, <1>4, <1>5 DEF BenchNext, WorkerStep, StartCycle, Save, ConnectFails, SaveFails, SaveRefused, CommitCycle,
     CommitRefused, CommitFails, ReadLatest, ReadFails, Signal, Stop, PostMeasures, PostCommits, PostFails, PostEnds

-----------------------------------------------------------------------------
THEOREM ReadsHold == BenchSpec => []Reads
BY ReadsInit, ReadsStep, PTL DEF BenchSpec

\* Types; no row is stamped with a time to come.
THEOREM BenchTypeCorrect == BenchSpec => []BenchTypeOK
BY ReadsHold, PTL DEF Reads, Loop

\* Whatever fails and whenever the worker dies, the rows a cycle left are
\* those of all providers from some place of the order on.
THEOREM CyclesHaveNoGaps == BenchSpec => []CycleHasNoGaps
<1>1. BenchInit => CycleHasNoGaps
  BY DEF BenchInit, CycleHasNoGaps, Left
<1>2. QED
  BY <1>1, ReadsHold, GapStep, PTL DEF BenchSpec, Reads

\* The gauges never mix cycles.
THEOREM GaugesShowOneCycle == BenchSpec => []GaugesAreFresh
<1>1. BenchInit => GaugesAreFresh
  BY DEF BenchInit, GaugesAreFresh
<1>2. QED
  BY <1>1, ReadsHold, FreshStep, PTL DEF BenchSpec

\* While the worker lives, no gauge goes back to an older measurement.
THEOREM GaugesMoveForward == BenchSpec => GaugesNeverGoBack
<1>1. Reads /\ [BenchNext]_benchVars =>
        [\A p \in Providers : gauge[p] # NoRow /\ gauge'[p] # NoRow =>
           /\ gauge'[p] \in rows'
           /\ gauge'[p].measured_at >= gauge[p].measured_at]_benchVars
  BY BackStep
<1>2. QED
  BY <1>1, ReadsHold, PTL DEF BenchSpec, GaugesNeverGoBack
=============================================================================

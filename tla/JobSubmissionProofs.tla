-------------------------- MODULE JobSubmissionProofs --------------------------
(***************************************************************************)
(* Idempotent submission and the paged list of jobs, for any clients,      *)
(* keys, numbers of tries and faults, and for any page size.               *)
(***************************************************************************)
EXTENDS JobListing, FiniteSetTheorems, TLAPS

\* A row that is committed or inserted by an open transaction.
Claimed(r) == r \in jobs \/ \E c \in Clients : pc[c] = "commit" /\ r = Row(c)

\* The UNIQUE index: a key is claimed by one row, committed or open.
KeyClaimedOnce == \A r, s \in Rows : Claimed(r) /\ Claimed(s) /\ SameKey(r, s) => r = s

Types ==
  /\ jobs \subseteq Rows
  /\ pc \in [Clients -> Steps]
  /\ tries \in [Clients -> 0 .. MaxTries]
  /\ \A c \in Clients : pc[c] # "idle" => tries[c] # 0
  /\ answer \in [Clients -> SUBSET jobs]
  /\ \A c \in Clients : \A r \in answer[c] : KeyOf(r) = idempotency_key[c]

Inv == Types /\ KeyClaimedOnce

LEMMA InvInit == Init => Inv
BY TriesAssumption DEF Init, Inv, Types, Steps, KeyClaimedOnce, Claimed

LEMMA RowIsRow ==
  ASSUME Types, NEW c \in Clients, pc[c] # "idle"
  PROVE  Row(c) \in Rows
BY TriesAssumption DEF Types, Row, Rows

LEMMA TypesStep == Types /\ [Next]_vars => Types'
<1> SUFFICES ASSUME Types, [Next]_vars PROVE Types'
  OBVIOUS
<1> USE DEF Types, Steps, Goto, Answer, KeyOf, SameKey, Row
<1>1. ASSUME NEW c \in Clients, Request(c) PROVE Types'
  BY <1>1, TriesAssumption DEF Request
<1>2. ASSUME NEW c \in Clients, LookupHit(c) PROVE Types'
  BY <1>2 DEF LookupHit, Matches
<1>3. ASSUME NEW c \in Clients, LookupMiss(c) \/ Insert(c) \/ Push(c) \/ Fail(c) PROVE Types'
  BY <1>3 DEF LookupMiss, Insert, Push, Fail
<1>4. ASSUME NEW c \in Clients, Commit(c) PROVE Types'
  BY <1>4, RowIsRow DEF Commit
<1>5. ASSUME NEW c \in Clients, ReadBack(c) PROVE Types'
  BY <1>5 DEF ReadBack
<1>6. CASE UNCHANGED vars
  BY <1>6 DEF vars
<1>7. QED
  BY <1>1, <1>2, <1>3, <1>4, <1>5, <1>6 DEF Next, Serve

LEMMA KeyStep == Inv /\ [Next]_vars => KeyClaimedOnce'
<1> SUFFICES ASSUME Inv, [Next]_vars PROVE KeyClaimedOnce'
  OBVIOUS
<1> USE DEF Inv
<1>1. ASSUME \A r \in Rows : Claimed(r)' => Claimed(r) PROVE KeyClaimedOnce'
  BY <1>1 DEF KeyClaimedOnce, SameKey, KeyOf
<1>2. ASSUME NEW c \in Clients, Insert(c) PROVE KeyClaimedOnce'
  <2>1. CASE Matches(c) = {}
    <3>1. Row(c) \in Rows
      BY <1>2, RowIsRow DEF Insert
    <3>2. \A r \in Rows : Claimed(r)' => Claimed(r) \/ r = Row(c)
      BY <1>2, <2>1 DEF Insert, Goto, Claimed, Row, Types
    <3>3. \A r \in Rows : Claimed(r) /\ SameKey(r, Row(c)) => r = Row(c)
      BY <1>2, <2>1 DEF Insert, KeyIsLocked, Matches, Claimed, SameKey
    <3>4. QED
      BY <3>1, <3>2, <3>3 DEF KeyClaimedOnce, SameKey, KeyOf
  <2>2. CASE Matches(c) # {}
    <3>1. \A r \in Rows : Claimed(r)' => Claimed(r)
      BY <1>2, <2>2 DEF Insert, Goto, Claimed, Row, Types
    <3>2. QED
      BY <3>1, <1>1
  <2>3. QED
    BY <2>1, <2>2
<1>3. ASSUME NEW c \in Clients, Request(c) \/ LookupHit(c) \/ LookupMiss(c)
                                \/ Commit(c) \/ Push(c) \/ ReadBack(c) \/ Fail(c)
      PROVE  KeyClaimedOnce'
  <2>1. \A r \in Rows : Claimed(r)' => Claimed(r)
    BY <1>3 DEF Request, LookupHit, LookupMiss, Commit, Push, ReadBack, Fail,
                Goto, Answer, Claimed, Row, Types
  <2>2. QED
    BY <2>1, <1>1
<1>4. CASE UNCHANGED vars
  BY <1>4, <1>1 DEF vars, Claimed, Row
<1>5. QED
  BY <1>2, <1>3, <1>4 DEF Next, Serve

LEMMA InvCorrect == Spec => []Inv
<1>1. Inv /\ [Next]_vars => Inv'
  BY TypesStep, KeyStep DEF Inv
<1>2. QED
  BY <1>1, InvInit, PTL DEF Spec

\* At most one job per idempotency key, for any number of clients and retries.
THEOREM KeyHasOneJob == Spec => []OneJobPerKey
<1>1. Inv => OneJobPerKey
  BY DEF Inv, Types, KeyClaimedOnce, Claimed, OneJobPerKey
<1>2. QED
  BY <1>1, InvCorrect, PTL

\* All answers for a key name the one committed job of that key.
THEOREM SameKeySameAnswer == Spec => []AnswersAgree
<1>1. Inv => AnswersAgree
  <2>1. ASSUME Inv, NEW c \in Clients, NEW d \in Clients, NEW r \in answer[c], NEW s \in answer[d]
        PROVE  /\ r \in jobs
               /\ idempotency_key[c] = idempotency_key[d] /\ idempotency_key[c] # NoKey => r = s
    <3>1. r \in jobs /\ s \in jobs
      BY <2>1 DEF Inv, Types
    <3>2. KeyOf(r) = idempotency_key[c] /\ KeyOf(s) = idempotency_key[d]
      BY <2>1 DEF Inv, Types
    <3>3. r \in Rows /\ s \in Rows /\ Claimed(r) /\ Claimed(s)
      BY <2>1, <3>1 DEF Inv, Types, Claimed
    <3>4. QED
      BY <2>1, <3>1, <3>2, <3>3 DEF Inv, KeyClaimedOnce, SameKey
  <2>2. QED
    BY <2>1 DEF AnswersAgree
<1>2. QED
  BY <1>1, InvCorrect, PTL

-----------------------------------------------------------------------------
\* A request about to push has committed its row.
PushesCommitted == \A c \in Clients : pc[c] = "push" => Row(c) \in jobs

TypeInv == Types /\ TypeOK /\ PushesCommitted

LEMMA TypeInvStep == TypeInv /\ [Next]_vars => TypeInv'
<1> SUFFICES ASSUME TypeInv, [Next]_vars PROVE (TypeOK /\ PushesCommitted)'
  BY TypesStep DEF TypeInv
<1> USE DEF TypeInv, TypeOK, PushesCommitted, Steps, Goto, Answer, Row
<1>1. ASSUME NEW c \in Clients, Request(c) \/ LookupHit(c) \/ LookupMiss(c) \/ Insert(c)
                                \/ Push(c) \/ ReadBack(c)
      PROVE  (TypeOK /\ PushesCommitted)'
  BY <1>1, TriesAssumption DEF Request, LookupHit, LookupMiss, Insert, Push, ReadBack, Matches
<1>2. ASSUME NEW c \in Clients, Commit(c) PROVE (TypeOK /\ PushesCommitted)'
  BY <1>2, RowIsRow DEF Commit
<1>3. ASSUME NEW c \in Clients, Fail(c) PROVE (TypeOK /\ PushesCommitted)'
  BY <1>3, TriesAssumption DEF Fail
<1>4. CASE UNCHANGED vars
  BY <1>4 DEF vars
<1>5. QED
  BY <1>1, <1>2, <1>3, <1>4 DEF Next, Serve

\* Every variable keeps its type, and only committed rows are pushed.
THEOREM TypeCorrect == Spec => []TypeOK
<1>1. Init => TypeInv
  BY InvInit, TriesAssumption DEF Init, Inv, TypeInv, TypeOK, PushesCommitted, Steps
<1>2. QED
  BY <1>1, TypeInvStep, PTL DEF Spec, TypeInv

-----------------------------------------------------------------------------
\* Without a fault a committed row is pushed or about to be.
CommittedIsPushed ==
  faults = 0 => \A r \in jobs : r \in pushed \/ (pc[r[1]] = "push" /\ r = Row(r[1]))

LEMMA PushedStep ==
  TypeInv /\ CommittedIsPushed /\ [Next]_vars => CommittedIsPushed'
<1> SUFFICES ASSUME TypeInv, CommittedIsPushed, [Next]_vars PROVE CommittedIsPushed'
  OBVIOUS
<1> USE DEF TypeInv, TypeOK, CommittedIsPushed, Goto, Answer, Row, Rows
<1>1. ASSUME NEW c \in Clients, Request(c) \/ LookupHit(c) \/ LookupMiss(c) \/ Insert(c)
                                \/ ReadBack(c)
      PROVE  CommittedIsPushed'
  BY <1>1 DEF Request, LookupHit, LookupMiss, Insert, ReadBack
<1>2. ASSUME NEW c \in Clients, Commit(c) PROVE CommittedIsPushed'
  BY <1>2 DEF Commit
<1>3. ASSUME NEW c \in Clients, Push(c) PROVE CommittedIsPushed'
  BY <1>3 DEF Push
<1>4. ASSUME NEW c \in Clients, Fail(c) PROVE CommittedIsPushed'
  BY <1>4 DEF Fail
<1>5. CASE UNCHANGED vars
  BY <1>5 DEF vars
<1>6. QED
  BY <1>1, <1>2, <1>3, <1>4, <1>5 DEF Next, Serve

\* While no request fails, a client is only told of a job whose message was
\* pushed or is about to be (submit pushes after its commit, and get_by_
\* idempotency_key answers others in between).
THEOREM AnsweredJobsAreQueued == Spec => []AnsweredJobIsQueued
<1>1. Init => TypeInv /\ CommittedIsPushed
  BY InvInit, TriesAssumption
     DEF Init, Inv, TypeInv, TypeOK, PushesCommitted, Steps, CommittedIsPushed
<1>2. TypeInv /\ CommittedIsPushed => AnsweredJobIsQueued
  BY DEF TypeInv, Types, CommittedIsPushed, AnsweredJobIsQueued
<1>3. QED
  BY <1>1, <1>2, TypeInvStep, PushedStep, PTL DEF Spec

-----------------------------------------------------------------------------
\* The order of created_at: what is new is younger than all there is, and what
\* is rolled back leaves the order of the others as it was.
StrictOrder(R, S) ==
  /\ R \subseteq S \X S
  /\ \A r : <<r, r>> \notin R
  /\ \A q, r, s : <<q, r>> \in R /\ <<r, s>> \in R => <<q, s>> \in R
  /\ \A q, r \in S : q # r => <<q, r>> \in R \/ <<r, q>> \in R

LEMMA OrderOfFewer ==
  ASSUME NEW R, NEW S, NEW T, StrictOrder(R, S), T \subseteq S
  PROVE  StrictOrder({p \in R : p[1] \in T /\ p[2] \in T}, T)
<1> DEFINE Q == {p \in R : p[1] \in T /\ p[2] \in T}
<1>1. \A q, r : <<q, r>> \in Q <=> <<q, r>> \in R /\ q \in T /\ r \in T
  OBVIOUS
<1>2. Q \subseteq T \X T
  BY DEF StrictOrder
<1> HIDE DEF Q
<1>3. StrictOrder(Q, T)
  BY <1>1, <1>2 DEF StrictOrder
<1>4. QED
  BY <1>3 DEF Q

LEMMA OrderWithYoungest ==
  ASSUME NEW R, NEW S, NEW x, StrictOrder(R, S), x \notin S
  PROVE  StrictOrder(R \cup (S \X {x}), S \cup {x})
<1> DEFINE Q == R \cup (S \X {x})
<1>1. \A q, r : <<q, r>> \in Q <=> <<q, r>> \in R \/ (q \in S /\ r = x)
  OBVIOUS
<1>2. Q \subseteq (S \cup {x}) \X (S \cup {x})
  BY DEF StrictOrder
<1>3. \A q, r : <<q, r>> \in R => q \in S /\ r \in S
  BY DEF StrictOrder
<1> HIDE DEF Q
<1>4. \A r : <<r, r>> \notin Q
  BY <1>1 DEF StrictOrder
<1>5. \A q, r, s : <<q, r>> \in Q /\ <<r, s>> \in Q => <<q, s>> \in Q
  BY <1>1, <1>3 DEF StrictOrder
<1>6. \A q, r \in S \cup {x} : q # r => <<q, r>> \in Q \/ <<r, q>> \in Q
  BY <1>1 DEF StrictOrder
<1>7. StrictOrder(Q, S \cup {x})
  BY <1>2, <1>4, <1>5, <1>6 DEF StrictOrder
<1>8. QED
  BY <1>7 DEF Q

\* A row that is not committed yet is not one of an earlier request.
Fresh ==
  /\ \A r \in jobs : r[2] <= tries[r[1]]
  /\ \A c \in Clients : pc[c] \in {"lookup", "insert", "commit"} => Row(c) \notin jobs

OrderInv == Types /\ Fresh /\ IsFiniteSet(jobs) /\ StrictOrder(older, Kept)

LEMMA FreshStep == Types /\ Fresh /\ [Next]_vars => Fresh'
<1> SUFFICES ASSUME Types, Fresh, [Next]_vars PROVE Fresh'
  OBVIOUS
<1> USE DEF Types, Fresh, Steps, Goto, Answer, Row, Rows
<1>1. ASSUME NEW c \in Clients, Request(c) PROVE Fresh'
  <2>1. /\ jobs' = jobs /\ tries' = [tries EXCEPT ![c] = tries[c] + 1]
        /\ pc' = [pc EXCEPT ![c] = "lookup"] /\ tries[c] \in Nat
    BY <1>1, TriesAssumption DEF Request
  <2>2. \A r \in jobs : r[1] \in Clients /\ r[2] \in Nat
    BY TriesAssumption
  <2>3. \A r \in jobs : r[2] <= tries'[r[1]]
    BY <2>1, <2>2, TriesAssumption
  <2>4. <<c, tries[c] + 1>> \notin jobs
    BY <2>1, <2>2
  <2>5. \A d \in Clients : d # c => pc'[d] = pc[d] /\ Row(d)' = Row(d)
    BY <2>1
  <2>6. Row(c)' = <<c, tries[c] + 1>>
    BY <2>1
  <2>7. QED
    BY <2>1, <2>3, <2>4, <2>5, <2>6
<1>2. ASSUME NEW c \in Clients, LookupHit(c) \/ LookupMiss(c) \/ Insert(c) \/ Push(c)
                                \/ ReadBack(c) \/ Fail(c)
      PROVE  Fresh'
  BY <1>2 DEF LookupHit, LookupMiss, Insert, Push, ReadBack, Fail
<1>3. ASSUME NEW c \in Clients, Commit(c) PROVE Fresh'
  BY <1>3, TriesAssumption DEF Commit
<1>4. CASE UNCHANGED vars
  BY <1>4 DEF vars
<1>5. QED
  BY <1>1, <1>2, <1>3, <1>4 DEF Next, Serve

\* Only a miss of the lookup creates a row, a new one; and no step but a
\* commit makes jobs grow.
LEMMA MissCreates ==
  ASSUME OrderInv, NEW c \in Clients, LookupMiss(c)
  PROVE  /\ Row(c) \notin Kept /\ Kept' = Kept \cup {Row(c)} /\ jobs' = jobs
         /\ {Row(d) : d \in {e \in Clients : pc[e] = "lookup" /\ pc'[e] = "insert"}} = {Row(c)}
<1>1. /\ pc' = [pc EXCEPT ![c] = "insert"] /\ jobs' = jobs /\ tries' = tries /\ pc[c] = "lookup"
      /\ pc \in [Clients -> Steps]
  BY DEF LookupMiss, Goto, OrderInv, Types
<1>2. Row(c) \notin Kept
  BY <1>1 DEF Kept, Row, OrderInv, Fresh
<1>3. \A d \in Clients : Row(d)' = Row(d) /\ (pc'[d] = IF d = c THEN "insert" ELSE pc[d])
  BY <1>1 DEF Row
<1>4. Kept' = Kept \cup {Row(c)}
  BY <1>1, <1>3 DEF Kept
<1>5. \A d \in Clients : pc[d] = "lookup" /\ pc'[d] = "insert" <=> d = c
  BY <1>1, <1>3
<1>6. {e \in Clients : pc[e] = "lookup" /\ pc'[e] = "insert"} = {c}
  BY <1>5
<1>7. QED
  BY <1>1, <1>2, <1>4, <1>6

LEMMA OthersCreateNone ==
  ASSUME OrderInv, NEW c \in Clients,
         Request(c) \/ LookupHit(c) \/ Insert(c) \/ Commit(c) \/ Push(c) \/ ReadBack(c) \/ Fail(c)
  PROVE  /\ Kept' \subseteq Kept
         /\ {e \in Clients : pc[e] = "lookup" /\ pc'[e] = "insert"} = {}
         /\ jobs' = jobs \/ jobs' = jobs \cup {Row(c)}
<1> USE DEF OrderInv, Types, Steps, Goto, Answer
<1>1. jobs' = jobs \/ (jobs' = jobs \cup {Row(c)} /\ pc[c] = "commit")
  BY DEF Request, LookupHit, Insert, Commit, Push, ReadBack, Fail
<1>2. \A d \in Clients : pc'[d] \in {"insert", "commit"} =>
        pc[d] \in {"insert", "commit"} /\ tries'[d] = tries[d]
  BY DEF Request, LookupHit, Insert, Commit, Push, ReadBack, Fail
<1>3. Kept' \subseteq Kept
  BY <1>1, <1>2 DEF Kept, Row
<1>4. QED
  BY <1>1, <1>2, <1>3

LEMMA OrderStep == OrderInv /\ [ListNext]_listVars => OrderInv' /\ jobs \subseteq jobs'
                     /\ \A q, r \in jobs : <<q, r>> \in older => <<q, r>> \in older'
<1> SUFFICES ASSUME OrderInv, [ListNext]_listVars
             PROVE  OrderInv' /\ jobs \subseteq jobs'
                    /\ \A q, r \in jobs : <<q, r>> \in older => <<q, r>> \in older'
  OBVIOUS
<1>1. [Next]_vars
  BY DEF ListNext, listVars
<1>2. Types' /\ Fresh'
  BY <1>1, TypesStep, FreshStep DEF OrderInv
<1>3. ASSUME NEW c \in Clients, LookupMiss(c), Stamp
      PROVE  OrderInv' /\ jobs \subseteq jobs'
             /\ \A q, r \in jobs : <<q, r>> \in older => <<q, r>> \in older'
  <2>1. /\ Row(c) \notin Kept /\ Kept' = Kept \cup {Row(c)} /\ jobs' = jobs
        /\ {Row(d) : d \in {e \in Clients : pc[e] = "lookup" /\ pc'[e] = "insert"}} = {Row(c)}
    BY <1>3, MissCreates
  <2>2. older' = {p \in older : p[1] \in Kept' /\ p[2] \in Kept'} \cup (Kept \X {Row(c)})
    BY <1>3, <2>1 DEF Stamp
  <2>3. older' = older \cup (Kept \X {Row(c)})
    BY <2>1, <2>2 DEF OrderInv, StrictOrder
  <2>4. StrictOrder(older', Kept')
    BY <2>1, <2>3, OrderWithYoungest DEF OrderInv
  <2>5. QED
    BY <1>2, <2>1, <2>3, <2>4 DEF OrderInv, StrictOrder
<1>4. ASSUME NEW c \in Clients, Stamp,
             Request(c) \/ LookupHit(c) \/ Insert(c) \/ Commit(c) \/ Push(c) \/ ReadBack(c) \/ Fail(c)
      PROVE  OrderInv' /\ jobs \subseteq jobs'
             /\ \A q, r \in jobs : <<q, r>> \in older => <<q, r>> \in older'
  <2>1. /\ Kept' \subseteq Kept
        /\ jobs' = jobs \/ jobs' = jobs \cup {Row(c)}
        /\ {e \in Clients : pc[e] = "lookup" /\ pc'[e] = "insert"} = {}
    BY <1>4, OthersCreateNone
  <2>2. older' = {p \in older : p[1] \in Kept' /\ p[2] \in Kept'}
    BY <1>4, <2>1 DEF Stamp
  <2>3. StrictOrder(older', Kept')
    BY <2>1, <2>2, OrderOfFewer DEF OrderInv
  <2>4. IsFiniteSet(jobs')
    BY <2>1, FS_AddElement DEF OrderInv
  <2>5. jobs \subseteq Kept'
    BY <2>1 DEF Kept
  <2>6. QED
    BY <1>2, <2>1, <2>2, <2>3, <2>4, <2>5 DEF OrderInv, StrictOrder
<1>5. CASE UNCHANGED <<vars, older>>
  <2>1. Kept' = Kept
    BY <1>5 DEF vars, Kept, Row
  <2>2. QED
    BY <1>2, <1>5, <2>1 DEF vars, OrderInv, StrictOrder
<1>6. QED
  BY <1>3, <1>4, <1>5 DEF ListNext, listVars, Next, Serve

-----------------------------------------------------------------------------
\* Ranks are natural numbers below the number of rows, a different one for
\* every row.
LEMMA RankIsInjective ==
  ASSUME OrderInv
  PROVE  /\ Cardinality(jobs) \in Nat
         /\ \A r \in jobs : Rank(r) \in Nat /\ Rank(r) < Cardinality(jobs)
         /\ \A q, r \in jobs : Rank(q) = Rank(r) => q = r
<1> DEFINE n == Cardinality(jobs)
<1>1. /\ IsFiniteSet(jobs) /\ n \in Nat /\ StrictOrder(older, Kept) /\ jobs \subseteq Kept
  BY FS_CardinalityType DEF OrderInv, Kept
<1>2. \A r \in jobs : /\ Newer(r) \subseteq jobs /\ r \notin Newer(r)
                      /\ IsFiniteSet(Newer(r)) /\ Rank(r) \in Nat
  <2>1. ASSUME NEW r \in jobs PROVE Newer(r) \subseteq jobs /\ r \notin Newer(r)
    BY <1>1 DEF Newer, StrictOrder
  <2>2. QED
    BY <1>1, <2>1, FS_Subset, FS_CardinalityType DEF Rank
<1>3. \A r \in jobs : Rank(r) < n
  <2>1. ASSUME NEW r \in jobs PROVE Rank(r) < n
    <3>1. Newer(r) # jobs /\ Rank(r) <= n
      BY <1>1, <1>2, FS_Subset DEF Rank
    <3>2. Rank(r) # n
      BY <1>1, <1>2, <3>1, FS_Subset DEF Rank
    <3>3. QED
      BY <1>1, <1>2, <3>1, <3>2
  <2>2. QED
    BY <2>1
<1>4. \A q, r \in jobs : <<q, r>> \in older => Rank(r) < Rank(q)
  <2>1. ASSUME NEW q \in jobs, NEW r \in jobs, <<q, r>> \in older PROVE Rank(r) < Rank(q)
    <3>1. Newer(r) \subseteq Newer(q) /\ r \in Newer(q) /\ r \notin Newer(r)
      BY <1>1, <1>2, <2>1 DEF Newer, StrictOrder
    <3>2. Rank(r) <= Rank(q) /\ Rank(r) # Rank(q)
      BY <1>2, <3>1, FS_Subset DEF Rank
    <3>3. QED
      BY <1>2, <3>2
  <2>2. QED
    BY <2>1
<1>5. \A q, r \in jobs : Rank(q) = Rank(r) => q = r
  <2>1. ASSUME NEW q \in jobs, NEW r \in jobs, q # r PROVE Rank(q) # Rank(r)
    <3>1. Rank(q) < Rank(r) \/ Rank(r) < Rank(q)
      BY <1>1, <1>4, <2>1 DEF StrictOrder
    <3>2. QED
      BY <1>2, <3>1
  <2>2. QED
    BY <2>1
<1>6. QED
  BY <1>1, <1>2, <1>3, <1>5

\* Every place of the list is taken: of n committed rows, some row has rank v
\* for every v < n.
LEMMA RanksAreTaken ==
  ASSUME OrderInv, NEW v \in Nat, v < Cardinality(jobs)
  PROVE  \E r \in jobs : Rank(r) = v
<1> DEFINE n == Cardinality(jobs)
           places == 0 .. n - 1
           free == places \ {v}
           f == [r \in jobs |-> Rank(r)]
<1>1. SUFFICES ASSUME \A r \in jobs : Rank(r) # v PROVE FALSE
  OBVIOUS
<1>2. /\ IsFiniteSet(jobs) /\ n \in Nat
      /\ \A r \in jobs : Rank(r) \in Nat /\ Rank(r) < n
  BY RankIsInjective DEF OrderInv
<1>3. IsFiniteSet(free) /\ Cardinality(free) < n
  <2> HIDE DEF n
  <2>1. 0 \in Int /\ n - 1 \in Int /\ (n = 0 \/ n - 1 >= 0)
    BY <1>2
  <2>2. IsFiniteSet(places) /\ Cardinality(places) = n
    BY <1>2, <2>1, FS_Interval
  <2>3. v \in places /\ n - 1 < n
    BY <1>2 DEF n
  <2> HIDE DEF places
  <2>4. IsFiniteSet(places \ {v}) /\ Cardinality(places \ {v}) = n - 1
    BY <2>2, <2>3, FS_RemoveElement
  <2>5. QED
    BY <2>3, <2>4
<1>4. f \in [jobs -> free]
  BY <1>1, <1>2
<1> HIDE DEF f, free
<1>5. PICK q, r \in jobs : q # r /\ f[q] = f[r]
  BY <1>2, <1>3, <1>4, FS_PigeonHole
<1>6. QED
  BY <1>5, RankIsInjective DEF f

\* A page is full if a row comes after it.
LEMMA PageIsFull ==
  ASSUME OrderInv, NEW offset \in Nat, NEW r \in jobs, Rank(r) >= offset + PageSize
  PROVE  Cardinality(list_jobs(offset)) = PageSize
<1> DEFINE rows == list_jobs(offset)
           places == offset .. offset + PageSize - 1
           f == [q \in rows |-> Rank(q)]
<1>1. IsFiniteSet(jobs) /\ PageSize \in Nat \ {0}
  BY PageSizeAssumption DEF OrderInv
<1>2. Cardinality(jobs) \in Nat
      /\ \A q \in jobs : Rank(q) \in Nat /\ Rank(q) < Cardinality(jobs)
  BY RankIsInjective
<1>3. rows = {q \in jobs : Rank(q) \in places}
  BY <1>1, <1>2 DEF list_jobs
<1>4. ASSUME NEW v \in places PROVE \E q \in rows : f[q] = v
  <2>1. v \in Nat /\ v < Cardinality(jobs)
    BY <1>1, <1>2
  <2>2. PICK q \in jobs : Rank(q) = v
    BY <2>1, RanksAreTaken
  <2>3. QED
    BY <1>3, <2>2
<1>5. ASSUME NEW q \in rows, NEW s \in rows, f[q] = f[s] PROVE q = s
  BY <1>3, <1>5, RankIsInjective
<1>6. f \in [rows -> places]
  BY <1>3
<1> HIDE DEF f, rows, places
<1>7. f \in Surjection(rows, places) /\ f \in Injection(rows, places)
  BY <1>4, <1>5, <1>6 DEF Surjection, Injection, IsInjective
<1>8. IsFiniteSet(rows)
  BY <1>1, <1>3, FS_Subset
<1>9. Cardinality(places) = Cardinality(rows)
  BY <1>7, <1>8, FS_Surjection
<1>10. Cardinality(places) = PageSize
  BY <1>1, FS_Interval DEF places
<1>11. QED
  BY <1>9, <1>10 DEF rows

\* What a client that pages may not have read yet is on the pages to come.
PageInv ==
  /\ page \in Nat /\ (page = 0 => paging)
  /\ due \subseteq jobs /\ \A r \in due : Rank(r) >= page * PageSize
  /\ ~ paging => due = {}

\* Rows only move down the list.
LEMMA RanksGrow ==
  ASSUME OrderInv, OrderInv', jobs \subseteq jobs',
         \A q, r \in jobs : <<q, r>> \in older => <<q, r>> \in older',
         NEW r \in jobs
  PROVE  Rank(r) \in Nat /\ Rank(r)' \in Nat /\ Rank(r) <= Rank(r)'
<1>1. Newer(r) \subseteq Newer(r)' /\ Newer(r)' \subseteq jobs' /\ Newer(r) \subseteq jobs
  BY DEF Newer
<1>2. IsFiniteSet(Newer(r)') /\ IsFiniteSet(Newer(r))
  BY <1>1, FS_Subset DEF OrderInv
<1>3. QED
  BY <1>1, <1>2, FS_Subset, FS_CardinalityType DEF Rank

LEMMA NextPageStep == OrderInv /\ PageInv /\ NextPage /\ UNCHANGED <<vars, older>> => PageInv'
<1> SUFFICES ASSUME OrderInv, PageInv, NextPage, UNCHANGED <<vars, older>> PROVE PageInv'
  OBVIOUS
<1> DEFINE offset == page * PageSize
           rows == list_jobs(offset)
           asked == IF page = 0 THEN jobs ELSE due
<1>1. /\ due' = asked \ rows /\ (paging' <=> Cardinality(rows) = PageSize) /\ page' = page + 1
  BY DEF NextPage
<1>2. /\ offset \in Nat /\ PageSize \in Nat /\ page \in Nat /\ page' * PageSize = offset + PageSize
      /\ page = 0 => offset = 0
  BY <1>1, PageSizeAssumption DEF PageInv
<1>3. \A r \in jobs : Rank(r)' = Rank(r) /\ Rank(r) \in Nat
  BY RankIsInjective DEF Rank, Newer, vars
<1>4. asked \subseteq jobs /\ \A r \in asked : Rank(r) >= offset
  BY <1>2, <1>3 DEF PageInv
<1> HIDE DEF asked, offset
<1>5. \A r \in due' : r \in jobs /\ Rank(r) >= offset + PageSize
  BY <1>1, <1>2, <1>3, <1>4 DEF list_jobs
<1>6. \A r \in due' : Cardinality(rows) = PageSize
  BY <1>2, <1>5, PageIsFull
<1> HIDE DEF rows
<1>7. ~ paging' => due' = {}
  BY <1>1, <1>6
<1>8. due' \subseteq jobs' /\ \A r \in due' : Rank(r)' >= page' * PageSize
  BY <1>2, <1>3, <1>5 DEF vars
<1>9. page' \in Nat /\ page' # 0
  BY <1>1, <1>2
<1>10. QED
  BY <1>7, <1>8, <1>9 DEF PageInv

\* A page misses no row that was committed when the client began, whatever is
\* submitted, committed late or rolled back in between.
THEOREM PagingMissesNoRow == ListSpec => []NoRowMissed
<1>1. ListInit => OrderInv /\ PageInv
  <2> SUFFICES ASSUME ListInit PROVE OrderInv /\ PageInv
    OBVIOUS
  <2>1. Types
    BY InvInit DEF ListInit, Inv
  <2>2. jobs = {} /\ older = {} /\ Kept = {}
    BY DEF ListInit, Init, Kept
  <2>3. OrderInv
    BY <2>1, <2>2, FS_EmptySet DEF ListInit, Init, OrderInv, Fresh, StrictOrder
  <2>4. PageInv
    BY DEF ListInit, PageInv
  <2>5. QED
    BY <2>3, <2>4
<1>2. OrderInv /\ PageInv /\ [ListNext]_listVars => (OrderInv /\ PageInv)'
  <2> SUFFICES ASSUME OrderInv, PageInv, [ListNext]_listVars PROVE OrderInv' /\ PageInv'
    OBVIOUS
  <2>1. /\ OrderInv' /\ jobs \subseteq jobs'
        /\ \A q, r \in jobs : <<q, r>> \in older => <<q, r>> \in older'
    BY OrderStep
  <2>2. CASE UNCHANGED pager
    <3>1. page' = page /\ due' = due /\ paging' = paging
      BY <2>2 DEF pager
    <3>2. page * PageSize \in Nat
      BY PageSizeAssumption DEF PageInv
    <3>3. \A r \in due : Rank(r)' >= page * PageSize
      BY <2>1, <3>2, RanksGrow DEF PageInv
    <3>4. QED
      BY <2>1, <3>1, <3>3 DEF PageInv
  <2>3. CASE NextPage /\ UNCHANGED <<vars, older>>
    BY <2>1, <2>3, NextPageStep
  <2>4. QED
    BY <2>2, <2>3 DEF ListNext, listVars
<1>3. PageInv => NoRowMissed
  BY DEF PageInv, NoRowMissed
<1>4. QED
  BY <1>1, <1>2, <1>3, PTL DEF ListSpec
=============================================================================

------------------------- MODULE WorkflowEngineProofs -------------------------
(***************************************************************************)
(* The sort and the run of a workflow, for definitions of any length, with *)
(* any names, dependencies and cycles.                                     *)
(***************************************************************************)
EXTENDS WorkflowEngine, SequenceTheorems, FiniteSetTheorems, WellFoundedInduction, TLAPS

Steps == [name : StepNames, action : KNOWN_ACTIONS \cup OtherActions,
          depends_on : Seq(StepNames)]
Results == [name : StepNames, counted : Nat]
RunStates == {"none", "pending", "running", "succeeded"}

Types ==
  /\ request \in Seq(Steps) /\ request # <<>>
  /\ pc \in {"received", "saved", "sorting", "running", "finished", "answered", "rejected"}
  /\ workflow \in Seq(Steps)
  /\ run \in [state : RunStates, current_step : StepNames \cup {"none"},
              step_results : Seq(Results)]
  /\ listed \in Seq(Steps) /\ calls \in Seq(Steps) /\ order \in Seq(Steps)
  /\ visited \subseteq StepNames
  /\ results \in Seq(Results)

\* What is saved is what was sent and accepted; before and after the run the
\* locals of the sort are empty.
Phases ==
  /\ pc \notin {"received", "rejected"} => workflow = request /\ Valid(request)
  /\ pc \in {"received", "saved", "rejected"} =>
       listed = <<>> /\ calls = <<>> /\ visited = {} /\ order = <<>> /\ results = <<>>
  /\ pc \in {"running", "finished", "answered"} => listed = <<>> /\ calls = <<>>
  /\ pc \in {"finished", "answered"} => order = <<>> /\ run.state = "succeeded"

Distinct(list) == \A i, j \in DOMAIN list : list[i].name = list[j].name => i = j
Apart(s, t) == Names(s) \cap Names(t) = {}

\* A name that was visited has run, is sorted or is being visited, and only
\* one of these, once.
Marks ==
  /\ visited = Names(results) \cup Names(order) \cup Names(calls)
  /\ visited \subseteq Names(workflow)
  /\ pc \notin {"received", "saved", "rejected"} =>
       Names(workflow) \subseteq visited \cup Names(listed)
  /\ Names(listed) \subseteq Names(workflow)
  /\ Distinct(results) /\ Distinct(order) /\ Distinct(calls)
  /\ Apart(results, order) /\ Apart(results, calls) /\ Apart(order, calls)

\* The calls are a path of dependencies; each has visited what it is not yet
\* to visit.
PathOf(stack, seen) ==
  /\ \A k \in DOMAIN stack :
       /\ ToSet(stack[k].depends_on) \subseteq Needs(workflow, stack[k].name)
       /\ Needs(workflow, stack[k].name) \subseteq seen \cup ToSet(stack[k].depends_on)
  /\ \A k \in DOMAIN stack : k + 1 \in DOMAIN stack =>
       stack[k + 1].name \in Needs(workflow, stack[k].name)
Path == PathOf(calls, visited)

\* Without a cycle every step comes after those it needs.
NamesBefore(list, i) == {list[j].name : j \in 1 .. i - 1}
Sequenced ==
  /\ \A i \in DOMAIN order : order[i] = StepNamed(workflow, order[i].name)
  /\ Acyclic(workflow) => \A i \in DOMAIN order :
       Needs(workflow, order[i].name) \subseteq Names(results) \cup NamesBefore(order, i)
  /\ Acyclic(workflow) => DependenciesRanFirst

Complete == run.state = "succeeded" => Names(run.step_results) = Names(request)
Visible == Complete /\ OnlyFinishedRunsAreVisible

Inv == Types /\ Phases /\ Marks /\ Path /\ Sequenced /\ Visible

-----------------------------------------------------------------------------
\* A non-empty set of indices has a greatest one.
LEMMA GreatestIndex ==
  ASSUME NEW n \in Nat, NEW T \in SUBSET (1 .. n), T # {}
  PROVE  \E i \in T : \A k \in T : k <= i
<1> DEFINE U == {m \in Nat : \E i \in T : m = n - i}
<1>1. U \subseteq Nat
  OBVIOUS
<1>2. U # {}
  <2>1. PICK i \in T : TRUE
    OBVIOUS
  <2>2. n - i \in U
    OBVIOUS
  <2>3. QED
    BY <2>2
<1> HIDE DEF U
<1>3. PICK m \in U : \A y \in U : ~ (<<y, m>> \in OpToRel(<, Nat))
  BY <1>1, <1>2, WFMin, NatLessThanWellFounded
<1>4. \A y \in U : ~ (y < m)
  BY <1>1, <1>3 DEF OpToRel
<1>5. PICK i \in T : m = n - i
  BY <1>3 DEF U
<1>6. ASSUME NEW k \in T PROVE k <= i
  <2>1. n - k \in U
    BY DEF U
  <2>2. ~ (n - k < n - i)
    BY <2>1, <1>4, <1>5
  <2>3. i \in Int /\ k \in Int /\ n \in Int
    OBVIOUS
  <2>4. QED
    BY <2>2, <2>3
<1>7. QED
  BY <1>6

LEMMA StepNamedIsListed ==
  ASSUME NEW list \in Seq(Steps), NEW name \in Names(list)
  PROVE  /\ StepNamed(list, name) \in Steps
         /\ StepNamed(list, name).name = name
         /\ \E i \in DOMAIN list : StepNamed(list, name) = list[i]
<1> DEFINE T == {i \in DOMAIN list : list[i].name = name}
           Last1(i) == /\ list[i].name = name
                       /\ \A k \in DOMAIN list : list[k].name = name => k <= i
<1>1. Len(list) \in Nat /\ DOMAIN list = 1 .. Len(list)
  OBVIOUS
<1>2. T \in SUBSET (1 .. Len(list)) /\ T # {}
  BY <1>1 DEF Names
<1>3. PICK i \in T : \A k \in T : k <= i
  <2> HIDE DEF T
  <2>1. QED
    BY <1>1, <1>2, GreatestIndex
<1>4. i \in DOMAIN list /\ Last1(i)
  BY <1>3
<1> DEFINE c == CHOOSE k \in DOMAIN list : Last1(k)
<1>5. c \in DOMAIN list /\ Last1(c)
  <2> HIDE DEF Last1
  <2>1. QED
    BY <1>4
<1>6. StepNamed(list, name) = list[c]
  BY DEF StepNamed
<1> HIDE DEF c
<1>7. list[c] \in Steps
  BY <1>5
<1>8. QED
  BY <1>5, <1>6, <1>7

-----------------------------------------------------------------------------
LEMMA NamesAppend ==
  ASSUME NEW S, NEW s \in Seq(S), NEW e \in S
  PROVE  /\ Append(s, e) \in Seq(S)
         /\ Names(Append(s, e)) = Names(s) \cup {e.name}
         /\ Distinct(s) /\ e.name \notin Names(s) => Distinct(Append(s, e))
<1> DEFINE t == Append(s, e)
<1>1. /\ t \in Seq(S) /\ Len(t) = Len(s) + 1 /\ t[Len(t)] = e
      /\ \A i \in 1 .. Len(s) : t[i] = s[i]
      /\ DOMAIN s = 1 .. Len(s) /\ DOMAIN t = 1 .. Len(s) + 1 /\ Len(s) \in Nat
  BY AppendProperties, LenProperties
<1> HIDE DEF t
<1>2. Names(t) = Names(s) \cup {e.name}
  BY <1>1 DEF Names
<1>3. Distinct(s) /\ e.name \notin Names(s) => Distinct(t)
  BY <1>1 DEF Names, Distinct
<1>4. QED
  BY <1>1, <1>2, <1>3 DEF t

LEMMA NamesTail ==
  ASSUME NEW S, NEW s \in Seq(S), s # <<>>
  PROVE  /\ Head(s) \in S /\ Tail(s) \in Seq(S)
         /\ Names(s) = {Head(s).name} \cup Names(Tail(s))
         /\ Distinct(s) => Distinct(Tail(s)) /\ Head(s).name \notin Names(Tail(s))
<1> DEFINE t == Tail(s)
<1>1. /\ t \in Seq(S) /\ Len(t) = Len(s) - 1 /\ Head(s) = s[1] /\ s[1] \in S
      /\ \A i \in 1 .. Len(t) : t[i] = s[i + 1]
      /\ DOMAIN s = 1 .. Len(s) /\ DOMAIN t = 1 .. Len(s) - 1 /\ Len(s) \in Nat \ {0}
  BY HeadTailProperties, LenProperties, EmptySeq
<1>2. \A i \in DOMAIN s : i = 1 \/ (i - 1 \in DOMAIN t /\ s[i] = t[i - 1])
  BY <1>1
<1>3. \A i \in DOMAIN t : i + 1 \in DOMAIN s /\ t[i] = s[i + 1] /\ i + 1 # 1
  BY <1>1
<1> HIDE DEF t
<1>4. Names(s) = {Head(s).name} \cup Names(t)
  <2>1. s[1].name \in Names(s) /\ \A i \in DOMAIN t : t[i].name \in Names(s)
    BY <1>1, <1>3 DEF Names
  <2>2. \A i \in DOMAIN s : i = 1 \/ s[i].name \in Names(t)
    BY <1>2 DEF Names
  <2>3. Names(s) \subseteq {Head(s).name} \cup Names(t)
    BY <1>1, <2>2 DEF Names
  <2>4. Names(t) \subseteq Names(s)
    BY <2>1 DEF Names
  <2>5. QED
    BY <1>1, <2>1, <2>3, <2>4
<1>5. ASSUME Distinct(s) PROVE Distinct(t) /\ Head(s).name \notin Names(t)
  <2>1. Distinct(t)
    <3>1. ASSUME NEW i \in DOMAIN t, NEW j \in DOMAIN t, t[i].name = t[j].name PROVE i = j
      <4>1. i + 1 = j + 1
        BY <1>3, <1>5, <3>1 DEF Distinct
      <4>2. QED
        BY <4>1, <1>1
    <3>2. QED
      BY <3>1 DEF Distinct
  <2>2. QED
    BY <1>1, <1>3, <1>5, <2>1 DEF Names, Distinct
<1>6. QED
  BY <1>1, <1>4, <1>5 DEF t

LEMMA NamesFront ==
  ASSUME NEW S, NEW s \in Seq(S), s # <<>>
  PROVE  /\ Last(s) \in S /\ Front(s) \in Seq(S)
         /\ Len(Front(s)) = Len(s) - 1 /\ \A i \in DOMAIN Front(s) : Front(s)[i] = s[i]
         /\ Names(s) = Names(Front(s)) \cup {Last(s).name}
         /\ Distinct(s) => Distinct(Front(s)) /\ Last(s).name \notin Names(Front(s))
<1> DEFINE t == Front(s)
<1>1. Len(s) \in Nat \ {0} /\ DOMAIN s = 1 .. Len(s) /\ \A i \in 1 .. Len(s) : s[i] \in S
  BY EmptySeq, LenProperties, ElementOfSeq
<1>2. /\ t \in Seq(S) /\ Len(t) = Len(s) - 1
      /\ \A i \in 1 .. Len(s) - 1 : t[i] = s[i]
  <2>1. 1 \in Int /\ Len(s) - 1 \in Int /\ \A i \in 1 .. Len(s) - 1 : s[i] \in S
    BY <1>1
  <2>2. /\ t \in Seq(S) /\ Len(t) = IF 1 <= Len(s) - 1 THEN (Len(s) - 1) - 1 + 1 ELSE 0
        /\ \A i \in 1 .. (Len(s) - 1) - 1 + 1 : t[i] = s[1 + i - 1]
    BY <2>1, SubSeqProperties DEF Front
  <2> HIDE DEF t
  <2>3. ASSUME NEW n \in Nat \ {0}
        PROVE  /\ (IF 1 <= n - 1 THEN (n - 1) - 1 + 1 ELSE 0) = n - 1
               /\ 1 .. (n - 1) - 1 + 1 = 1 .. n - 1
               /\ \A i \in 1 .. n - 1 : 1 + i - 1 = i
    OBVIOUS
  <2>4. QED
    BY <2>2, <2>3, <1>1
<1>3. DOMAIN t = 1 .. Len(s) - 1
  BY <1>2, LenProperties
<1>4. Last(s) = s[Len(s)]
  BY DEF Last
<1> HIDE DEF t
<1>5. Names(s) = Names(t) \cup {Last(s).name}
  BY <1>1, <1>2, <1>3, <1>4 DEF Names
<1>6. Distinct(s) => Distinct(t) /\ Last(s).name \notin Names(t)
  BY <1>1, <1>2, <1>3, <1>4 DEF Names, Distinct
<1>7. QED
  BY <1>1, <1>2, <1>3, <1>4, <1>5, <1>6 DEF t

LEMMA SetOfTail ==
  ASSUME NEW S, NEW s \in Seq(S), s # <<>>
  PROVE  Head(s) \in S /\ Tail(s) \in Seq(S) /\ ToSet(s) = {Head(s)} \cup ToSet(Tail(s))
<1> DEFINE t == Tail(s)
<1>1. /\ t \in Seq(S) /\ Len(t) = Len(s) - 1 /\ Head(s) = s[1] /\ s[1] \in S
      /\ \A i \in 1 .. Len(t) : t[i] = s[i + 1]
      /\ DOMAIN s = 1 .. Len(s) /\ DOMAIN t = 1 .. Len(s) - 1 /\ Len(s) \in Nat \ {0}
  BY HeadTailProperties, LenProperties, EmptySeq
<1>2. \A i \in DOMAIN s : i = 1 \/ (i - 1 \in DOMAIN t /\ s[i] = t[i - 1])
  BY <1>1
<1>3. 1 \in DOMAIN s /\ \A i \in DOMAIN t : i + 1 \in DOMAIN s /\ t[i] = s[i + 1]
  BY <1>1
<1> HIDE DEF t
<1>4. ToSet(s) = {Head(s)} \cup ToSet(t)
  <2>1. s[1] \in ToSet(s) /\ \A i \in DOMAIN t : t[i] \in ToSet(s)
    BY <1>3 DEF ToSet
  <2>2. \A i \in DOMAIN s : i = 1 \/ s[i] \in ToSet(t)
    BY <1>2 DEF ToSet
  <2>3. ToSet(s) \subseteq {Head(s)} \cup ToSet(t)
    BY <1>1, <2>2 DEF ToSet
  <2>4. ToSet(t) \subseteq ToSet(s)
    BY <2>1 DEF ToSet
  <2>5. QED
    BY <1>1, <2>1, <2>3, <2>4
<1>5. QED
  BY <1>1, <1>4 DEF t

\* At most as many names as elements, and as many if no name repeats.
LEMMA CountNames ==
  ASSUME NEW S, NEW s \in Seq(S)
  PROVE  /\ IsFiniteSet(Names(s)) /\ Cardinality(Names(s)) \in Nat
         /\ Cardinality(Names(s)) <= Len(s)
         /\ Distinct(s) => Cardinality(Names(s)) = Len(s)
<1> DEFINE f == [i \in 1 .. Len(s) |-> s[i].name]
<1>1. Len(s) \in Nat /\ DOMAIN s = 1 .. Len(s)
  BY LenProperties
<1>2. f \in Surjection(1 .. Len(s), Names(s))
  BY <1>1 DEF Names, Surjection
<1>3. IsFiniteSet(1 .. Len(s)) /\ Cardinality(1 .. Len(s)) = Len(s)
  BY <1>1, FS_Interval
<1>4. Distinct(s) => f \in Injection(1 .. Len(s), Names(s))
  BY <1>1, <1>2 DEF Distinct, Injection, Surjection, IsInjective
<1> HIDE DEF f
<1>5. /\ IsFiniteSet(Names(s)) /\ Cardinality(Names(s)) <= Cardinality(1 .. Len(s))
      /\ Cardinality(Names(s)) = Cardinality(1 .. Len(s)) <=> f \in Injection(1 .. Len(s), Names(s))
  BY <1>2, <1>3, FS_Surjection
<1>6. QED
  BY <1>3, <1>4, <1>5, FS_CardinalityType

\* The names of the first elements, as the properties write them.
LEMMA NamesOfPrefix ==
  ASSUME NEW S, NEW s \in Seq(S), NEW i \in DOMAIN s
  PROVE  /\ Names(SubSeq(s, 1, i - 1)) = NamesBefore(s, i)
         /\ IsFiniteSet(NamesBefore(s, i)) /\ Cardinality(NamesBefore(s, i)) <= i - 1
<1> DEFINE t == SubSeq(s, 1, i - 1)
<1>1. /\ i \in 1 .. Len(s) /\ Len(s) \in Nat /\ 1 \in Int /\ i - 1 \in Int
      /\ \A k \in 1 .. i - 1 : s[k] \in S
  BY LenProperties, ElementOfSeq
<1>2. /\ t \in Seq(S) /\ Len(t) = IF 1 <= i - 1 THEN (i - 1) - 1 + 1 ELSE 0
      /\ \A k \in 1 .. (i - 1) - 1 + 1 : t[k] = s[1 + k - 1]
  BY <1>1, SubSeqProperties
<1>3. /\ (IF 1 <= i - 1 THEN (i - 1) - 1 + 1 ELSE 0) = i - 1
      /\ 1 .. (i - 1) - 1 + 1 = 1 .. i - 1
      /\ \A k \in 1 .. i - 1 : 1 + k - 1 = k
  BY <1>1
<1> HIDE DEF t
<1>4. DOMAIN t = 1 .. i - 1 /\ \A k \in 1 .. i - 1 : t[k] = s[k]
  BY <1>2, <1>3, LenProperties
<1>5. Names(t) = NamesBefore(s, i)
  BY <1>4 DEF Names, NamesBefore
<1>6. QED
  BY <1>2, <1>3, <1>5, CountNames DEF t

LEMMA NeedsAreListed ==
  ASSUME NEW list \in Seq(Steps), Valid(list), NEW name \in Names(list)
  PROVE  Needs(list, name) \subseteq Names(list)
BY StepNamedIsListed DEF Valid, Needs

\* No call of the sort can need one that is not finished: the calls between
\* them would be a cycle.
LEMMA NoCallIsNeeded ==
  ASSUME Types, Marks, Path, Acyclic(workflow),
         NEW j \in DOMAIN calls, calls[j].name \in Needs(workflow, Last(calls).name)
  PROVE  FALSE
<1> DEFINE n == Len(calls)
           cycle == {calls[k].name : k \in j .. n}
<1>1. n \in Nat /\ DOMAIN calls = 1 .. n /\ Last(calls) = calls[n]
  BY DEF Types, Last
<1>2. j \in 1 .. n /\ j .. n \subseteq 1 .. n
  BY <1>1
<1> HIDE DEF n, cycle
<1>3. cycle \subseteq Names(workflow) /\ cycle # {}
  <2>1. \A k \in j .. n : calls[k].name \in Names(workflow)
    BY <1>1, <1>2 DEF Marks, Names
  <2>2. calls[j].name \in cycle
    BY <1>2 DEF cycle
  <2>3. QED
    BY <2>1, <2>2 DEF cycle
<1>4. ASSUME NEW k \in j .. n PROVE Needs(workflow, calls[k].name) \cap cycle # {}
  <2>1. CASE k = n
    <3>1. calls[j].name \in cycle
      BY <1>2 DEF cycle
    <3>2. QED
      BY <2>1, <3>1, <1>1
  <2>2. CASE k # n
    <3>1. k + 1 \in j .. n /\ k \in DOMAIN calls /\ k + 1 \in DOMAIN calls
      BY <2>2, <1>1, <1>2
    <3>2. calls[k + 1].name \in Needs(workflow, calls[k].name)
      BY <3>1 DEF Path, PathOf
    <3>3. calls[k + 1].name \in cycle
      BY <3>1 DEF cycle
    <3>4. QED
      BY <3>2, <3>3
  <2>3. QED
    BY <2>1, <2>2
<1>5. \A name \in cycle : Needs(workflow, name) \cap cycle # {}
  <2>1. \A name \in cycle : \E k \in j .. n : name = calls[k].name
    BY DEF cycle
  <2>2. QED
    BY <2>1, <1>4
<1>6. QED
  BY <1>3, <1>5 DEF Acyclic

-----------------------------------------------------------------------------
\* What a visit does to the calls and the marks, whichever loop asks for it:
\* stack is the calls with the name taken off what the innermost has to visit.
LEMMA VisitKeeps ==
  ASSUME Inv, NEW stack \in Seq(Steps), NEW name \in Names(workflow),
         Names(stack) = Names(calls), Distinct(stack),
         PathOf(stack, visited \cup {name}),
         Len(stack) # 0 => name \in Needs(workflow, stack[Len(stack)].name),
         visit(stack, name), UNCHANGED <<workflow, results, order>>
  PROVE  /\ calls' \in Seq(Steps)
         /\ visited' = visited \cup {name} /\ visited' \subseteq Names(workflow)
         /\ visited' = Names(results) \cup Names(order) \cup Names(calls')
         /\ Distinct(calls') /\ Apart(results, calls') /\ Apart(order, calls')
         /\ Path'
<1> DEFINE step == StepNamed(workflow, name)
<1>1. step \in Steps /\ step.name = name /\ ToSet(step.depends_on) = Needs(workflow, name)
  BY StepNamedIsListed DEF Inv, Types, Needs
<1>2. Path' <=> PathOf(calls', visited')
  BY DEF Path, PathOf, Needs
<1> HIDE DEF step
<1>3. CASE name \in visited
  <2>1. calls' = stack /\ visited' = visited /\ visited \cup {name} = visited
    BY <1>3 DEF visit
  <2>2. QED
    BY <2>1, <1>2 DEF Inv, Marks, Apart
<1>4. CASE name \notin visited
  <2>1. calls' = Append(stack, step) /\ visited' = visited \cup {name}
    BY <1>4 DEF visit, step
  <2>2. name \notin Names(stack) /\ name \notin Names(results) /\ name \notin Names(order)
    BY <1>4 DEF Inv, Marks
  <2>3. /\ calls' \in Seq(Steps) /\ Distinct(calls') /\ Names(calls') = Names(stack) \cup {name}
    BY <1>1, <2>1, <2>2, NamesAppend
  <2>4. PathOf(calls', visited')
    <3> DEFINE n == Len(stack)
    <3>1. /\ n \in Nat /\ DOMAIN stack = 1 .. n /\ DOMAIN calls' = 1 .. n + 1
          /\ calls'[n + 1] = step /\ \A k \in 1 .. n : calls'[k] = stack[k]
      BY <1>1, <2>1, <2>3, AppendProperties, LenProperties
    <3> HIDE DEF n
    <3>2. ASSUME NEW k \in 1 .. n + 1
          PROVE  /\ ToSet(calls'[k].depends_on) \subseteq Needs(workflow, calls'[k].name)
                 /\ Needs(workflow, calls'[k].name) \subseteq visited' \cup ToSet(calls'[k].depends_on)
      <4>1. CASE k \in 1 .. n
        BY <4>1, <3>1, <2>1 DEF PathOf
      <4>2. CASE k = n + 1
        BY <4>2, <3>1, <1>1
      <4>3. QED
        BY <4>1, <4>2, <3>1
    <3>3. ASSUME NEW k \in 1 .. n + 1, k + 1 \in 1 .. n + 1
          PROVE  calls'[k + 1].name \in Needs(workflow, calls'[k].name)
      <4>1. CASE k + 1 \in 1 .. n
        <5>1. k \in 1 .. n
          BY <3>1, <4>1
        <5>2. QED
          BY <5>1, <4>1, <3>1 DEF PathOf
      <4>2. CASE k + 1 = n + 1
        <5>1. k = n /\ k \in 1 .. n /\ n # 0
          BY <3>1, <4>2
        <5>2. calls'[k + 1].name = name /\ calls'[k] = stack[n]
          BY <5>1, <3>1, <1>1
        <5>3. QED
          BY <5>1, <5>2 DEF n
      <4>3. QED
        BY <4>1, <4>2, <3>1, <3>3
    <3>4. QED
      BY <3>1, <3>2, <3>3 DEF PathOf, Needs
  <2>5. QED
    BY <2>1, <2>2, <2>3, <2>4, <1>2 DEF Inv, Marks, Apart
<1>5. QED
  BY <1>3, <1>4

\* What holds of variables that do not change goes on to hold.
LEMMA SameVisible ==
  ASSUME OnlyFinishedRunsAreVisible, committed' = committed
  PROVE  OnlyFinishedRunsAreVisible'
BY ZenonT(30) DEF OnlyFinishedRunsAreVisible, get_run, workflow_name, Names, Nothing, NoRun, NoDefinition

LEMMA SameComplete ==
  ASSUME Complete, request' = request, run' = run \/ run'.state # "succeeded"
  PROVE  Complete'
<1>1. CASE run' = run
  <2>1. Names(request)' = Names(request) /\ Names(run.step_results)' = Names(run.step_results)
    BY <1>1 DEF Names
  <2>2. QED
    BY <1>1, <2>1 DEF Complete
<1>2. CASE run'.state # "succeeded"
  BY <1>2 DEF Complete
<1>3. QED
  BY <1>1, <1>2

LEMMA SameOrder ==
  ASSUME Path, Sequenced, UNCHANGED <<workflow, calls, visited, order, results>>
  PROVE  Path' /\ Sequenced'
BY DEF Path, PathOf, Sequenced, DependenciesRanFirst, Acyclic, Needs, Names, NamesBefore

LEMMA SameMarks ==
  ASSUME Marks, UNCHANGED <<workflow, listed, calls, visited, order, results>>,
         pc \in {"received", "saved", "rejected"} => pc' \in {"received", "saved", "rejected"}
  PROVE  Marks'
<1>1. /\ Names(results)' = Names(results) /\ Names(workflow)' = Names(workflow)
      /\ Names(order)' = Names(order) /\ Names(calls)' = Names(calls)
      /\ Names(listed)' = Names(listed)
  BY DEF Names
<1>2. Distinct(results)' /\ Distinct(order)' /\ Distinct(calls)'
  BY DEF Distinct, Marks
<1>3. QED
  BY <1>1, <1>2 DEF Marks, Apart

\* The parts of the invariant that a step of the sort leaves alone.
LEMMA SortFrame ==
  ASSUME Inv, sorting
  PROVE  /\ Phases' /\ Visible'
         /\ request' \in Seq(Steps) /\ request' # <<>> /\ pc' = "sorting" /\ pc = "sorting"
         /\ workflow' = workflow /\ workflow = request /\ Valid(workflow)
         /\ workflow \in Seq(Steps) /\ results' = results
         /\ run' = run
<1>1. /\ pc = "sorting" /\ pc' = "sorting" /\ request' = request /\ workflow' = workflow
      /\ results' = results /\ run' = run /\ committed' = committed
  BY DEF sorting
<1>2. workflow = request /\ Valid(request)
  BY <1>1 DEF Inv, Phases
<1>3. Phases'
  BY <1>1, <1>2 DEF Phases, Valid, Names
<1>4. Visible'
  BY <1>1, SameVisible, SameComplete DEF Inv, Visible
<1>5. QED
  BY <1>1, <1>2, <1>3, <1>4 DEF Inv, Types

LEMMA NamesAreNames == \A list \in Seq(Steps) : Names(list) \subseteq StepNames
<1> SUFFICES ASSUME NEW list \in Seq(Steps) PROVE Names(list) \subseteq StepNames
  OBVIOUS
<1>1. \A i \in DOMAIN list : list[i].name \in StepNames
  <2>1. \A i \in DOMAIN list : list[i] \in Steps
    BY ElementOfSeq, LenProperties
  <2>2. QED
    BY <2>1 DEF Steps
<1>2. QED
  BY <1>1 DEF Names

LEMMA SortTypes ==
  ASSUME Inv, sorting, listed' \in Seq(Steps), calls' \in Seq(Steps), order' \in Seq(Steps),
         visited' \subseteq Names(workflow)
  PROVE  Types'
<1>1. visited' \subseteq StepNames
  BY NamesAreNames DEF Inv, Types
<1>2. UNCHANGED <<request, pc, workflow, run, results>>
  BY DEF sorting
<1>3. QED
  BY <1>1, <1>2 DEF Inv, Types

LEMMA SortMarks ==
  ASSUME Inv, sorting,
         visited' = Names(results) \cup Names(order') \cup Names(calls'),
         visited' \subseteq Names(workflow),
         Names(workflow) \subseteq visited' \cup Names(listed'),
         Names(listed') \subseteq Names(workflow),
         Distinct(order'), Distinct(calls'),
         Apart(results, order'), Apart(results, calls'), Apart(order', calls')
  PROVE  Marks'
<1>1. UNCHANGED <<results, workflow>> /\ Distinct(results)
  BY DEF sorting, Inv, Marks
<1>2. /\ Names(results)' = Names(results) /\ Names(workflow)' = Names(workflow)
      /\ Names(order)' = Names(order') /\ Names(calls)' = Names(calls')
      /\ Names(listed)' = Names(listed')
  BY <1>1 DEF Names
<1>3. Distinct(results)' /\ Distinct(order)' /\ Distinct(calls)'
  BY <1>1 DEF Distinct
<1>4. QED
  BY <1>2, <1>3 DEF Marks, Apart

LEMMA VisitListedStep == Inv /\ VisitListed => Inv'
<1> SUFFICES ASSUME Inv, VisitListed PROVE Inv'
  OBVIOUS
<1> DEFINE name == Head(listed).name
<1>1. sorting /\ calls = <<>> /\ listed # <<>> /\ visit(calls, name) /\ listed' = Tail(listed)
      /\ order' = order
  BY DEF VisitListed
<1>2. /\ Tail(listed) \in Seq(Steps) /\ Names(listed) = {name} \cup Names(Tail(listed))
  BY <1>1, NamesTail DEF Inv, Types
<1> HIDE DEF name
<1>3. name \in Names(workflow)
  BY <1>2 DEF Inv, Marks
<1>4. /\ calls \in Seq(Steps) /\ Names(calls) = Names(calls) /\ Distinct(calls)
      /\ PathOf(calls, visited \cup {name}) /\ Len(calls) = 0
  BY <1>1 DEF Inv, Types, Marks, Distinct, PathOf
<1>5. UNCHANGED <<workflow, results, order>>
  BY <1>1, SortFrame
<1>6. /\ calls' \in Seq(Steps)
      /\ visited' = visited \cup {name} /\ visited' \subseteq Names(workflow)
      /\ visited' = Names(results) \cup Names(order) \cup Names(calls')
      /\ Distinct(calls') /\ Apart(results, calls') /\ Apart(order, calls')
      /\ Path'
  BY <1>1, <1>3, <1>4, <1>5, VisitKeeps
<1>7. Types'
  BY <1>1, <1>2, <1>6, SortTypes DEF Inv, Types
<1>8. Marks'
  <2>1. /\ Distinct(order') /\ Apart(results, order') /\ Apart(order', calls')
        /\ visited' = Names(results) \cup Names(order') \cup Names(calls')
    BY <1>1, <1>6 DEF Inv, Marks
  <2>2. /\ Names(workflow) \subseteq visited' \cup Names(listed')
        /\ Names(listed') \subseteq Names(workflow)
    BY <1>1, <1>2, <1>6, SortFrame DEF Inv, Marks
  <2>3. QED
    BY <1>1, <1>6, <2>1, <2>2, SortMarks
<1>9. Sequenced'
  BY <1>1, <1>5 DEF Inv, Sequenced, DependenciesRanFirst
<1>10. QED
  BY <1>1, <1>6, <1>7, <1>8, <1>9, SortFrame DEF Inv

LEMMA VisitDependencyStep == Inv /\ VisitDependency => Inv'
<1> SUFFICES ASSUME Inv, VisitDependency PROVE Inv'
  OBVIOUS
<1> DEFINE n == Len(calls)
           name == Head(Last(calls).depends_on)
           stack == [calls EXCEPT ![n].depends_on = Tail(@)]
<1>1. /\ sorting /\ calls # <<>> /\ Last(calls).depends_on # <<>> /\ visit(stack, name)
      /\ listed' = listed /\ order' = order
  BY DEF VisitDependency
<1>2. /\ n \in Nat \ {0} /\ calls \in Seq(Steps) /\ DOMAIN calls = 1 .. n
      /\ Last(calls) = calls[n] /\ calls[n] \in Steps
  BY <1>1, EmptySeq, LenProperties DEF Inv, Types, Last
<1>3. /\ Tail(calls[n].depends_on) \in Seq(StepNames)
      /\ ToSet(calls[n].depends_on) = {name} \cup ToSet(Tail(calls[n].depends_on))
  <2>1. calls[n].depends_on \in Seq(StepNames) /\ calls[n].depends_on # <<>>
    BY <1>1, <1>2 DEF Steps
  <2>2. name = Head(calls[n].depends_on)
    BY <1>2
  <2>3. QED
    BY <2>1, <2>2, SetOfTail
<1>4. name \in Needs(workflow, calls[n].name)
  <2>1. ToSet(calls[n].depends_on) \subseteq Needs(workflow, calls[n].name)
    BY <1>2 DEF Inv, Path, PathOf
  <2>2. QED
    BY <1>3, <2>1
<1>5. name \in Names(workflow)
  <2>1. calls[n].name \in Names(workflow)
    <3> HIDE DEF n
    <3>1. calls[n].name \in Names(calls)
      BY <1>2 DEF Names
    <3>2. QED
      BY <3>1 DEF Inv, Marks
  <2>2. QED
    BY <1>1, <1>4, <2>1, NeedsAreListed, SortFrame
<1>6. /\ stack \in Seq(Steps) /\ Len(stack) = n /\ DOMAIN stack = 1 .. n
      /\ \A k \in 1 .. n : stack[k].name = calls[k].name
      /\ \A k \in 1 .. n : k # n => stack[k] = calls[k]
      /\ stack[n].depends_on = Tail(calls[n].depends_on)
  <2>1. [calls[n] EXCEPT !.depends_on = Tail(@)] \in Steps
    BY <1>2, <1>3 DEF Steps
  <2>2. stack = [calls EXCEPT ![n] = [calls[n] EXCEPT !.depends_on = Tail(@)]]
    OBVIOUS
  <2>3. QED
    BY <1>2, <2>1, <2>2, ExceptSeq, LenProperties DEF Steps
<1> HIDE DEF n, stack, name
<1>7. Names(stack) = Names(calls) /\ Distinct(stack)
  BY <1>2, <1>6 DEF Inv, Marks, Names, Distinct
<1>8. PathOf(stack, visited \cup {name})
  <2>1. ASSUME NEW k \in 1 .. n
        PROVE  /\ ToSet(stack[k].depends_on) \subseteq Needs(workflow, stack[k].name)
               /\ Needs(workflow, stack[k].name) \subseteq
                    (visited \cup {name}) \cup ToSet(stack[k].depends_on)
    <3>1. /\ ToSet(calls[k].depends_on) \subseteq Needs(workflow, calls[k].name)
          /\ Needs(workflow, calls[k].name) \subseteq visited \cup ToSet(calls[k].depends_on)
      BY <1>2 DEF Inv, Path, PathOf
    <3>2. CASE k = n
      BY <3>1, <3>2, <1>2, <1>3, <1>6
    <3>3. CASE k # n
      BY <3>1, <3>3, <1>6
    <3>4. QED
      BY <3>2, <3>3
  <2>2. ASSUME NEW k \in 1 .. n, k + 1 \in 1 .. n
        PROVE  stack[k + 1].name \in Needs(workflow, stack[k].name)
    BY <1>2, <1>6, <2>2 DEF Inv, Path, PathOf
  <2>3. QED
    BY <1>6, <2>1, <2>2 DEF PathOf
<1>9. Len(stack) # 0 => name \in Needs(workflow, stack[Len(stack)].name)
  BY <1>2, <1>4, <1>6
<1>10. UNCHANGED <<workflow, results, order>>
  BY <1>1, SortFrame
<1>11. /\ calls' \in Seq(Steps)
       /\ visited' = visited \cup {name} /\ visited' \subseteq Names(workflow)
       /\ visited' = Names(results) \cup Names(order) \cup Names(calls')
       /\ Distinct(calls') /\ Apart(results, calls') /\ Apart(order, calls')
       /\ Path'
  BY <1>1, <1>5, <1>6, <1>7, <1>8, <1>9, <1>10, VisitKeeps
<1>12. Types'
  BY <1>1, <1>11, SortTypes DEF Inv, Types
<1>13. Marks'
  <2>1. /\ Distinct(order') /\ Apart(results, order') /\ Apart(order', calls')
        /\ visited' = Names(results) \cup Names(order') \cup Names(calls')
    BY <1>1, <1>11 DEF Inv, Marks
  <2>2. /\ Names(workflow) \subseteq visited' \cup Names(listed')
        /\ Names(listed') \subseteq Names(workflow)
    BY <1>1, <1>11, SortFrame DEF Inv, Marks
  <2>3. QED
    BY <1>1, <1>11, <2>1, <2>2, SortMarks
<1>14. Sequenced'
  BY <1>1, <1>10 DEF Inv, Sequenced, DependenciesRanFirst
<1>15. QED
  BY <1>1, <1>11, <1>12, <1>13, <1>14, SortFrame DEF Inv

LEMMA AppendStepStep == Inv /\ AppendStep => Inv'
<1> SUFFICES ASSUME Inv, AppendStep PROVE Inv'
  OBVIOUS
<1> DEFINE n == Len(calls)
           name == Last(calls).name
           step == StepNamed(workflow, name)
<1>1. /\ sorting /\ calls # <<>> /\ Last(calls).depends_on = <<>>
      /\ order' = Append(order, step) /\ calls' = Front(calls)
      /\ listed' = listed /\ visited' = visited
  BY DEF AppendStep
<1>2. /\ Last(calls) \in Steps /\ calls' \in Seq(Steps)
      /\ Len(calls') = n - 1 /\ \A k \in DOMAIN calls' : calls'[k] = calls[k]
      /\ Names(calls) = Names(calls') \cup {name}
      /\ Distinct(calls') /\ name \notin Names(calls')
  <2>1. calls \in Seq(Steps) /\ calls # <<>> /\ Distinct(calls)
    BY <1>1 DEF Inv, Types, Marks
  <2>2. QED
    BY <1>1, <2>1, NamesFront
<1>3. /\ n \in Nat \ {0} /\ DOMAIN calls = 1 .. n /\ DOMAIN calls' = 1 .. n - 1
      /\ Last(calls) = calls[n]
  BY <1>1, <1>2, EmptySeq, LenProperties DEF Inv, Types, Last
<1>4. name \in Names(workflow) /\ name \notin Names(order) /\ name \notin Names(results)
  BY <1>2 DEF Inv, Marks, Apart
<1>5. step \in Steps /\ step.name = name
  BY <1>4, StepNamedIsListed DEF Inv, Types
<1> HIDE DEF n, name, step
<1>6. /\ order' \in Seq(Steps) /\ Names(order') = Names(order) \cup {name} /\ Distinct(order')
  BY <1>1, <1>4, <1>5, NamesAppend DEF Inv, Types, Marks
<1>7. /\ order \in Seq(Steps) /\ DOMAIN order = 1 .. Len(order) /\ Len(order) \in Nat
      /\ DOMAIN order' = 1 .. Len(order) + 1
      /\ order'[Len(order) + 1] = step /\ \A i \in 1 .. Len(order) : order'[i] = order[i]
  BY <1>1, <1>5, <1>6, AppendProperties, LenProperties DEF Inv, Types
<1>8. Types'
  BY <1>1, <1>2, <1>6, SortTypes DEF Inv, Types, Marks
<1>9. Marks'
  <2>1. /\ visited' = Names(results) \cup Names(order') \cup Names(calls')
        /\ Apart(results, order') /\ Apart(results, calls') /\ Apart(order', calls')
    BY <1>1, <1>2, <1>4, <1>6 DEF Inv, Marks, Apart
  <2>2. /\ Names(workflow) \subseteq visited' \cup Names(listed')
        /\ Names(listed') \subseteq Names(workflow) /\ visited' \subseteq Names(workflow)
    BY <1>1, SortFrame DEF Inv, Marks
  <2>3. QED
    BY <1>1, <1>2, <1>6, <2>1, <2>2, SortMarks
<1>10. Path'
  <2>1. workflow' = workflow
    BY <1>1, SortFrame
  <2>2. PathOf(calls', visited)
    <3>1. DOMAIN calls' \subseteq DOMAIN calls /\ \A k \in DOMAIN calls' : calls'[k] = calls[k]
      BY <1>2, <1>3
    <3>2. PathOf(calls, visited)
      BY DEF Inv, Path
    <3>3. QED
      BY <3>1, <3>2 DEF PathOf
  <2>3. QED
    BY <1>1, <2>1, <2>2 DEF Path, PathOf, Needs
<1>11. Sequenced'
  <2>1. workflow' = workflow /\ results' = results
    BY <1>1, SortFrame
  <2>2. \A i \in DOMAIN order' : order'[i] = StepNamed(workflow, order'[i].name)
    BY <1>5, <1>7 DEF Inv, Sequenced, step
  <2>3. ASSUME Acyclic(workflow), NEW i \in DOMAIN order'
        PROVE  Needs(workflow, order'[i].name) \subseteq Names(results) \cup NamesBefore(order', i)
    <3>1. CASE i \in 1 .. Len(order)
      <4>1. order'[i] = order[i] /\ \A j \in 1 .. i - 1 : order'[j] = order[j]
        BY <1>7, <3>1
      <4>2. Needs(workflow, order[i].name) \subseteq Names(results) \cup NamesBefore(order, i)
        BY <1>7, <2>3, <3>1 DEF Inv, Sequenced
      <4>3. NamesBefore(order', i) = NamesBefore(order, i)
        BY <4>1 DEF NamesBefore
      <4>4. QED
        BY <4>1, <4>2, <4>3
    <3>2. CASE i = Len(order) + 1
      <4>1. ToSet(calls[n].depends_on) = {}
        BY <1>1, <1>3 DEF ToSet
      <4>2. Needs(workflow, name) \subseteq visited
        BY <1>3, <4>1 DEF Inv, Path, PathOf, name
      <4>3. Names(calls) \cap Needs(workflow, name) = {}
        BY <2>3, NoCallIsNeeded DEF Inv, Names, name
      <4>4. Needs(workflow, name) \subseteq Names(results) \cup Names(order)
        BY <4>2, <4>3 DEF Inv, Marks
      <4>5. NamesBefore(order', i) = Names(order)
        BY <1>7, <3>2 DEF NamesBefore, Names
      <4>6. QED
        BY <1>5, <1>7, <3>2, <4>4, <4>5
    <3>3. QED
      BY <1>7, <3>1, <3>2
  <2>4. DependenciesRanFirst' <=> DependenciesRanFirst
    BY <2>1 DEF DependenciesRanFirst, Needs, Names
  <2>5. QED
    BY <2>1, <2>2, <2>3, <2>4 DEF Inv, Sequenced, Acyclic, Needs, Names, NamesBefore
<1>12. QED
  BY <1>1, <1>8, <1>9, <1>10, <1>11, SortFrame DEF Inv

\* Running a step: what the invariant says of the results.
LEMMA RunStepStep == Inv /\ RunStep => Inv'
<1> SUFFICES ASSUME Inv, RunStep PROVE Inv'
  OBVIOUS
<1> DEFINE n == Len(results)
           step == Head(order)
           result == execute_step(step, results)
<1>1. /\ pc = "running" /\ order # <<>> /\ results' = Append(results, result)
      /\ order' = Tail(order)
      /\ run' = [run EXCEPT !.state = "running", !.current_step = step.name]
      /\ UNCHANGED <<request, pc, workflow, listed, calls, visited, committed>>
  BY DEF RunStep, update_run, sort
<1>2. /\ order \in Seq(Steps) /\ workflow \in Seq(Steps) /\ results \in Seq(Results) /\ n \in Nat
      /\ DOMAIN results = 1 .. n /\ DOMAIN order = 1 .. Len(order) /\ Len(order) \in Nat \ {0}
  BY <1>1, EmptySeq, LenProperties DEF Inv, Types
<1>3. /\ step \in Steps /\ order' \in Seq(Steps)
      /\ Names(order) = {step.name} \cup Names(order') /\ Distinct(order')
      /\ step.name \notin Names(order')
  <2>1. Distinct(order)
    BY DEF Inv, Marks
  <2>2. QED
    BY <1>1, <1>2, <2>1, NamesTail
<1>4. /\ step = order[1] /\ DOMAIN order' = 1 .. Len(order) - 1
      /\ \A i \in 1 .. Len(order) - 1 : order'[i] = order[i + 1]
  BY <1>1, <1>2, HeadTailProperties, LenProperties
<1> HIDE DEF step
<1>5. /\ result \in Results /\ result.name = step.name
      /\ result.counted = IF step.action \in {"compare", "optimise"} THEN n ELSE 0
  BY <1>2, <1>3 DEF execute_step, Results, Steps
<1>6. step.name \notin Names(results)
  BY <1>3 DEF Inv, Marks, Apart
<1> HIDE DEF result, n
<1>7. /\ results' \in Seq(Results) /\ Names(results') = Names(results) \cup {step.name}
      /\ Distinct(results')
  <2>1. Distinct(results)
    BY DEF Inv, Marks
  <2>2. QED
    BY <1>1, <1>2, <1>5, <1>6, <2>1, NamesAppend
<1>8. /\ DOMAIN results' = 1 .. n + 1 /\ results'[n + 1] = result
      /\ \A i \in 1 .. n : results'[i] = results[i]
  BY <1>1, <1>2, <1>5, <1>7, AppendProperties, LenProperties DEF n
<1>9. Types'
  <2>1. run' \in [state : RunStates, current_step : StepNames \cup {"none"}, step_results : Seq(Results)]
    <3>1. step.name \in StepNames /\ "running" \in RunStates
      BY <1>3 DEF Steps, RunStates
    <3>2. run \in [state : RunStates, current_step : StepNames \cup {"none"},
                   step_results : Seq(Results)]
      BY DEF Inv, Types
    <3>3. QED
      BY <1>1, <3>1, <3>2
  <2>2. QED
    BY <1>1, <1>3, <1>7, <2>1 DEF Inv, Types
<1>10. Phases'
  BY <1>1 DEF Inv, Phases, Valid, Names
<1>11. Marks'
  <2>1. /\ Names(results)' = Names(results') /\ Names(workflow)' = Names(workflow)
        /\ Names(order)' = Names(order') /\ Names(calls)' = Names(calls)
        /\ Names(listed)' = Names(listed)
    BY <1>1 DEF Names
  <2>2. Distinct(results)' /\ Distinct(order)' /\ Distinct(calls)'
    BY <1>1, <1>3, <1>7 DEF Distinct, Inv, Marks
  <2>3. QED
    BY <1>1, <1>3, <1>6, <1>7, <2>1, <2>2 DEF Inv, Marks, Apart
<1>12. Path'
  BY <1>1 DEF Inv, Path, PathOf, Needs
<1>13. \A i \in DOMAIN order' : order'[i] = StepNamed(workflow, order'[i].name)
  <2>1. \A i \in DOMAIN order : order[i] = StepNamed(workflow, order[i].name)
    BY DEF Inv, Sequenced
  <2>2. \A i \in DOMAIN order' : i + 1 \in DOMAIN order /\ order'[i] = order[i + 1]
    BY <1>2, <1>4
  <2>3. QED
    BY <2>1, <2>2
<1>14. ASSUME Acyclic(workflow), NEW i \in DOMAIN order'
       PROVE  Needs(workflow, order'[i].name) \subseteq Names(results') \cup NamesBefore(order', i)
  <2>1. i + 1 \in DOMAIN order /\ order'[i] = order[i + 1]
    BY <1>2, <1>4
  <2>2. Needs(workflow, order[i + 1].name) \subseteq Names(results) \cup NamesBefore(order, i + 1)
    BY <1>14, <2>1 DEF Inv, Sequenced
  <2>3. NamesBefore(order, i + 1) \subseteq {step.name} \cup NamesBefore(order', i)
    <3>1. ASSUME NEW j \in 1 .. (i + 1) - 1
          PROVE  order[j].name = step.name \/ order[j].name \in NamesBefore(order', i)
      <4>1. CASE j = 1
        BY <4>1, <1>4
      <4>2. CASE j # 1
        <5>1. j - 1 \in 1 .. i - 1 /\ j - 1 \in 1 .. Len(order) - 1 /\ j = (j - 1) + 1
          BY <4>2, <1>2, <1>4, <2>1
        <5>2. order'[j - 1] = order[j]
          BY <5>1, <1>4
        <5>3. QED
          BY <5>1, <5>2 DEF NamesBefore
      <4>3. QED
        BY <4>1, <4>2
    <3>2. QED
      BY <3>1 DEF NamesBefore
  <2>4. QED
    BY <2>1, <2>2, <2>3, <1>7
<1>15. ASSUME Acyclic(workflow) PROVE DependenciesRanFirst'
  <2> DEFINE Ran(list, i) ==
        LET needed == Needs(workflow, list[i].name)
        IN /\ needed \subseteq Names(SubSeq(list, 1, i - 1))
           /\ StepNamed(workflow, list[i].name).action \in {"compare", "optimise"} =>
                list[i].counted >= Cardinality(needed)
  <2>1. \A i \in DOMAIN results : Ran(results, i)
    BY <1>15 DEF Inv, Sequenced, DependenciesRanFirst
  <2>2. \A i \in DOMAIN results' : Names(SubSeq(results', 1, i - 1)) = NamesBefore(results', i)
    BY <1>7, NamesOfPrefix
  <2>3. ASSUME NEW i \in DOMAIN results PROVE Ran(results', i)
    <3>1. results'[i] = results[i] /\ i \in DOMAIN results'
      BY <1>2, <1>8
    <3>2. NamesBefore(results', i) = NamesBefore(results, i)
      BY <1>2, <1>8 DEF NamesBefore
    <3>3. Names(SubSeq(results, 1, i - 1)) = NamesBefore(results, i)
      BY <1>2, NamesOfPrefix
    <3>4. QED
      BY <2>1, <2>2, <3>1, <3>2, <3>3
  <2>4. Ran(results', n + 1)
    <3>1. n + 1 \in DOMAIN results' /\ (n + 1) - 1 = n /\ 1 \in DOMAIN order
      BY <1>2, <1>8
    <3>2. Needs(workflow, step.name) \subseteq Names(results)
      <4>1. Needs(workflow, order[1].name) \subseteq Names(results) \cup NamesBefore(order, 1)
        BY <1>15, <3>1 DEF Inv, Sequenced
      <4>2. NamesBefore(order, 1) = {}
        BY DEF NamesBefore
      <4>3. QED
        BY <1>4, <4>1, <4>2
    <3>3. Names(results) = NamesBefore(results', n + 1)
      BY <1>2, <1>8, <3>1 DEF Names, NamesBefore
    <3>4. StepNamed(workflow, step.name) = step
      BY <1>4, <3>1 DEF Inv, Sequenced
    <3>5. Cardinality(Needs(workflow, step.name)) <= n
      <4>1. IsFiniteSet(Names(results)) /\ Cardinality(Names(results)) <= n
            /\ Cardinality(Names(results)) \in Nat
        BY <1>2, CountNames DEF n
      <4>2. /\ Cardinality(Needs(workflow, step.name)) <= Cardinality(Names(results))
            /\ Cardinality(Needs(workflow, step.name)) \in Nat
        BY <3>2, <4>1, FS_Subset, FS_CardinalityType
      <4>3. QED
        BY <4>1, <4>2, <1>2
    <3>6. results'[n + 1].name = step.name
      BY <1>5, <1>8
    <3>7. Needs(workflow, step.name) \subseteq Names(SubSeq(results', 1, n))
      BY <2>2, <3>1, <3>2, <3>3
    <3>8. step.action \in {"compare", "optimise"} =>
            results'[n + 1].counted >= Cardinality(Needs(workflow, step.name))
      BY <1>5, <1>8, <3>5
    <3>9. QED
      BY <3>1, <3>4, <3>6, <3>7, <3>8
  <2>5. \A i \in DOMAIN results' : Ran(results', i)
    BY <1>2, <1>8, <2>3, <2>4
  <2>6. QED
    BY <1>1, <2>5 DEF DependenciesRanFirst, Needs
<1>16. Sequenced'
  BY <1>1, <1>13, <1>14, <1>15 DEF Sequenced, Acyclic, Needs, Names, NamesBefore
<1>17. Visible'
  <2>1. run'.state # "succeeded"
    BY <1>1 DEF Inv, Types
  <2>2. QED
    BY <1>1, <2>1, SameVisible, SameComplete DEF Inv, Visible
<1>18. QED
  BY <1>9, <1>10, <1>11, <1>12, <1>16, <1>17 DEF Inv

LEMMA FinishStep == Inv /\ Finish => Inv'
<1> SUFFICES ASSUME Inv, Finish PROVE Inv'
  OBVIOUS
<1>1. /\ pc = "running" /\ order = <<>> /\ pc' = "finished"
      /\ UNCHANGED <<request, workflow, listed, calls, visited, order, results, committed>>
      /\ run' = [run EXCEPT !.state = "succeeded", !.step_results = results]
  BY DEF Finish, update_run, sort, Inv, Types
<1>2. run' \in [state : RunStates, current_step : StepNames \cup {"none"}, step_results : Seq(Results)]
      /\ run'.state = "succeeded" /\ run'.step_results = results
  BY <1>1 DEF Inv, Types, RunStates
<1>3. Types'
  BY <1>1, <1>2 DEF Inv, Types
<1>4. Phases'
  BY <1>1, <1>2 DEF Inv, Phases, Valid, Names
<1>5. Marks' /\ Path' /\ Sequenced'
  BY <1>1, SameMarks, SameOrder DEF Inv
<1>6. Names(results) = Names(request)
  <2>1. workflow = request /\ listed = <<>> /\ calls = <<>>
    BY <1>1 DEF Inv, Phases
  <2>2. Names(listed) = {} /\ Names(calls) = {} /\ Names(order) = {}
    BY <1>1, <2>1 DEF Names
  <2>3. QED
    BY <1>1, <2>1, <2>2 DEF Inv, Marks
<1>7. Visible'
  <2>1. OnlyFinishedRunsAreVisible'
    BY <1>1, SameVisible DEF Inv, Visible
  <2>2. Names(request)' = Names(request)
    BY <1>1 DEF Names
  <2>3. Names(run.step_results)' = Names(results)
    BY <1>2 DEF Names
  <2>4. QED
    BY <1>6, <2>1, <2>2, <2>3 DEF Visible, Complete
<1>8. QED
  BY <1>3, <1>4, <1>5, <1>7 DEF Inv

LEMMA CommitStep == Inv /\ Commit => Inv'
<1> SUFFICES ASSUME Inv, Commit PROVE Inv'
  OBVIOUS
<1>1. /\ pc = "finished" /\ pc' = "answered"
      /\ committed' = [workflow |-> workflow, run |-> run]
      /\ UNCHANGED <<request, workflow, run, listed, calls, visited, order, results>>
  BY DEF Commit, sort
<1>2. Types' /\ Phases' /\ Marks' /\ Path' /\ Sequenced'
  <2>1. Types' /\ Phases'
    BY ZenonT(30), <1>1 DEF Inv, Types, Phases, Valid, Names
  <2>2. QED
    BY <1>1, <2>1, SameMarks, SameOrder DEF Inv
<1>3. /\ workflow = request /\ workflow # <<>> /\ run.state = "succeeded"
      /\ Names(run.step_results) = Names(request)
  BY <1>1 DEF Inv, Types, Phases, Visible, Complete
<1>4. Visible'
  <2>1. committed'.run = run /\ committed'.workflow = workflow
    BY <1>1
  <2>2. Names(get_run.step_results)' = Names(run.step_results)
    BY <2>1 DEF Names, get_run
  <2>3. Names(committed.workflow)' = Names(workflow)
    BY <2>1 DEF Names
  <2>4. OnlyFinishedRunsAreVisible'
    BY <1>3, <2>1, <2>2, <2>3 DEF OnlyFinishedRunsAreVisible, get_run, workflow_name, NoDefinition
  <2>5. QED
    BY <1>1, <2>4, SameComplete DEF Inv, Visible
<1>5. QED
  BY <1>2, <1>4 DEF Inv

\* The steps before the sort and the one after it.
LEMMA OtherSteps ==
  Inv /\ (Reject \/ CreateWorkflow \/ StartRun \/ Sorted \/ UNCHANGED vars) => Inv'
<1> SUFFICES ASSUME Inv, Reject \/ CreateWorkflow \/ StartRun \/ Sorted \/ UNCHANGED vars PROVE Inv'
  OBVIOUS
<1>1. /\ UNCHANGED <<request, calls, visited, order, results, committed>>
      /\ run' = run \/ run' = [run EXCEPT !.state = "pending", !.current_step = "none"]
         \/ run' = [run EXCEPT !.state = "running", !.current_step = run.current_step]
      /\ workflow' = workflow \/ pc = "received"
      /\ listed' = listed \/ pc = "saved"
  BY DEF Reject, CreateWorkflow, StartRun, Sorted, vars, sort, update_run
<1>2. Types'
  <2>1. run' \in [state : RunStates, current_step : StepNames \cup {"none"}, step_results : Seq(Results)]
    BY <1>1 DEF Inv, Types, RunStates
  <2>2. workflow' \in Seq(Steps) /\ listed' \in Seq(Steps)
    BY DEF Inv, Types, Reject, CreateWorkflow, StartRun, Sorted, vars, sort
  <2>3. pc' \in {"received", "saved", "sorting", "running", "finished", "answered", "rejected"}
    BY DEF Inv, Types, Reject, CreateWorkflow, StartRun, Sorted, vars, sort
  <2>4. QED
    BY <1>1, <2>1, <2>2, <2>3 DEF Inv, Types
<1>3. Phases'
  <2>1. CASE Reject
    BY <2>1 DEF Inv, Phases, Reject, sort
  <2>2. CASE CreateWorkflow
    <3>1. Valid(workflow') /\ request' = request
      BY <2>2 DEF CreateWorkflow
    <3>2. QED
      BY <2>2, <3>1 DEF Inv, Phases, CreateWorkflow, Valid, Names, sort
  <2>3. CASE StartRun \/ Sorted \/ UNCHANGED vars
    <3>1. UNCHANGED <<request, workflow, calls, visited, order, results>>
      BY <2>3 DEF StartRun, Sorted, vars, sort
    <3>2. Valid(request)' <=> Valid(request)
      BY <3>1 DEF Valid, Names
    <3>3. CASE StartRun
      BY <3>1, <3>2, <3>3 DEF Inv, Phases, StartRun
    <3>4. CASE Sorted
      BY <3>1, <3>2, <3>4 DEF Inv, Phases, Sorted, sort
    <3>5. CASE UNCHANGED vars
      BY <3>1, <3>2, <3>5 DEF Inv, Phases, vars, sort
    <3>6. QED
      BY <2>3, <3>3, <3>4, <3>5
  <2>4. QED
    BY <2>1, <2>2, <2>3
<1>4. Visible'
  <2>1. run' = run \/ run'.state # "succeeded"
    BY <1>1 DEF Inv, Types
  <2>2. QED
    BY <1>1, <2>1, SameVisible, SameComplete DEF Inv, Visible
<1>5. CASE UNCHANGED <<workflow, listed>>
  <2>1. pc \in {"received", "saved", "rejected"} => pc' \in {"received", "saved", "rejected"}
    <3>1. CASE CreateWorkflow
      BY <3>1 DEF CreateWorkflow
    <3>2. CASE StartRun
      <4>1. listed = <<>> /\ workflow # <<>> /\ listed' = workflow
        BY <3>2 DEF Inv, Types, Phases, StartRun
      <4>2. QED
        BY <1>5, <4>1
    <3>3. QED
      BY <3>1, <3>2 DEF Reject, CreateWorkflow, StartRun, Sorted, vars
  <2>2. QED
    BY <1>1, <1>2, <1>3, <1>4, <1>5, <2>1, SameMarks, SameOrder DEF Inv
<1>6. CASE pc \in {"received", "saved"}
  <2>1. calls' = <<>> /\ visited' = {} /\ order' = <<>> /\ results' = <<>>
    BY <1>1, <1>6 DEF Inv, Phases
  <2>2. Path' /\ Sequenced'
    BY <2>1 DEF Path, PathOf, Sequenced, DependenciesRanFirst
  <2>3. listed' = <<>> \/ listed' = workflow'
    BY <1>6 DEF Inv, Phases, Reject, CreateWorkflow, StartRun, Sorted, vars, sort
  <2>4. pc' \in {"received", "saved", "rejected"} \/ listed' = workflow'
    BY <1>6 DEF Inv, Phases, Reject, CreateWorkflow, StartRun, Sorted, vars, sort
  <2>5. Marks'
    BY <2>1, <2>3, <2>4 DEF Marks, Apart, Distinct, Names
  <2>6. QED
    BY <1>2, <1>3, <1>4, <2>2, <2>5 DEF Inv
<1>7. QED
  BY <1>1, <1>5, <1>6

LEMMA FailStep == Inv /\ Fail => Inv'
<1> SUFFICES ASSUME Inv, Fail PROVE Inv'
  OBVIOUS
<1>1. /\ pc' = "rejected" /\ workflow' = <<>> /\ run' = NoRun /\ listed' = <<>> /\ calls' = <<>>
      /\ visited' = {} /\ order' = <<>> /\ results' = <<>> /\ UNCHANGED <<request, committed>>
  BY DEF Fail, NoDefinition
<1>2. Types'
  <2>1. NoRun \in [state : RunStates, current_step : StepNames \cup {"none"},
                   step_results : Seq(Results)]
    BY EmptySeq DEF NoRun, RunStates
  <2>2. QED
    BY <1>1, <2>1, EmptySeq DEF Inv, Types
<1>3. Phases' /\ Path' /\ Sequenced'
  BY <1>1 DEF Phases, Path, PathOf, Sequenced, DependenciesRanFirst
<1>4. Marks'
  BY <1>1 DEF Marks, Apart, Distinct, Names
<1>5. Visible'
  <2>1. run'.state # "succeeded"
    BY <1>1 DEF NoRun
  <2>2. QED
    BY <1>1, <2>1, SameVisible, SameComplete DEF Inv, Visible
<1>6. QED
  BY <1>2, <1>3, <1>4, <1>5 DEF Inv

LEMMA InvInit == Init => Inv
<1> SUFFICES ASSUME Init PROVE Inv
  OBVIOUS
<1>1. /\ request \in Seq(Steps) /\ request # <<>>
  BY DefinitionsAssumption DEF Init, Steps
<1>2. Types
  <2>1. NoRun \in [state : RunStates, current_step : StepNames \cup {"none"},
                   step_results : Seq(Results)]
    BY EmptySeq DEF NoRun, RunStates
  <2>2. QED
    BY <1>1, <2>1, EmptySeq DEF Init, Types, NoDefinition
<1>3. Marks
  BY DEF Init, Marks, Apart, Distinct, Names, NoDefinition
<1>4. Phases /\ Path /\ Sequenced
  BY DEF Init, Phases, Path, PathOf, Sequenced, DependenciesRanFirst
<1>5. Visible
  BY DEF Init, Visible, Complete, OnlyFinishedRunsAreVisible, NoRun
<1>6. QED
  BY <1>2, <1>3, <1>4, <1>5 DEF Inv

LEMMA InvCorrect == Spec => []Inv
<1>1. Inv /\ [Next]_vars => Inv'
  BY VisitListedStep, VisitDependencyStep, AppendStepStep, RunStepStep, FinishStep, CommitStep,
     OtherSteps, FailStep DEF Next
<1>2. QED
  BY <1>1, InvInit, PTL DEF Spec

-----------------------------------------------------------------------------
\* The sort of any definition, with cycles and repeated names too, recurses no
\* deeper than there are names.
THEOREM SortEnds == Spec => []RecursionIsBounded
<1>1. ASSUME Inv PROVE RecursionIsBounded
  <2>1. calls \in Seq(Steps) /\ workflow \in Seq(Steps) /\ Distinct(calls)
        /\ Names(calls) \subseteq Names(workflow)
    BY <1>1 DEF Inv, Types, Marks
  <2>2. Len(calls) = Cardinality(Names(calls)) /\ IsFiniteSet(Names(workflow))
    BY <2>1, CountNames
  <2>3. QED
    BY <2>1, <2>2, FS_Subset DEF RecursionIsBounded
<1>2. QED
  BY <1>1, InvCorrect, PTL

\* Without a cycle, in whatever order steps and dependencies are listed, every
\* step runs after those it needs and counts no fewer results than it needs.
THEOREM DependenciesRunFirst == Spec => []AcyclicRunsInOrder
<1>1. ASSUME Inv PROVE AcyclicRunsInOrder
  <2>1. CASE pc \in {"received", "rejected"}
    BY <1>1, <2>1 DEF Inv, Phases, AcyclicRunsInOrder, DependenciesRanFirst
  <2>2. CASE pc \notin {"received", "rejected"}
    BY <1>1, <2>2 DEF Inv, Phases, Sequenced, AcyclicRunsInOrder
  <2>3. QED
    BY <2>1, <2>2
<1>2. QED
  BY <1>1, InvCorrect, PTL

\* Every name runs at most once, and a run that succeeded ran all of them.
THEOREM NamesRunOnce == Spec => []EachNameRunsOnce
<1>1. ASSUME Inv PROVE EachNameRunsOnce
  <2>1. results \in Seq(Results) /\ Distinct(results)
    BY <1>1 DEF Inv, Types, Marks
  <2>2. Len(results) = Cardinality(Names(results))
    BY <2>1, CountNames
  <2>3. QED
    BY <1>1, <2>2 DEF Inv, Visible, Complete, EachNameRunsOnce
<1>2. QED
  BY <1>1, InvCorrect, PTL

\* A request that dies at any point leaves nothing behind that others read.
THEOREM VisibleRunsAreFinished == Spec => []OnlyFinishedRunsAreVisible
<1>1. Inv => OnlyFinishedRunsAreVisible
  BY DEF Inv, Visible
<1>2. QED
  BY <1>1, InvCorrect, PTL
=============================================================================

--------------------------- MODULE ProviderRegistry ---------------------------
(***************************************************************************)
(* Routing: which provider the registry recommends for a request, in which *)
(* order it lists the others, and what get_provider does with the answer.  *)
(* Amounts are scaled to integers: cost in 1/10000 dollar per shot, queue  *)
(* time in seconds, fidelity in percent and the score by 1000.             *)
(***************************************************************************)
EXTENDS Naturals, SequencesExt

Provider(name, qubits, simulator, cost, queue, fidelity, enabled) ==
  [provider |-> name, max_qubits |-> qubits, max_shots |-> 10000,
   is_simulator |-> simulator, cost_per_shot |-> cost, queue_seconds |-> queue,
   fidelity |-> fidelity, enabled |-> enabled]

\* ibm_runtime_enabled, and whether there is an ibm_runtime_token.
IbmSettings == [enabled : BOOLEAN, token : BOOLEAN]

\* _DEFAULT_CAPABILITIES after _apply_runtime_config, which does not ask for
\* the token.
Catalogue(ibm) == <<
  Provider("local_simulator", 24, TRUE,    0,   0, 100, TRUE),
  Provider("simulator_aer",   30, TRUE,    0,   0, 100, TRUE),
  Provider("ibm_runtime",    127, FALSE,  16, 120,  97, ibm.enabled),
  Provider("ionq",            36, FALSE, 100,  60,  98, FALSE),
  Provider("rigetti",         80, FALSE,  35,  90,  95, FALSE) >>

\* An optional bound of a request is the set of its one value, or empty.
Within(amount, bound) == \A limit \in bound : amount <= limit

\* Mutant: providers that are switched off are candidates too.
SuitsDisabled(cap, request) ==
  /\ cap.provider \notin request.exclude_providers
  /\ request.qubit_count <= cap.max_qubits
  /\ request.shots <= cap.max_shots
  /\ Within(cap.cost_per_shot * request.shots, request.max_cost)
  /\ \A f \in request.min_fidelity : cap.fidelity >= f
  /\ Within(cap.queue_seconds, request.max_queue)

\* _filter_candidates
Suits(cap, request) ==
  /\ cap.enabled
  /\ cap.provider \notin request.exclude_providers
  /\ request.qubit_count <= cap.max_qubits
  /\ request.shots <= cap.max_shots
  /\ Within(cap.cost_per_shot * request.shots, request.max_cost)
  /\ \A f \in request.min_fidelity : cap.fidelity >= f
  /\ Within(cap.queue_seconds, request.max_queue)

\* _score: the kind of provider asked for, then cost, queue and infidelity.
Score(cap, request) ==
  (IF request.prefer_hardware
     THEN IF cap.is_simulator THEN 100000 ELSE 0
     ELSE IF cap.is_simulator THEN 0 ELSE 50000)
  + cap.cost_per_shot * request.shots
  + 100 * cap.queue_seconds
  + 2000 * (100 - cap.fidelity)

Candidates(request, ibm) == {i \in DOMAIN Catalogue(ibm) : Suits(Catalogue(ibm)[i], request)}

\* The candidates sorted before i: a tie keeps the order of the catalogue.
Better(i, request, ibm) ==
  LET score(k) == Score(Catalogue(ibm)[k], request)
  IN {k \in Candidates(request, ibm) : score(k) < score(i) \/ (score(k) = score(i) /\ k < i)}

\* The candidates by score: the n-th has n - 1 before it.
Rank(request, ibm) ==
  [n \in 1 .. Cardinality(Candidates(request, ibm)) |->
     CHOOSE i \in Candidates(request, ibm) : Cardinality(Better(i, request, ibm)) = n - 1]

select(request, ibm) ==
  LET ranked == [n \in DOMAIN Rank(request, ibm) |-> Catalogue(ibm)[Rank(request, ibm)[n]].provider]
  IN IF ranked = <<>>
     THEN [recommended |-> "local_simulator", alternatives |-> <<>>]
     ELSE [recommended |-> Head(ranked), alternatives |-> Tail(ranked)]

-----------------------------------------------------------------------------
\* Both simulators are the one backend of LocalQiskitSimulator, BasicProvider's.
Simulators == {"local_simulator", "simulator_aer"}
BASIC_QUBITS == 24

\* Can a circuit of so many qubits be executed on the provider: get_provider
\* raises for IBM while it is switched off or has no token, and the IonQ and
\* Rigetti adapters raise when they are run.
Executable(provider, ibm, qubits) ==
  \/ provider \in Simulators /\ qubits <= BASIC_QUBITS
  \/ provider = "ibm_runtime" /\ ibm.enabled /\ ibm.token
=============================================================================

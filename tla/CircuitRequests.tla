---------------------------- MODULE CircuitRequests ----------------------------
(***************************************************************************)
(* What happens to one circuit: it may be sent to the optimiser, which     *)
(* does not validate it; it is validated on submission; an accepted one is *)
(* executed, when the worker adds its counts to the result; and a client   *)
(* may ask which provider to run it on.                                    *)
(***************************************************************************)
EXTENDS Integers, QasmValidator, CircuitOptimiser, ProviderRegistry

CONSTANTS
  Strategies,
  Options     \* route requests, but for their qubit count

\* ProviderRouteRequest; the amounts are scaled as the registry's are.
RouteRequest ==
  [qubit_count : Nat, shots : Nat, prefer_hardware : BOOLEAN, max_cost : SUBSET Int,
   min_fidelity : SUBSET Nat, max_queue : SUBSET Int, exclude_providers : SUBSET STRING]

ASSUME OptionsAssumption == Options \subseteq RouteRequest

VARIABLE reply   \* the answer to a call about this circuit, or Nothing; the calls
                 \* change nothing, so one per behaviour is enough

requestVars == <<vars, reply>>

Nothing == [call |-> "none"]

RequestInit == Init /\ reply = Nothing

ValidateStep == Next /\ reply = Nothing /\ UNCHANGED reply

Optimise ==
  /\ verdict = "new" /\ reply = Nothing
  /\ \E strategy \in Strategies, noise_aware \in BOOLEAN :
       reply' = IF Uncountable(splitlines(program)) \/ Unreadable(splitlines(program))
                THEN [call |-> "failed"]
                ELSE [call |-> "optimise",
                      result |-> optimise_circuit(splitlines(program), strategy, noise_aware)]
  /\ UNCHANGED vars

\* The worker's enrichment of a result with what it reads off the circuit.  The
\* depth is read first and raises where the gate count would; then the error
\* is logged and none of the counts is stored.
Execute ==
  /\ verdict = "accepted" /\ reply = Nothing
  /\ LET lines == splitlines(program)
     IN reply' = [call |-> "execute",
                  counts |-> IF Uncountable(lines) THEN {}
                             ELSE {[qubit_count |-> parse_qubit_count(lines),
                                    gate_count  |-> count_gates(lines)]}]
  /\ UNCHANGED vars

\* The client asks with the size of its circuit; the schema wants at least 1.
SelectProvider ==
  /\ verdict = "accepted" /\ reply = Nothing
  /\ \E option \in Options, ibm \in IbmSettings :
       LET request == [option EXCEPT !.qubit_count = IF total_qubits = 0 THEN 1 ELSE total_qubits]
       IN reply' = [call |-> "select", ibm |-> ibm, response |-> select(request, ibm)]
  /\ UNCHANGED vars

RequestNext == ValidateStep \/ Optimise \/ Execute \/ SelectProvider

RequestSpec == RequestInit /\ [][RequestNext]_requestVars

-----------------------------------------------------------------------------
OneStatementPerLine ==
  \A i, k \in DOMAIN program : program[i].line = program[k].line => i = k

GateStatements == {i \in DOMAIN program : IsGate(program[i], GATE_KEYWORDS)}

\* The counts stored with a result against those of the circuit that was
\* accepted.  The worker reads lines, the validator statements: it never finds
\* more qubits or gates than there are, it finds all when each statement has
\* its own line, also when a register is declared again or a gate was passed
\* unrecognised, and it goes without counts only for semicolons that end no
\* statement.
MetadataMatches ==
  reply.call = "execute" =>
    LET gates == Cardinality(GateStatements)
        most == IF gates = 0 THEN 1 ELSE gates
    IN /\ reply.counts = {} => \E i \in DOMAIN program : program[i].kind = "empty"
       /\ \A found \in reply.counts :
            /\ found.qubit_count <= total_qubits /\ found.gate_count <= most
            /\ OneStatementPerLine =>
                 found.qubit_count = total_qubits /\ found.gate_count = most

\* Reference: adjacent equal self-inverse gates cancel until none are left.
Cancels(done, s) ==
  done # <<>> /\ IsGate(s, SELF_INVERSE) /\ Last(done) = s

Simplified(lines) ==
  LET done[n \in 0 .. Len(lines)] ==
        IF n = 0 THEN <<>>
        ELSE LET before == done[n - 1]
                 s == [lines[n][1] EXCEPT !.line = 0, !.semi = TRUE]
             IN IF lines[n] = <<>> THEN before
                ELSE IF Cancels(before, s) THEN Front(before) ELSE Append(before, s)
  IN done[Len(lines)]

\* The optimiser returns a circuit that does the same: what it dropped are
\* pairs of gates that undo each other and nothing else, in runs of any length.
\* It holds for circuits with one statement per line.
OptimisedIsEquivalent ==
  reply.call = "optimise" /\ OneStatementPerLine =>
    Simplified(reply.result.optimised_qasm) = Simplified(splitlines(program))

\* With one register the logical qubits are mapped one to one onto the
\* physical ones, with and without noise-aware mapping.
MappingIsPermutation ==
  LET lines == splitlines(program) IN
  reply.call = "optimise" =>
    \A d \in Declarations(lines) :
      LET mapping == reply.result.qubit_mapping
          qubits == 0 .. DeclaredSize(lines[d]) - 1
      IN Declarations(lines) = {d} =>
           DOMAIN mapping = qubits /\ { mapping[q] : q \in qubits } = qubits

Named == {reply.response.recommended} \cup ToSet(reply.response.alternatives)

\* The routing table and the adapters agree: whatever is named, as the first
\* choice or an alternative, can execute the circuit.  It holds where an IBM
\* Runtime that is switched on has its token, for circuits within the backend
\* of the simulators.
RoutedProviderRuns ==
  /\ reply.call = "select" /\ total_qubits <= BASIC_QUBITS
  /\ reply.ibm.enabled => reply.ibm.token
  => \A p \in Named : Executable(p, reply.ibm, total_qubits)
=============================================================================

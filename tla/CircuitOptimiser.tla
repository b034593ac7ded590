--------------------------- MODULE CircuitOptimiser ---------------------------
(***************************************************************************)
(* The heuristics that read a circuit line by line: the optimiser behind   *)
(* POST /v1/circuits/optimise and the counts the worker adds to a result.  *)
(* A circuit is a sequence of statements that carry their line (see        *)
(* QasmValidator); its lines are the sequences of their statements.        *)
(***************************************************************************)
EXTENDS Naturals, FiniteSetsExt, SequencesExt

CONSTANTS GATE_KEYWORDS, SELF_INVERSE

LastLine(p) == IF p = <<>> THEN 0 ELSE p[Len(p)].line

\* The number of statements before line n.
Before(p, n) == Cardinality({i \in DOMAIN p : p[i].line < n})

splitlines(p) == [n \in 1 .. LastLine(p) |-> SubSeq(p, Before(p, n) + 1, Before(p, n + 1))]

-----------------------------------------------------------------------------
\* These readers go by the first word, so a statement that the validator did
\* not recognise is a gate to them when its word is one.
IsGate(s, gates) == s.kind \in {"gate", "other"} /\ s.gate \in gates

\* What a line starts with.
Starts(line, kind) == line # <<>> /\ line[1].kind = kind
StartsWithGate(line, gates) == line # <<>> /\ IsGate(line[1], gates)

\* Nothing is left of such a line to take the first word of: _estimate_depth
\* and _count_gates raise IndexError.
OnlySemicolons(line) == Len(line) = 1 /\ line[1].kind = "empty"
Uncountable(lines) == \E n \in DOMAIN lines : OnlySemicolons(lines[n])

GateLines(lines) == {n \in DOMAIN lines : StartsWithGate(lines[n], GATE_KEYWORDS)}

\* Mutant: a circuit without gates counts none.
count_gates_zero(lines) == Cardinality(GateLines(lines))

\* _count_gates and _estimate_depth: the lines that start with a gate.
count_gates(lines) ==
  LET count == Cardinality(GateLines(lines)) IN IF count = 0 THEN 1 ELSE count

\* A line that starts with a qreg declaration; its size is the number in the
\* first brackets of the line, whichever statement they are in.
Bracketed(line) == {i \in DOMAIN line : line[i].refs # <<>>}
Declares(line) == Starts(line, "qreg") /\ Bracketed(line) # {}
DeclaredSize(line) ==
  IF Declares(line) THEN line[Min(Bracketed(line))].refs[1][2] ELSE 0

Declarations(lines) == {n \in DOMAIN lines : Declares(lines[n])}

\* The running total after each line.
qubit_totals(lines) ==
  LET total[n \in 0 .. Len(lines)] ==
        IF n = 0 THEN 0 ELSE total[n - 1] + DeclaredSize(lines[n])
  IN total

parse_qubit_count(lines) == qubit_totals(lines)[Len(lines)]

-----------------------------------------------------------------------------
\* The text of a line without its last semicolon.
Text(line) ==
  [i \in DOMAIN line |-> [line[i] EXCEPT !.line = 0, !.semi = @ \/ i = Len(line)]]

Pair(l1, l2) == l1 # <<>> /\ Text(l1) = Text(l2) /\ StartsWithGate(l1, SELF_INVERSE)

\* Mutant: the second line of a pair is compared with the next one again.
skip_next_again(lines) ==
  [n \in 0 .. Len(lines) |-> n > 1 /\ Pair(lines[n - 1], lines[n])]

\* The value of skip_next when the loop comes to each line: set by a line that
\* equals the next one, unless that line was itself skipped.
skip_next(lines) ==
  LET skip[n \in 0 .. Len(lines)] ==
        n > 1 /\ ~ skip[n - 1] /\ Pair(lines[n - 1], lines[n])
  IN skip

Dropped(lines, n) ==
  skip_next(lines)[n] \/ (n < Len(lines) /\ skip_next(lines)[n + 1])

Level(strategy) ==
  CASE strategy = "none" -> 0 [] strategy = "light" -> 1 [] strategy = "medium" -> 2
    [] OTHER -> 3

\* A dropped line stays as an empty one, which every reading passes over.
optimised_qasm(lines, strategy) ==
  IF Level(strategy) >= 2
  THEN [n \in DOMAIN lines |-> IF Dropped(lines, n) THEN <<>> ELSE lines[n]]
  ELSE lines

-----------------------------------------------------------------------------
\* Reading the size of a declaration raises where the worker's reading skips it.
Unreadable(lines) ==
  \E n \in DOMAIN lines : Starts(lines[n], "qreg") /\ ~ Declares(lines[n])

\* The indices of all registers one after the other: 0 .. n-1 for each.
qubit_indices(lines) ==
  LET indices[n \in 0 .. Len(lines)] ==
        IF n = 0 THEN <<>>
        ELSE indices[n - 1] \o [i \in 1 .. DeclaredSize(lines[n]) |-> i - 1]
  IN indices[Len(lines)]

\* dict(zip(keys, values)): the last value of a key stays.
DictZip(keys, values) ==
  [k \in ToSet(keys) |-> values[SelectLastInSeq(keys, LAMBDA x : x = k)]]

\* sorted(s, reverse=True): each number as often as s has it, the largest first.
Descending(s) ==
  LET copies(v) == [i \in 1 .. Cardinality({k \in DOMAIN s : s[k] = v}) |-> v]
      below[v \in 0 .. Max(ToSet(s))] ==
        IF v = 0 THEN copies(0) ELSE copies(v) \o below[v - 1]
  IN IF s = <<>> THEN <<>> ELSE below[Max(ToSet(s))]

\* Mutant: the physical qubits are counted from one.
build_qubit_mapping_from_one(lines, noise_aware) ==
  LET logical == qubit_indices(lines)
      physical == IF noise_aware THEN Descending(logical) ELSE logical
  IN DictZip(logical, [i \in DOMAIN physical |-> physical[i] + 1])

build_qubit_mapping(lines, noise_aware) ==
  LET logical == qubit_indices(lines)
  IN DictZip(logical, IF noise_aware THEN Descending(logical) ELSE logical)

optimise_circuit(lines, strategy, noise_aware_mapping) ==
  LET optimised == optimised_qasm(lines, strategy)
  IN [optimised_qasm       |-> optimised,
      original_gate_count  |-> count_gates(lines),
      optimised_gate_count |-> count_gates(optimised),
      qubit_mapping        |-> build_qubit_mapping(optimised,
                                 noise_aware_mapping \/ strategy = "noise_aware")]
=============================================================================

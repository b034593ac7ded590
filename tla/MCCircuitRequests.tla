--------------------------- MODULE MCCircuitRequests ---------------------------
(***************************************************************************)
(* Circuits of a header and up to five statements, one statement per line, *)
(* two per line or all on one line, and route requests at the boundaries   *)
(* of the catalogue.                                                       *)
(***************************************************************************)
EXTENDS CircuitRequests

Registers == {"q", "r", "c"}
AllGates == {"h", "x", "cx", "rx", "barrier", "reset", "none"}
Supported == {"h", "x", "cx", "rx", "barrier"}
Keywords == {"h", "x", "cx", "rx"}
SelfInverse == {"h", "x"}

St(kind, gate, semi, formed, refs) ==
  [line |-> 1, kind |-> kind, gate |-> gate, semi |-> semi, formed |-> formed, refs |-> refs]
Qreg(r, n) == St("qreg", "none", TRUE, TRUE, <<<<r, n>>>>)
Gate(g, refs) == St("gate", g, TRUE, TRUE, refs)

Header == St("header", "none", TRUE, TRUE, <<>>)
Creg == St("creg", "none", TRUE, TRUE, <<<<"c", 1>>>>)
H0 == Gate("h", <<<<"q", 0>>>>)
X0 == Gate("x", <<<<"q", 0>>>>)
X1 == Gate("x", <<<<"q", 1>>>>)
Semicolons == St("empty", "none", TRUE, TRUE, <<>>)

Statements == {
  Qreg("q", 0), Qreg("q", 1), Qreg("q", 2), Qreg("r", 24), Qreg("r", 29), Creg,
  St("qreg", "none", TRUE, FALSE, <<>>),
  H0, X1, Gate("cx", <<<<"q", 0>>, <<"r", 24>>>>), Gate("barrier", <<>>),
  Gate("reset", <<<<"q", 0>>>>),
  St("measure", "none", TRUE, TRUE, <<<<"q", 1>>, <<"c", 0>>>>),
  St("measure", "none", TRUE, FALSE, <<>>),
  St("include", "none", TRUE, TRUE, <<>>),
  St("other", "none", TRUE, TRUE, <<>>),
  [H0 EXCEPT !.semi = FALSE], [Creg EXCEPT !.formed = FALSE, !.refs = <<>>],
  St("other", "none", FALSE, TRUE, <<>>),
  Semicolons, St("other", "rx", TRUE, TRUE, <<<<"q", 2>>>>) }

Sequences(S, n) == UNION { [1 .. k -> S] : k \in 0 .. n }

Bodies ==
  Sequences(Statements, 2)
    \cup { <<Qreg("q", 2)>> \o s : s \in Sequences(Statements, 2) }
    \cup { <<Qreg("q", 2), Creg>> \o s : s \in Sequences(Statements, 1) }
    \cup { <<Qreg("q", 2)>> \o s : s \in Sequences({H0, X0, X1}, 4) }

\* A semicolon is missing only at the end of a line.
Possible(p) == \A i \in 1 .. Len(p) - 1 : ~ p[i].semi => p[i].line # p[i + 1].line

Layouts(p) ==
  { [i \in DOMAIN p |-> [p[i] EXCEPT !.line = i]],
    [i \in DOMAIN p |-> [p[i] EXCEPT !.line = IF i < 3 THEN i ELSE i + 1]],
    [i \in DOMAIN p |-> [p[i] EXCEPT !.line = (i + 1) \div 2]],
    p }

Circuits ==
  { p \in UNION { Layouts(<<Header>> \o b) : b \in Bodies } : Possible(p) }
    \cup {<<>>, <<Qreg("q", 1)>>, <<[Header EXCEPT !.line = 2]>>}

AllStrategies == {"none", "light", "medium", "heavy", "noise_aware"}

RouteOptions ==
  [ qubit_count : {1}, shots : {1, 10000}, prefer_hardware : BOOLEAN,
    max_cost : {{}, {0}}, min_fidelity : {{}, {98}},
    max_queue : {{}, {60}},
    exclude_providers : { {}, {"local_simulator"}, {"local_simulator", "simulator_aer"} } ]
=============================================================================

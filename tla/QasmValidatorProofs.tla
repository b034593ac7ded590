-------------------------- MODULE QasmValidatorProofs --------------------------
(***************************************************************************)
(* What the validator guarantees of every circuit it accepts, whatever the *)
(* set of circuits, names and gates and wherever the limit lies; what the  *)
(* registry answers about an accepted one, whatever is asked for; and that *)
(* the heuristics that read a circuit line by line are right about it,     *)
(* however long it is.                                                     *)
(***************************************************************************)
EXTENDS CircuitRequests, FiniteSetTheorems, SequenceTheorems, WellFoundedInduction, TLAPS

\* A register's size in the tables is the size that a statement already read
\* declares: a later declaration replaces the size, never enlarges an index.
SizesAreDeclared ==
  \A r \in Names :
    /\ qregs[r] > 0 => \E k \in 1 .. pos - 1 :
         /\ program[k].kind = "qreg" /\ program[k].formed
         /\ program[k].refs[1][1] = r /\ program[k].refs[1][2] = qregs[r]
    /\ cregs[r] > 0 => \E k \in 1 .. pos - 1 :
         /\ program[k].kind = "creg" /\ program[k].formed
         /\ program[k].refs[1][1] = r /\ program[k].refs[1][2] = cregs[r]

\* The statements already read are right, and acceptance means all were read.
ReadIsRight == \A i \in 1 .. pos - 1 : OperandsExist(program, i)

ValidatorInv ==
  /\ program \in Programs
  /\ TypeOK
  /\ SizesAreDeclared
  /\ ReadIsRight
  /\ verdict = "accepted" => pos = Len(program) + 1

-----------------------------------------------------------------------------
\* The statement at the position is one of the program, with the parts its
\* patterns promise.
LEMMA CurrentStatement ==
  ASSUME ValidatorInv, pos <= Len(program)
  PROVE  /\ pos \in DOMAIN program /\ pos \in Nat /\ Current \in Statement
         /\ Arity(Current)
         /\ \A n \in DOMAIN Current.refs : /\ Current.refs[n] \in Names \X Nat
                                           /\ Current.refs[n][1] \in Names
                                           /\ Current.refs[n][2] \in Nat
<1>1. program \in Seq(Statement) /\ \A i \in DOMAIN program : Arity(program[i])
  BY ProgramsAssumption DEF ValidatorInv
<1>2. pos \in 1 .. Len(program) + 1 /\ Len(program) \in Nat
  BY <1>1 DEF ValidatorInv, TypeOK
<1>3. pos \in DOMAIN program /\ pos \in Nat
  BY <1>1, <1>2
<1>4. Current \in Statement /\ Arity(Current)
  BY <1>1, <1>3 DEF Current
<1>5. Current.refs \in Seq(Names \X Nat)
  BY <1>4 DEF Statement
<1>6. ASSUME NEW n \in DOMAIN Current.refs
      PROVE  /\ Current.refs[n] \in Names \X Nat
             /\ Current.refs[n][1] \in Names /\ Current.refs[n][2] \in Nat
  BY <1>5
<1>7. QED
  BY <1>3, <1>4, <1>6

\* A well-formed declaration has its one part, a measurement its two.
LEMMA CurrentParts ==
  ASSUME ValidatorInv, pos <= Len(program), Current.formed
  PROVE  /\ Current.kind \in {"qreg", "creg"} =>
              1 \in DOMAIN Current.refs /\ Current.refs[1][1] \in Names /\ Size \in Nat
         /\ Current.kind = "measure" => 1 \in DOMAIN Current.refs /\ 2 \in DOMAIN Current.refs
<1>1. Current.refs \in Seq(Names \X Nat) /\ Arity(Current)
  BY CurrentStatement DEF Statement
<1>2. DOMAIN Current.refs = 1 .. Len(Current.refs)
  BY <1>1
<1>3. ASSUME Current.kind \in {"qreg", "creg"}
      PROVE  1 \in DOMAIN Current.refs
  <2>1. Len(Current.refs) = 1
    BY <1>1, <1>3 DEF Arity
  <2>2. QED
    BY <1>2, <2>1
<1>4. ASSUME Current.kind = "measure"
      PROVE  1 \in DOMAIN Current.refs /\ 2 \in DOMAIN Current.refs
  <2>1. Len(Current.refs) = 2
    BY <1>1, <1>4 DEF Arity
  <2>2. QED
    BY <1>2, <2>1
<1>5. QED
  BY <1>3, <1>4, CurrentStatement DEF Size

\* An operand the validator finds in range is in a register declared before.
LEMMA InRangeIsDeclared ==
  ASSUME ValidatorInv, NEW ref \in Names \X Nat
  PROVE  /\ InRange(qregs, ref) => DeclaredBefore(program, pos, "qreg", ref)
         /\ InRange(cregs, ref) => DeclaredBefore(program, pos, "creg", ref)
<1>1. ref[1] \in Names /\ ref[2] \in Nat
  OBVIOUS
<1>2. qregs[ref[1]] \in Nat /\ cregs[ref[1]] \in Nat
  BY <1>1, ProgramsAssumption DEF ValidatorInv, TypeOK
<1>3. InRange(qregs, ref) => qregs[ref[1]] > 0
  BY <1>1, <1>2 DEF InRange
<1>4. InRange(cregs, ref) => cregs[ref[1]] > 0
  BY <1>1, <1>2 DEF InRange
<1>5. QED
  BY <1>1, <1>3, <1>4 DEF ValidatorInv, SizesAreDeclared, InRange, DeclaredBefore

\* A statement that declares nothing may be passed when its operands exist.
LEMMA PassingKeepsInv ==
  ASSUME ValidatorInv, verdict = "open", pos <= Len(program),
         Advance, Declared, OperandsExist(program, pos)
  PROVE  ValidatorInv'
<1>1. pos \in Nat /\ Len(program) \in Nat /\ pos' = pos + 1
  BY CurrentStatement, ProgramsAssumption DEF ValidatorInv, Advance
<1>2. 1 .. pos' - 1 = (1 .. pos - 1) \cup {pos}
  BY <1>1, CurrentStatement
<1>3. TypeOK'
  BY <1>1, CurrentStatement DEF ValidatorInv, TypeOK, Advance, Declared
<1>4. SizesAreDeclared'
  BY <1>2 DEF ValidatorInv, SizesAreDeclared, Advance, Declared
<1>5. ReadIsRight'
  BY <1>2 DEF ValidatorInv, ReadIsRight, Advance
<1>6. QED
  BY <1>3, <1>4, <1>5 DEF ValidatorInv, Advance

LEMMA InitInv == Init => ValidatorInv
<1>1. SUFFICES ASSUME Init PROVE ValidatorInv
  OBVIOUS
<1>2. program \in Seq(Statement) /\ Len(program) \in Nat
  BY <1>1, ProgramsAssumption DEF Init
<1>3. TypeOK
  BY <1>1, <1>2, ProgramsAssumption DEF Init, TypeOK
<1>4. SizesAreDeclared /\ ReadIsRight
  BY <1>1 DEF Init, SizesAreDeclared, ReadIsRight
<1>5. QED
  BY <1>1, <1>3, <1>4 DEF Init, ValidatorInv

\* Nothing but the verdict changes, and it is not acceptance.
LEMMA VerdictKeepsInv ==
  ASSUME ValidatorInv, UNCHANGED <<program, pos, qregs, cregs, total_qubits>>,
         verdict' \in {"open", "rejected"} \/ (verdict' = "accepted" /\ pos > Len(program))
  PROVE  ValidatorInv'
<1>1. Len(program) \in Nat
  BY ProgramsAssumption DEF ValidatorInv
<1>2. TypeOK' /\ SizesAreDeclared' /\ ReadIsRight'
  BY DEF ValidatorInv, TypeOK, SizesAreDeclared, ReadIsRight
<1>3. (verdict = "accepted" => pos = Len(program) + 1)'
  BY <1>1 DEF ValidatorInv, TypeOK
<1>4. QED
  BY <1>2, <1>3 DEF ValidatorInv

LEMMA DeclareQubitsKeepsInv == ASSUME ValidatorInv, DeclareQubits PROVE ValidatorInv'
<1> USE DEF Reads
<1>1. /\ pos \in Nat /\ Len(program) \in Nat /\ pos' = pos + 1
      /\ pos <= Len(program) /\ verdict = "open" /\ Current.kind = "qreg"
      /\ Current.formed /\ total_qubits + Size <= MAX_QUBITS
  BY CurrentStatement, ProgramsAssumption
     DEF ValidatorInv, DeclareQubits, QregFits, Advance, Current
<1>2. Current.refs[1][1] \in Names /\ Size \in Nat
  BY <1>1, CurrentParts
<1>3. Size <= MAX_QUBITS /\ total_qubits + Size \in 0 .. MAX_QUBITS
  BY <1>1, <1>2, ProgramsAssumption DEF ValidatorInv, TypeOK
<1>4. TypeOK'
  BY <1>1, <1>2, <1>3, ProgramsAssumption DEF ValidatorInv, TypeOK, DeclareQubits, Advance
<1>5. ASSUME NEW r \in Names, qregs'[r] > 0
      PROVE  \E k \in 1 .. pos : /\ program[k].kind = "qreg" /\ program[k].formed
                                 /\ program[k].refs[1][1] = r /\ program[k].refs[1][2] = qregs'[r]
  <2>1. CASE r = Current.refs[1][1]
    <3>1. qregs'[r] = Size
      BY <1>2, <2>1 DEF ValidatorInv, TypeOK, DeclareQubits
    <3>2. pos \in 1 .. pos
      BY <1>1, CurrentStatement, ProgramsAssumption DEF ValidatorInv
    <3>3. QED
      BY <1>1, <2>1, <3>1, <3>2 DEF Current, Size
  <2>2. CASE r # Current.refs[1][1]
    <3>1. qregs'[r] = qregs[r]
      BY <1>2, <2>2 DEF ValidatorInv, TypeOK, DeclareQubits
    <3>2. \A k \in 1 .. pos - 1 : k \in 1 .. pos
      BY <1>1
    <3>3. QED
      BY <1>5, <3>1, <3>2 DEF ValidatorInv, SizesAreDeclared
  <2>3. QED
    BY <2>1, <2>2
<1>6. SizesAreDeclared'
  <2>1. pos' - 1 = pos /\ program' = program /\ cregs' = cregs
    BY <1>1 DEF DeclareQubits, Advance
  <2>2. \A k \in 1 .. pos - 1 : k \in 1 .. pos
    BY <1>1
  <2>3. QED
    BY <1>5, <2>1, <2>2 DEF ValidatorInv, SizesAreDeclared
<1>7. ReadIsRight'
  <2>1. 1 .. pos' - 1 = (1 .. pos - 1) \cup {pos}
    BY <1>1, CurrentStatement
  <2>2. OperandsExist(program, pos)
    BY <1>1 DEF OperandsExist, Current
  <2>3. QED
    BY <2>1, <2>2 DEF ValidatorInv, ReadIsRight, DeclareQubits, Advance
<1>8. QED
  BY <1>1, <1>4, <1>6, <1>7 DEF ValidatorInv, DeclareQubits, Advance

LEMMA DeclareBitsKeepsInv == ASSUME ValidatorInv, DeclareBits PROVE ValidatorInv'
<1> USE DEF Reads
<1>1. /\ pos \in Nat /\ Len(program) \in Nat /\ pos' = pos + 1
      /\ pos <= Len(program) /\ verdict = "open" /\ Current.kind = "creg" /\ Current.formed
  BY CurrentStatement, ProgramsAssumption
     DEF ValidatorInv, DeclareBits, Advance, Current
<1>2. Current.refs[1][1] \in Names /\ Size \in Nat
  BY <1>1, CurrentParts
<1>3. TypeOK'
  BY <1>1, <1>2 DEF ValidatorInv, TypeOK, DeclareBits, Advance
<1>4. ASSUME NEW r \in Names, cregs'[r] > 0
      PROVE  \E k \in 1 .. pos : /\ program[k].kind = "creg" /\ program[k].formed
                                 /\ program[k].refs[1][1] = r /\ program[k].refs[1][2] = cregs'[r]
  <2>1. CASE r = Current.refs[1][1]
    <3>1. cregs'[r] = Size
      BY <1>2, <2>1 DEF ValidatorInv, TypeOK, DeclareBits
    <3>2. pos \in 1 .. pos
      BY <1>1, CurrentStatement, ProgramsAssumption DEF ValidatorInv
    <3>3. QED
      BY <1>1, <2>1, <3>1, <3>2 DEF Current, Size
  <2>2. CASE r # Current.refs[1][1]
    <3>1. cregs'[r] = cregs[r]
      BY <1>2, <2>2 DEF ValidatorInv, TypeOK, DeclareBits
    <3>2. \A k \in 1 .. pos - 1 : k \in 1 .. pos
      BY <1>1
    <3>3. QED
      BY <1>4, <3>1, <3>2 DEF ValidatorInv, SizesAreDeclared
  <2>3. QED
    BY <2>1, <2>2
<1>5. SizesAreDeclared'
  <2>1. pos' - 1 = pos /\ program' = program /\ qregs' = qregs
    BY <1>1 DEF DeclareBits, Advance
  <2>2. \A k \in 1 .. pos - 1 : k \in 1 .. pos
    BY <1>1
  <2>3. QED
    BY <1>4, <2>1, <2>2 DEF ValidatorInv, SizesAreDeclared
<1>6. ReadIsRight'
  <2>1. 1 .. pos' - 1 = (1 .. pos - 1) \cup {pos}
    BY <1>1, CurrentStatement
  <2>2. OperandsExist(program, pos)
    BY <1>1 DEF OperandsExist, Current
  <2>3. QED
    BY <2>1, <2>2 DEF ValidatorInv, ReadIsRight, DeclareBits, Advance
<1>7. QED
  BY <1>1, <1>3, <1>5, <1>6 DEF ValidatorInv, DeclareBits, Advance

\* Gates and measurements pass with operands in range, the rest has none.
LEMMA PassingStatements ==
  ASSUME ValidatorInv, Skip \/ Measure \/ ApplyGate
  PROVE  ValidatorInv'
<1> USE DEF Reads
<1>1. /\ pos <= Len(program) /\ verdict = "open" /\ Advance /\ Declared
  BY DEF Skip, Measure, ApplyGate
<1>2. \A n \in DOMAIN Current.refs : Current.refs[n] \in Names \X Nat
  BY <1>1, CurrentStatement
<1>3. CASE Skip
  <2>1. OperandsExist(program, pos)
    BY <1>3 DEF Skip, OperandsExist
  <2>2. QED
    BY <1>1, <2>1, PassingKeepsInv
<1>4. CASE Measure
  <2>1. Current.kind = "measure" /\ Current.formed
        /\ InRange(qregs, Current.refs[1]) /\ InRange(cregs, Current.refs[2])
    BY <1>4 DEF Measure, Measurable, Current
  <2>2. 1 \in DOMAIN Current.refs /\ 2 \in DOMAIN Current.refs
    BY <1>1, <2>1, CurrentParts
  <2>3. /\ DeclaredBefore(program, pos, "qreg", Current.refs[1])
        /\ DeclaredBefore(program, pos, "creg", Current.refs[2])
    BY <1>2, <2>1, <2>2, InRangeIsDeclared
  <2>4. OperandsExist(program, pos)
    BY <2>1, <2>3 DEF OperandsExist, Current
  <2>5. QED
    BY <1>1, <2>4, PassingKeepsInv
<1>5. CASE ApplyGate
  <2>1. Current.kind = "gate" /\ \A n \in DOMAIN Current.refs : InRange(qregs, Current.refs[n])
    BY <1>5 DEF ApplyGate, Applicable, Current
  <2>2. \A n \in DOMAIN Current.refs :
          DeclaredBefore(program, pos, "qreg", Current.refs[n])
    BY <1>2, <2>1, InRangeIsDeclared
  <2>3. OperandsExist(program, pos)
    BY <2>1, <2>2 DEF OperandsExist, Current
  <2>4. QED
    BY <1>1, <2>3, PassingKeepsInv
<1>6. QED
  BY <1>3, <1>4, <1>5

LEMMA StepKeepsInv == ValidatorInv /\ [Next]_vars => ValidatorInv'
<1> SUFFICES ASSUME ValidatorInv, [Next]_vars PROVE ValidatorInv'
  OBVIOUS
<1>1. CASE CheckHeader
  <2>1. verdict' \in {"open", "rejected"} /\ UNCHANGED <<program, pos, qregs, cregs, total_qubits>>
    BY <1>1 DEF CheckHeader
  <2>2. QED
    BY <2>1, VerdictKeepsInv
<1>2. CASE Skip \/ Measure \/ ApplyGate
  BY <1>2, PassingStatements
<1>3. CASE DeclareQubits
  BY <1>3, DeclareQubitsKeepsInv
<1>4. CASE DeclareBits
  BY <1>4, DeclareBitsKeepsInv
<1>5. CASE Reject
  <2>1. verdict' \in {"open", "rejected"} /\ UNCHANGED <<program, pos, qregs, cregs, total_qubits>>
    BY <1>5 DEF Reject
  <2>2. QED
    BY <2>1, VerdictKeepsInv
<1>6. CASE Accept
  BY <1>6, VerdictKeepsInv DEF Accept
<1>7. CASE UNCHANGED vars
  BY <1>7 DEF vars, ValidatorInv, TypeOK, SizesAreDeclared, ReadIsRight
<1>8. QED
  BY <1>1, <1>2, <1>3, <1>4, <1>5, <1>6, <1>7 DEF Next

LEMMA Invariance == Spec => []ValidatorInv
BY InitInv, StepKeepsInv, PTL DEF Spec

\* The registers validate_qasm has accepted never hold more qubits than
\* MAX_QUBITS, singly or together, and its position stays in the circuit.
THEOREM TypeCorrect == Spec => []TypeOK
<1>1. ValidatorInv => TypeOK
  BY DEF ValidatorInv
<1>2. QED
  BY <1>1, Invariance, PTL

\* In every circuit validate_qasm accepts, of any length, each indexed operand
\* of each gate and measurement lies in a register declared before it.
THEOREM AcceptedCircuitsAreSound == Spec => []AcceptedOperandsExist
<1>1. ValidatorInv => AcceptedOperandsExist
  <2>1. SUFFICES ASSUME ValidatorInv, verdict = "accepted", NEW i \in DOMAIN program
                 PROVE  OperandsExist(program, i)
    BY DEF AcceptedOperandsExist
  <2>2. program \in Seq(Statement) /\ Len(program) \in Nat
    BY <2>1, ProgramsAssumption DEF ValidatorInv
  <2>3. i \in 1 .. pos - 1
    BY <2>1, <2>2 DEF ValidatorInv
  <2>4. QED
    BY <2>1, <2>3 DEF ValidatorInv, ReadIsRight
<1>2. QED
  BY <1>1, Invariance, PTL

-----------------------------------------------------------------------------
LEMMA RequestStep == [RequestNext]_requestVars => [Next]_vars
<1> SUFFICES ASSUME [RequestNext]_requestVars PROVE [Next]_vars
  OBVIOUS
<1>1. CASE ValidateStep
  BY <1>1 DEF ValidateStep
<1>2. CASE Optimise
  BY <1>2 DEF Optimise
<1>3. CASE Execute
  BY <1>3 DEF Execute
<1>4. CASE SelectProvider
  BY <1>4 DEF SelectProvider
<1>5. QED
  BY <1>1, <1>2, <1>3, <1>4 DEF RequestNext, requestVars

\* What else is done with a circuit does not touch its validation, so the
\* theorems above hold of the composition too.
THEOREM RequestsKeepTheValidator == RequestSpec => Spec
<1>1. RequestInit => Init
  BY DEF RequestInit
<1>2. QED
  BY <1>1, RequestStep, PTL DEF RequestSpec, Spec

\* The deployment's IBM Runtime is not switched on without its token.
Complete(ibm) == ibm.enabled => ibm.token

\* The catalogue has five entries; which of them are switched on, and run
\* what the simulators' backend takes.
LEMMA CatalogueIsRight ==
  ASSUME NEW ibm \in IbmSettings
  PROVE  /\ DOMAIN Catalogue(ibm) = 1 .. 5 /\ IsFiniteSet(1 .. 5)
         /\ \A i \in 1 .. 5, qubits \in 0 .. BASIC_QUBITS :
              Complete(ibm) /\ Catalogue(ibm)[i].enabled =>
                Executable(Catalogue(ibm)[i].provider, ibm, qubits)
<1>1. DOMAIN Catalogue(ibm) = 1 .. 5
  BY DEF Catalogue
<1>2. /\ Catalogue(ibm)[1].provider = "local_simulator"
      /\ Catalogue(ibm)[2].provider = "simulator_aer"
      /\ Catalogue(ibm)[3].provider = "ibm_runtime" /\ Catalogue(ibm)[3].enabled = ibm.enabled
      /\ Catalogue(ibm)[4].enabled = FALSE /\ Catalogue(ibm)[5].enabled = FALSE
  BY DEF Catalogue, Provider
<1>3. ASSUME NEW i \in 1 .. 5, NEW qubits \in 0 .. BASIC_QUBITS,
             Complete(ibm), Catalogue(ibm)[i].enabled
      PROVE  Executable(Catalogue(ibm)[i].provider, ibm, qubits)
  <2>1. i = 1 \/ i = 2 \/ i = 3 \/ i = 4 \/ i = 5
    BY <1>3
  <2>2. i = 1 \/ i = 2 \/ (i = 3 /\ ibm.enabled)
    BY <1>2, <1>3, <2>1
  <2>3. qubits <= BASIC_QUBITS
    BY DEF BASIC_QUBITS
  <2>4. QED
    BY <1>2, <1>3, <2>2, <2>3 DEF Executable, Simulators, Complete
<1>4. IsFiniteSet(1 .. 5)
  <2>1. 1 \in Int /\ 5 \in Int
    OBVIOUS
  <2>2. QED
    BY <2>1, FS_Interval
<1>5. QED
  BY <1>1, <1>3, <1>4

\* The scores are numbers, so any two candidates have an order.
LEMMA ScoresAreNumbers ==
  ASSUME NEW request \in RouteRequest, NEW ibm \in IbmSettings, NEW i \in DOMAIN Catalogue(ibm)
  PROVE  Score(Catalogue(ibm)[i], request) \in Int
<1>1. request.shots \in Nat
  BY DEF RouteRequest
<1>2. i \in 1 .. 5 /\ \A k \in 1 .. 5 :
        /\ Catalogue(ibm)[k].cost_per_shot \in Nat /\ Catalogue(ibm)[k].queue_seconds \in Nat
        /\ Catalogue(ibm)[k].fidelity \in Nat
  BY DEF Catalogue, Provider
<1>3. Catalogue(ibm)[i].cost_per_shot * request.shots \in Int
  BY <1>1, <1>2
<1>4. QED
  BY <1>2, <1>3 DEF Score

\* The order of the candidates is strict and total: each has a place of its own,
\* and so every place is some candidate's.
LEMMA PlacesAreTaken ==
  ASSUME NEW request \in RouteRequest, NEW ibm \in IbmSettings,
         NEW n \in 1 .. Cardinality(Candidates(request, ibm))
  PROVE  \E i \in Candidates(request, ibm) : Cardinality(Better(i, request, ibm)) = n - 1
<1> DEFINE C == Candidates(request, ibm)
           B(i) == Better(i, request, ibm)
           score(i) == Score(Catalogue(ibm)[i], request)
           place == [i \in C |-> Cardinality(B(i))]
           size == Cardinality(C)
           others == (0 .. size - 1) \ {n - 1}
<1>1. C \subseteq 1 .. 5 /\ IsFiniteSet(C) /\ size \in Nat
  <2>1. C \subseteq 1 .. 5
    BY CatalogueIsRight DEF Candidates
  <2>2. QED
    BY <2>1, CatalogueIsRight, FS_Subset, FS_CardinalityType
<1>2. \A i \in C : score(i) \in Int
  BY ScoresAreNumbers DEF Candidates
<1>3. \A i \in C : B(i) = {k \in C : score(k) < score(i) \/ (score(k) = score(i) /\ k < i)}
  BY DEF Better
<1> HIDE DEF C, B, score
<1>4. ASSUME NEW i \in C
      PROVE  IsFiniteSet(B(i)) /\ place[i] \in 0 .. size - 1
  <2>1. B(i) \subseteq C /\ i \notin B(i)
    BY <1>1, <1>2, <1>3
  <2>2. IsFiniteSet(B(i)) /\ Cardinality(B(i)) \in Nat
        /\ Cardinality(B(i)) <= size /\ Cardinality(B(i)) # size
    BY <1>1, <2>1, FS_Subset, FS_CardinalityType
  <2>3. QED
    BY <1>1, <2>2
<1>5. ASSUME NEW i \in C, NEW k \in C, i # k
      PROVE  place[i] # place[k]
  <2>1. ASSUME NEW a \in C, NEW b \in C, a \in B(b)
        PROVE  place[a] # place[b]
    <3>1. a \notin B(a) /\ (score(a) < score(b) \/ (score(a) = score(b) /\ a < b))
      BY <1>1, <1>2, <1>3, <2>1
    <3>2. ASSUME NEW c \in B(a) PROVE c \in B(b)
      <4>1. c \in C /\ (score(c) < score(a) \/ (score(c) = score(a) /\ c < a))
        BY <1>3, <3>2
      <4>2. \A x \in C : x \in Int /\ score(x) \in Int
        BY <1>1, <1>2
      <4>3. score(c) < score(b) \/ (score(c) = score(b) /\ c < b)
        BY <3>1, <4>1, <4>2
      <4>4. QED
        BY <1>3, <4>1, <4>3
    <3>3. Cardinality(B(a)) # Cardinality(B(b))
      BY <1>4, <2>1, <3>1, <3>2, FS_Subset
    <3>4. QED
      BY <3>3 DEF place
  <2>2. i \in B(k) \/ k \in B(i)
    BY <1>1, <1>2, <1>3, <1>5
  <2>3. QED
    BY <2>1, <2>2
<1>6. SUFFICES ASSUME \A i \in C : place[i] # n - 1 PROVE FALSE
  BY DEF C, B
<1> HIDE DEF place
<1>7. place \in [C -> others]
  BY <1>4, <1>6 DEF place
<1>8. IsFiniteSet(others) /\ Cardinality(others) < size
  <2> DEFINE places == 0 .. size - 1
  <2>1. n - 1 \in places /\ 0 \in Int /\ size - 1 \in Int /\ size - 1 >= 0
    BY <1>1 DEF C
  <2>2. IsFiniteSet(places) /\ Cardinality(places) = size
    BY <1>1, <2>1, FS_Interval
  <2>3. QED
    <3> HIDE DEF places
    <3>1. IsFiniteSet(places \ {n - 1}) /\ Cardinality(places \ {n - 1}) = size - 1
      BY <2>1, <2>2, FS_RemoveElement
    <3>2. others = places \ {n - 1}
      BY DEF places
    <3> HIDE DEF others, size
    <3>3. QED
      BY <1>1, <3>1, <3>2
<1> HIDE DEF others
<1>9. PICK i \in C, k \in C : i # k /\ place[i] = place[k]
  BY <1>1, <1>7, <1>8, FS_PigeonHole
<1>10. QED
  BY <1>5, <1>9

\* Every entry of the ranking is a candidate, so it is switched on.
LEMMA RankedAreExecutable ==
  ASSUME NEW request \in RouteRequest, NEW ibm \in IbmSettings, Complete(ibm),
         NEW qubits \in 0 .. BASIC_QUBITS, NEW n \in DOMAIN Rank(request, ibm)
  PROVE  Executable(Catalogue(ibm)[Rank(request, ibm)[n]].provider, ibm, qubits)
<1> DEFINE i == Rank(request, ibm)[n]
<1>1. i \in Candidates(request, ibm)
  BY PlacesAreTaken DEF Rank
<1>2. i \in DOMAIN Catalogue(ibm) /\ Catalogue(ibm)[i].enabled
  BY <1>1 DEF Candidates, Suits
<1> HIDE DEF i
<1>3. QED
  BY <1>2, CatalogueIsRight DEF i

LEMMA SelectedAreExecutable ==
  ASSUME NEW request \in RouteRequest, NEW ibm \in IbmSettings, Complete(ibm),
         NEW qubits \in 0 .. BASIC_QUBITS,
         NEW p \in {select(request, ibm).recommended} \cup ToSet(select(request, ibm).alternatives)
  PROVE  Executable(p, ibm, qubits)
<1> DEFINE rank == Rank(request, ibm)
           ranked == [n \in DOMAIN rank |-> Catalogue(ibm)[rank[n]].provider]
           size == Cardinality(Candidates(request, ibm))
<1>1. \A n \in DOMAIN rank : Executable(ranked[n], ibm, qubits)
  BY RankedAreExecutable
<1>2. DOMAIN rank = 1 .. size /\ size \in Nat
  <2>1. Candidates(request, ibm) \subseteq 1 .. 5
    BY CatalogueIsRight DEF Candidates
  <2>2. size \in Nat
    BY <2>1, CatalogueIsRight, FS_Subset, FS_CardinalityType
  <2>3. QED
    BY <2>2 DEF Rank
<1>3. select(request, ibm) =
        IF ranked = <<>> THEN [recommended |-> "local_simulator", alternatives |-> <<>>]
        ELSE [recommended |-> Head(ranked), alternatives |-> Tail(ranked)]
  BY DEF select
<1> HIDE DEF rank, ranked
<1>4. CASE ranked = <<>>
  <2>1. p = "local_simulator" /\ qubits <= BASIC_QUBITS
    BY <1>3, <1>4 DEF ToSet, BASIC_QUBITS
  <2>2. QED
    BY <2>1 DEF Executable, Simulators
<1>5. CASE ranked # <<>>
  <2>1. ranked = [n \in 1 .. size |-> ranked[n]] /\ Len(ranked) = size
    BY <1>2 DEF ranked
  <2>2. size > 0 /\ Head(ranked) = ranked[1]
    BY <1>2, <1>5, <2>1
  <2>3. \A q \in ToSet(Tail(ranked)) : \E n \in 1 .. size : q = ranked[n]
    BY <1>2, <2>1, <2>2 DEF ToSet
  <2>4. \E n \in 1 .. size : p = ranked[n]
    BY <1>2, <1>3, <1>5, <2>2, <2>3
  <2>5. QED
    BY <1>1, <1>2, <2>4
<1>6. QED
  BY <1>4, <1>5

\* Whatever a client asks for, select never names a provider for which
\* get_provider or the adapter raises, where an IBM Runtime that is switched on
\* has its token, and never one whose backend is too small for a circuit of up
\* to BASIC_QUBITS qubits.
THEOREM RoutedProvidersRun == RequestSpec => []RoutedProviderRuns
<1> DEFINE Inv == ValidatorInv /\ RoutedProviderRuns
<1>1. RequestInit => Inv
  BY InitInv DEF RequestInit, RoutedProviderRuns, Nothing
<1>2. Inv /\ [RequestNext]_requestVars => Inv'
  <2> SUFFICES ASSUME Inv, [RequestNext]_requestVars PROVE Inv'
    OBVIOUS
  <2>1. ValidatorInv'
    BY RequestStep, StepKeepsInv
  <2>2. CASE ValidateStep \/ UNCHANGED requestVars
    <3>1. reply'.call # "select" \/ UNCHANGED requestVars
      BY <2>2 DEF ValidateStep, Nothing
    <3>2. QED
      BY <2>1, <3>1 DEF RoutedProviderRuns, Named, requestVars, vars
  <2>3. CASE Optimise \/ Execute
    <3>1. reply'.call \in {"failed", "optimise", "execute"}
      BY <2>3 DEF Optimise, Execute
    <3>2. QED
      BY <2>1, <3>1 DEF RoutedProviderRuns
  <2>4. CASE SelectProvider
    <3>1. PICK option \in Options, ibm \in IbmSettings :
            reply' = [call |-> "select", ibm |-> ibm,
                      response |-> select([option EXCEPT !.qubit_count =
                                             IF total_qubits = 0 THEN 1 ELSE total_qubits], ibm)]
      BY <2>4 DEF SelectProvider
    <3> DEFINE request == [option EXCEPT !.qubit_count = IF total_qubits = 0 THEN 1 ELSE total_qubits]
    <3>2. total_qubits \in Nat
      BY ProgramsAssumption DEF ValidatorInv, TypeOK
    <3>3. request \in RouteRequest
      BY <3>2, OptionsAssumption DEF RouteRequest
    <3>4. /\ reply'.ibm = ibm /\ reply'.response = select(request, ibm)
          /\ total_qubits' = total_qubits
      BY <2>4, <3>1 DEF SelectProvider, vars
    <3> HIDE DEF request
    <3>5. ASSUME total_qubits <= BASIC_QUBITS, Complete(ibm), NEW p \in Named'
          PROVE  Executable(p, ibm, total_qubits)
      <4>1. total_qubits \in 0 .. BASIC_QUBITS
        BY <3>2, <3>5 DEF BASIC_QUBITS
      <4>2. p \in {select(request, ibm).recommended} \cup ToSet(select(request, ibm).alternatives)
        BY <3>4, <3>5 DEF Named
      <4>3. QED
        BY <3>3, <3>5, <4>1, <4>2, SelectedAreExecutable
    <3>6. QED
      BY <2>1, <3>4, <3>5 DEF RoutedProviderRuns, Complete
  <2>5. QED
    BY <2>2, <2>3, <2>4 DEF RequestNext
<1>3. QED
  BY <1>1, <1>2, PTL DEF RequestSpec

-----------------------------------------------------------------------------
\* A set of numbers that is not empty has a least one.
LEMMA Least ==
  ASSUME NEW S, S \subseteq Nat, S # {}
  PROVE  \E m \in S : \A k \in S : m <= k
<1>1. PICK m \in S : \A k \in S : ~ (<<k, m>> \in OpToRel(<, Nat))
  BY NatLessThanWellFounded, WFMin
<1>2. ASSUME NEW k \in S PROVE m <= k
  <2>1. k \in Nat /\ m \in Nat
    OBVIOUS
  <2>2. ~ (k < m)
    BY <1>1, <2>1 DEF OpToRel
  <2>3. QED
    BY <2>1, <2>2
<1>3. QED
  BY <1>2

\* Induction up to a bound, with a set in place of a formula: a set with 0 and
\* with each number after one it has, has them all.
LEMMA UpTo ==
  ASSUME NEW n \in Nat, NEW S, 0 \in S, \A k \in 1 .. n : k - 1 \in S => k \in S
  PROVE  \A k \in 0 .. n : k \in S
<1> DEFINE missing == (0 .. n) \ S
<1>1. SUFFICES ASSUME missing # {} PROVE FALSE
  OBVIOUS
<1>2. PICK m \in missing : \A k \in missing : m <= k
  <2>1. missing \subseteq Nat
    OBVIOUS
  <2> HIDE DEF missing
  <2>2. QED
    BY <1>1, <2>1, Least
<1>3. m \in 1 .. n /\ m \notin S
  OBVIOUS
<1>4. m - 1 \in missing /\ ~ (m <= m - 1)
  BY <1>3
<1>5. QED
  BY <1>2, <1>4

\* g is the function on 0 .. n that starts and steps so.
Recursion(g, A, base, n, step) ==
  /\ g \in [0 .. n -> A] /\ g[0] = base
  /\ \A k \in 1 .. n : g[k] = step[<<g[k - 1], k>>]

\* What a recursive function needs to be what it says: with a start in A and a
\* step on A there is one.
LEMMA RecursionExists ==
  ASSUME NEW A, NEW base \in A, NEW n \in Nat, NEW step \in [A \X (1 .. n) -> A]
  PROVE  \E g : Recursion(g, A, base, n, step)
<1> DEFINE S == {m \in 0 .. n : \E g : Recursion(g, A, base, m, step)}
<1>1. 0 \in S
  <2> DEFINE g == [k \in 0 .. 0 |-> base]
  <2>1. Recursion(g, A, base, 0, step)
    BY DEF Recursion
  <2> HIDE DEF g
  <2>2. QED
    BY <2>1
<1>2. ASSUME NEW m \in 1 .. n, m - 1 \in S
      PROVE  m \in S
  <2>1. PICK g : Recursion(g, A, base, m - 1, step)
    BY <1>2
  <2> DEFINE h == [k \in 0 .. m |-> IF k = m THEN step[<<g[m - 1], m>>] ELSE g[k]]
  <2>2. step[<<g[m - 1], m>>] \in A
    <3>1. g[m - 1] \in A
      BY <2>1 DEF Recursion
    <3>2. QED
      BY <3>1
  <2>3. h \in [0 .. m -> A] /\ h[0] = base
    BY <2>1, <2>2 DEF Recursion
  <2>4. ASSUME NEW k \in 1 .. m PROVE h[k] = step[<<h[k - 1], k>>]
    <3>1. h[k - 1] = g[k - 1]
      OBVIOUS
    <3>2. CASE k = m
      <4>1. h[m] = step[<<g[m - 1], m>>] /\ h[m - 1] = g[m - 1]
        BY <3>1, <3>2
      <4>2. QED
        BY <3>2, <4>1
    <3>3. CASE k # m
      BY <3>1, <3>3, <2>1 DEF Recursion
    <3>4. QED
      BY <3>2, <3>3
  <2> HIDE DEF h
  <2>5. Recursion(h, A, base, m, step)
    BY <2>3, <2>4 DEF Recursion
  <2>6. QED
    BY <2>5
<1>3. n \in S
  <2> HIDE DEF S
  <2>1. \A k \in 0 .. n : k \in S
    BY <1>1, <1>2, UpTo
  <2>2. QED
    BY <2>1
<1>4. QED
  BY <1>3


\* A circuit cut into lines.
Lines == Seq(Seq(Statement))

\* The first brackets of a line are those of a statement of it.
LEMMA FirstBrackets ==
  ASSUME NEW line \in Seq(Statement), Bracketed(line) # {}
  PROVE  /\ Min(Bracketed(line)) \in Bracketed(line)
         /\ \A i \in Bracketed(line) : Min(Bracketed(line)) <= i
<1> DEFINE S == Bracketed(line)
<1>1. S \subseteq Nat
  BY DEF Bracketed
<1> HIDE DEF S
<1>2. \E m \in S : \A k \in S : m <= k
  BY <1>1, Least DEF S
<1>3. Min(S) \in S /\ \A k \in S : Min(S) <= k
  BY <1>2 DEF Min
<1>4. QED
  BY <1>3 DEF S

\* What a line declares is a number, 0 when it declares nothing.
LEMMA DeclaredSizeIsNat ==
  ASSUME NEW line \in Seq(Statement)
  PROVE  DeclaredSize(line) \in Nat
<1>1. CASE Declares(line)
  <2> DEFINE m == Min(Bracketed(line))
  <2>1. m \in DOMAIN line /\ line[m].refs # <<>>
    BY <1>1, FirstBrackets DEF Declares, Bracketed
  <2> HIDE DEF m
  <2>2. line[m] \in Statement
    BY <2>1
  <2>3. line[m].refs \in Seq(Names \X Nat)
    BY <2>2 DEF Statement
  <2>4. line[m].refs[1] \in Names \X Nat
    BY <2>1, <2>3
  <2>5. QED
    BY <1>1, <2>4 DEF DeclaredSize, m
<1>2. QED
  BY <1>1 DEF DeclaredSize

\* When the declaration a line starts with has its size, the line declares that.
LEMMA HeadDeclares ==
  ASSUME NEW line \in Seq(Statement), line # <<>>,
         line[1].kind = "qreg" => line[1].refs # <<>>
  PROVE  DeclaredSize(line) = IF line[1].kind = "qreg" THEN line[1].refs[1][2] ELSE 0
<1>1. CASE line[1].kind = "qreg"
  <2>1. 1 \in DOMAIN line
    OBVIOUS
  <2>2. 1 \in Bracketed(line)
    BY <1>1, <2>1 DEF Bracketed
  <2>3. Declares(line)
    BY <1>1, <2>2 DEF Declares, Starts
  <2>4. Min(Bracketed(line)) \in Bracketed(line) /\ Min(Bracketed(line)) <= 1
    BY <2>2, FirstBrackets
  <2>5. Min(Bracketed(line)) \in 1 .. Len(line)
    BY <2>4 DEF Bracketed
  <2>6. Min(Bracketed(line)) = 1
    BY <2>4, <2>5
  <2>7. QED
    BY <1>1, <2>3, <2>6 DEF DeclaredSize
<1>2. CASE line[1].kind # "qreg"
  BY <1>2 DEF DeclaredSize, Declares, Starts
<1>3. QED
  BY <1>1, <1>2

\* The running totals are numbers, each the one before plus the size declared.
LEMMA TotalsRecursion ==
  ASSUME NEW lines \in Lines
  PROVE  /\ qubit_totals(lines) \in [0 .. Len(lines) -> Nat]
         /\ qubit_totals(lines)[0] = 0
         /\ \A k \in 1 .. Len(lines) :
              qubit_totals(lines)[k] = qubit_totals(lines)[k - 1] + DeclaredSize(lines[k])
<1> DEFINE n == Len(lines)
           step == [x \in Nat \X (1 .. n) |-> x[1] + DeclaredSize(lines[x[2]])]
           body(t) == [k \in 0 .. n |-> IF k = 0 THEN 0 ELSE t[k - 1] + DeclaredSize(lines[k])]
           total == qubit_totals(lines)
<1>1. n \in Nat /\ 0 \in Nat /\ \A k \in 1 .. n : DeclaredSize(lines[k]) \in Nat
  BY DeclaredSizeIsNat DEF Lines
<1>2. step \in [Nat \X (1 .. n) -> Nat]
  BY <1>1
<1>3. PICK g : Recursion(g, Nat, 0, n, step)
  <2> HIDE DEF n, step
  <2>1. QED
    BY <1>1, <1>2, RecursionExists
<1>4. g = body(g)
  <2>1. ASSUME NEW k \in 1 .. n
        PROVE  step[<<g[k - 1], k>>] = g[k - 1] + DeclaredSize(lines[k])
    <3>1. g \in [0 .. n -> Nat]
      BY <1>3 DEF Recursion
    <3>2. k - 1 \in 0 .. n
      BY <1>1
    <3>3. g[k - 1] \in Nat
      BY <3>1, <3>2, Zenon
    <3>4. QED
      BY <3>3
  <2>2. \A k \in 0 .. n : k = 0 \/ k \in 1 .. n
    BY <1>1
  <2> HIDE DEF step, n
  <2>3. QED
    BY <1>3, <2>1, <2>2 DEF Recursion
<1>5. total = body(total)
  <2>1. total = CHOOSE t : t = body(t)
    BY DEF qubit_totals
  <2> HIDE DEF body, total
  <2>2. QED
    BY <1>4, <2>1, Zenon
<1> HIDE DEF total, n
<1>6. \A k \in 0 .. n : total[k] = IF k = 0 THEN 0 ELSE total[k - 1] + DeclaredSize(lines[k])
  BY <1>5
<1> DEFINE S == {k \in 0 .. n : total[k] \in Nat}
<1>7. \A k \in 0 .. n : k \in S
  <2>1. 0 \in S
    BY <1>1, <1>6
  <2>2. ASSUME NEW k \in 1 .. n, k - 1 \in S PROVE k \in S
    BY <1>1, <1>6, <2>2
  <2> HIDE DEF S
  <2>3. QED
    BY <1>1, <2>1, <2>2, UpTo
<1>8. total \in [0 .. n -> Nat]
  BY <1>5, <1>7
<1>9. QED
  BY <1>1, <1>6, <1>8 DEF total, n

\* The flag is set by a pair that does not begin with a skipped line.
LEMMA SkipRecursion ==
  ASSUME NEW lines \in Lines
  PROVE  /\ skip_next(lines)[0] = FALSE
         /\ \A k \in 1 .. Len(lines) :
              skip_next(lines)[k] =
                (k > 1 /\ ~ skip_next(lines)[k - 1] /\ Pair(lines[k - 1], lines[k]))
<1> DEFINE n == Len(lines)
           set(b, k) == k > 1 /\ ~ b /\ Pair(lines[k - 1], lines[k])
           step == [x \in BOOLEAN \X (1 .. n) |-> set(x[1], x[2])]
           body(t) == [k \in 0 .. n |-> k > 1 /\ ~ t[k - 1] /\ Pair(lines[k - 1], lines[k])]
           skip == skip_next(lines)
<1>1. n \in Nat /\ FALSE \in BOOLEAN
  BY DEF Lines
<1>2. step \in [BOOLEAN \X (1 .. n) -> BOOLEAN]
  OBVIOUS
<1>3. PICK g : Recursion(g, BOOLEAN, FALSE, n, step)
  <2> HIDE DEF n, step
  <2>1. QED
    BY <1>1, <1>2, RecursionExists
<1>4. g = body(g)
  <2>1. ASSUME NEW k \in 1 .. n PROVE step[<<g[k - 1], k>>] = set(g[k - 1], k)
    <3>1. g[k - 1] \in BOOLEAN
      BY <1>1, <1>3 DEF Recursion
    <3> HIDE DEF set
    <3>2. QED
      BY <3>1
  <2>2. \A k \in 0 .. n : k = 0 \/ k \in 1 .. n
    BY <1>1
  <2>3. ~ (0 > 1)
    OBVIOUS
  <2> HIDE DEF step, n
  <2>4. QED
    BY <1>3, <2>1, <2>2, <2>3 DEF Recursion
<1>5. skip = body(skip)
  <2>1. skip = CHOOSE t : t = body(t)
    BY DEF skip_next
  <2> HIDE DEF body, skip
  <2>2. QED
    BY <1>4, <2>1, Zenon
<1> HIDE DEF skip, n
<1>6. \A k \in 0 .. n : skip[k] = (k > 1 /\ ~ skip[k - 1] /\ Pair(lines[k - 1], lines[k]))
  BY <1>5
<1>7. 0 \in 0 .. n /\ ~ (0 > 1) /\ \A k \in 1 .. n : k \in 0 .. n
  BY <1>1
<1>8. QED
  BY <1>6, <1>7 DEF skip, n

\* The list read so far, longer by one register at each declaration.
LEMMA IndicesRecursion ==
  ASSUME NEW lines \in Lines
  PROVE  \E f : /\ f[0] = <<>> /\ f[Len(lines)] = qubit_indices(lines)
                /\ \A k \in 1 .. Len(lines) :
                     f[k] = f[k - 1] \o [i \in 1 .. DeclaredSize(lines[k]) |-> i - 1]
<1> DEFINE n == Len(lines)
           block(k) == [i \in 1 .. DeclaredSize(lines[k]) |-> i - 1]
           step == [x \in Seq(Nat) \X (1 .. n) |-> x[1] \o block(x[2])]
           body(t) == [k \in 0 .. n |-> IF k = 0 THEN <<>> ELSE t[k - 1] \o block(k)]
           f == CHOOSE t : t = body(t)
<1>1. n \in Nat /\ <<>> \in Seq(Nat)
  BY DEF Lines
<1>2. \A k \in 1 .. n : block(k) \in Seq(Nat)
  <2>1. ASSUME NEW k \in 1 .. n PROVE block(k) \in Seq(Nat)
    <3>1. DeclaredSize(lines[k]) \in Nat
      BY DeclaredSizeIsNat DEF Lines
    <3>2. QED
      BY <3>1
  <2>2. QED
    BY <2>1
<1>3. step \in [Seq(Nat) \X (1 .. n) -> Seq(Nat)]
  <2> HIDE DEF block, n
  <2>1. QED
    BY <1>2
<1>4. PICK g : Recursion(g, Seq(Nat), <<>>, n, step)
  <2> HIDE DEF n, step
  <2>1. QED
    BY <1>1, <1>3, RecursionExists
<1>5. g = body(g)
  <2>1. \A k \in 1 .. n : g[k - 1] \in Seq(Nat)
    BY <1>1, <1>4 DEF Recursion
  <2> HIDE DEF block
  <2>2. \A k \in 1 .. n : step[<<g[k - 1], k>>] = g[k - 1] \o block(k)
    BY <2>1
  <2>3. \A k \in 0 .. n : k = 0 \/ k \in 1 .. n
    BY <1>1
  <2> HIDE DEF step, n
  <2>4. QED
    BY <1>4, <2>2, <2>3 DEF Recursion
<1>6. f = body(f)
  <2> HIDE DEF body
  <2>1. QED
    BY <1>5, Zenon
<1>7. f[n] = qubit_indices(lines)
  BY DEF qubit_indices
<1> HIDE DEF f
<1>8. \A k \in 0 .. n : f[k] = IF k = 0 THEN <<>> ELSE f[k - 1] \o block(k)
  <2> HIDE DEF block, n
  <2>1. QED
    BY <1>6
<1>9. f[0] = <<>> /\ \A k \in 1 .. n : f[k] = f[k - 1] \o block(k)
  <2>1. 0 \in 0 .. n /\ \A k \in 1 .. n : k \in 0 .. n /\ k # 0
    BY <1>1
  <2> HIDE DEF block, n
  <2>2. QED
    BY <1>8, <2>1
<1>10. QED
  BY <1>7, <1>9

-----------------------------------------------------------------------------
\* Equal lines of text start alike.
LEMMA PairsAreGates ==
  ASSUME NEW l1 \in Seq(Statement), NEW l2 \in Seq(Statement), Pair(l1, l2)
  PROVE  StartsWithGate(l1, SELF_INVERSE) /\ StartsWithGate(l2, SELF_INVERSE)
<1>1. l1 # <<>> /\ Text(l1) = Text(l2) /\ StartsWithGate(l1, SELF_INVERSE)
  BY DEF Pair
<1>2. DOMAIN l1 = DOMAIN l2 /\ 1 \in DOMAIN l1 /\ l2 # <<>>
  <2>1. DOMAIN Text(l1) = DOMAIN l1 /\ DOMAIN Text(l2) = DOMAIN l2
    BY DEF Text
  <2>2. DOMAIN l1 = DOMAIN l2
    BY <1>1, <2>1
  <2>3. 1 \in DOMAIN l1
    BY <1>1
  <2>4. QED
    BY <2>2, <2>3
<1>3. l1[1] \in Statement /\ l2[1] \in Statement
  BY <1>2
<1>4. /\ Text(l1)[1].kind = l1[1].kind /\ Text(l2)[1].kind = l2[1].kind
      /\ Text(l1)[1].gate = l1[1].gate /\ Text(l2)[1].gate = l2[1].gate
  BY <1>2, <1>3 DEF Text, Statement
<1>5. QED
  BY <1>1, <1>2, <1>4 DEF StartsWithGate, IsGate

\* The optimiser leaves a line alone or drops it, and drops gates only.
LEMMA LinesLeft ==
  ASSUME NEW lines \in Lines, NEW strategy
  PROVE  /\ optimised_qasm(lines, strategy) \in Lines
         /\ Len(optimised_qasm(lines, strategy)) = Len(lines)
         /\ \A k \in 1 .. Len(lines) :
              \/ optimised_qasm(lines, strategy)[k] = lines[k]
              \/ /\ optimised_qasm(lines, strategy)[k] = <<>>
                 /\ StartsWithGate(lines[k], SELF_INVERSE)
<1> DEFINE left == optimised_qasm(lines, strategy)
           n == Len(lines)
<1>1. n \in Nat /\ DOMAIN lines = 1 .. n /\ \A k \in 1 .. n : lines[k] \in Seq(Statement)
  BY DEF Lines
<1> DEFINE skip == skip_next(lines)
<1>2. \A j \in 1 .. n : skip[j] => j > 1 /\ Pair(lines[j - 1], lines[j])
  BY SkipRecursion
<1> HIDE DEF skip
<1>3. CASE Level(strategy) >= 2
  <2>1. left = [k \in 1 .. n |-> IF Dropped(lines, k) THEN <<>> ELSE lines[k]]
    BY <1>1, <1>3 DEF optimised_qasm
  <2>2. ASSUME NEW k \in 1 .. n, Dropped(lines, k)
        PROVE  StartsWithGate(lines[k], SELF_INVERSE)
    <3>1. CASE skip[k]
      <4>1. k > 1 /\ Pair(lines[k - 1], lines[k])
        BY <1>2, <3>1
      <4>2. k - 1 \in 1 .. n
        BY <1>1, <4>1
      <4>3. QED
        BY <1>1, <4>1, <4>2, PairsAreGates
    <3>2. CASE k < n /\ skip[k + 1]
      <4>1. k + 1 \in 1 .. n /\ (k + 1) - 1 = k
        BY <1>1, <3>2
      <4>2. Pair(lines[k], lines[k + 1])
        BY <1>2, <3>2, <4>1
      <4>3. QED
        BY <1>1, <4>1, <4>2, PairsAreGates
    <3>3. QED
      BY <2>2, <3>1, <3>2 DEF Dropped, skip
  <2>3. left \in Lines /\ Len(left) = n
    <3> DEFINE T == Seq(Statement)
    <3>1. \A k \in 1 .. n : (IF Dropped(lines, k) THEN <<>> ELSE lines[k]) \in T
      BY <1>1
    <3> HIDE DEF n, T, left
    <3>2. left \in Seq(T) /\ Len(left) = n
      BY <1>1, <2>1, <3>1
    <3>3. QED
      BY <3>2 DEF Lines, T
  <2>4. QED
    BY <2>1, <2>2, <2>3
<1>4. CASE ~ (Level(strategy) >= 2)
  BY <1>4 DEF optimised_qasm
<1>5. QED
  BY <1>3, <1>4

\* So every declaration stays, with its size.
LEMMA SizesLeft ==
  ASSUME NEW lines \in Lines, NEW strategy, NEW k \in 1 .. Len(lines)
  PROVE  /\ Declares(optimised_qasm(lines, strategy)[k]) = Declares(lines[k])
         /\ DeclaredSize(optimised_qasm(lines, strategy)[k]) = DeclaredSize(lines[k])
<1>1. Declares(optimised_qasm(lines, strategy)[k]) = Declares(lines[k])
  <2>1. CASE optimised_qasm(lines, strategy)[k] = lines[k]
    BY <2>1
  <2>2. CASE optimised_qasm(lines, strategy)[k] = <<>> /\ StartsWithGate(lines[k], SELF_INVERSE)
    <3>1. Declares(optimised_qasm(lines, strategy)[k]) = FALSE
      BY <2>2 DEF Declares, Starts
    <3>2. Declares(lines[k]) = FALSE
      BY <2>2 DEF Declares, Starts, StartsWithGate, IsGate
    <3>3. QED
      BY <3>1, <3>2
  <2>3. QED
    BY <2>1, <2>2, LinesLeft
<1>2. CASE Declares(lines[k])
  <2>1. optimised_qasm(lines, strategy)[k] = lines[k]
    <3>1. ~ StartsWithGate(lines[k], SELF_INVERSE)
      BY <1>2 DEF Declares, Starts, StartsWithGate, IsGate
    <3>2. QED
      BY <3>1, LinesLeft
  <2>2. QED
    BY <2>1
<1>3. CASE ~ Declares(lines[k])
  BY <1>1, <1>3 DEF DeclaredSize
<1>4. QED
  BY <1>1, <1>2, <1>3

\* With one declaration the indices are those of one register.
LEMMA IndicesOfOne ==
  ASSUME NEW lines \in Lines, NEW d, Declarations(lines) = {d}
  PROVE  qubit_indices(lines) = [i \in 1 .. DeclaredSize(lines[d]) |-> i - 1]
<1> DEFINE n == Len(lines)
           size == DeclaredSize(lines[d])
           block == [i \in 1 .. size |-> i - 1]
<1>1. n \in Nat /\ d \in 1 .. n /\ \A k \in 1 .. n : Declares(lines[k]) <=> k = d
  BY DEF Declarations, Lines
<1>2. size \in Nat
  BY <1>1, DeclaredSizeIsNat DEF Lines
<1>3. PICK f : /\ f[0] = <<>> /\ f[n] = qubit_indices(lines)
               /\ \A k \in 1 .. n : f[k] = f[k - 1] \o [i \in 1 .. DeclaredSize(lines[k]) |-> i - 1]
  BY IndicesRecursion
<1> DEFINE S == {k \in 0 .. n : f[k] = IF k < d THEN <<>> ELSE block}
<1>4. 0 \in S
  BY <1>1, <1>3
<1>5. ASSUME NEW k \in 1 .. n, k - 1 \in S
      PROVE  k \in S
  <2>1. f[k - 1] = IF k - 1 < d THEN <<>> ELSE block
    BY <1>5
  <2>2. CASE k = d
    <3>1. f[k - 1] = <<>> /\ f[k] = f[k - 1] \o block
      <4> HIDE DEF S
      <4>1. k - 1 < d
        BY <1>1, <2>2
      <4>2. f[k] = f[k - 1] \o block
        BY <1>3, <2>2
      <4>3. QED
        BY <2>1, <4>1, <4>2
    <3>2. block \in Seq(Nat)
      BY <1>2
    <3>3. <<>> \o block = block
      <4> HIDE DEF block
      <4>1. QED
        BY <3>2, ConcatEmptySeq
    <3>4. QED
      BY <1>1, <2>2, <3>1, <3>3
  <2>3. CASE k # d
    <3>1. DeclaredSize(lines[k]) = 0
      BY <1>1, <2>3 DEF DeclaredSize
    <3>2. f[k] = f[k - 1] \o [i \in 1 .. 0 |-> i - 1]
      BY <1>3, <3>1
    <3>3. [i \in 1 .. 0 |-> i - 1] = <<>>
      OBVIOUS
    <3>4. f[k - 1] \in Seq(Nat)
      <4>1. block \in Seq(Nat) /\ <<>> \in Seq(Nat)
        BY <1>2
      <4> HIDE DEF block
      <4>2. QED
        BY <2>1, <4>1
    <3>5. f[k] = f[k - 1]
      BY <3>2, <3>3, <3>4, ConcatEmptySeq
    <3>6. k < d <=> k - 1 < d
      BY <1>1, <2>3
    <3>7. QED
      BY <2>1, <3>5, <3>6
  <2>4. QED
    BY <2>2, <2>3
<1>6. n \in S
  <2> HIDE DEF S, n
  <2>1. \A k \in 0 .. n : k \in S
    BY <1>1, <1>4, <1>5, UpTo
  <2>2. QED
    BY <1>1, <2>1
<1>7. QED
  BY <1>1, <1>3, <1>6

\* The numbers below v+1, the largest first, are v and then those below v.
LEMMA LargestFirst ==
  ASSUME NEW v \in Nat
  PROVE  [i \in 1 .. 1 |-> v] \o [i \in 1 .. v |-> v - i] = [i \in 1 .. v + 1 |-> v + 1 - i]
<1> DEFINE s1 == [i \in 1 .. 1 |-> v]
           s2 == [i \in 1 .. v |-> v - i]
           s3 == [i \in 1 .. v + 1 |-> v + 1 - i]
           T == Int
<1>1. s1 \in Seq(T) /\ s2 \in Seq(T) /\ s3 \in Seq(T)
  OBVIOUS
<1>2. Len(s1) = 1 /\ Len(s2) = v /\ Len(s3) = v + 1
  OBVIOUS
<1>3. s1[1] = v /\ (\A i \in 1 .. v : s2[i] = v - i) /\ (\A i \in 1 .. v + 1 : s3[i] = v + 1 - i)
  OBVIOUS
<1> HIDE DEF s1, s2, s3, T
<1>4. /\ s1 \o s2 \in Seq(T)
      /\ Len(s1 \o s2) = Len(s1) + Len(s2)
      /\ \A i \in 1 .. Len(s1) + Len(s2) :
           (s1 \o s2)[i] = IF i <= Len(s1) THEN s1[i] ELSE s2[i - Len(s1)]
  BY <1>1, ConcatProperties
<1>5. ASSUME NEW i \in 1 .. v + 1 PROVE (s1 \o s2)[i] = s3[i]
  BY <1>2, <1>3, <1>4
<1>6. s1 \o s2 = s3
  <2> DEFINE s12 == s1 \o s2
  <2>1. s12 \in Seq(T) /\ Len(s12) = Len(s3) /\ Len(s12) = v + 1
    BY <1>2, <1>4
  <2>2. \A i \in 1 .. Len(s12) : s12[i] = s3[i]
    BY <1>5, <2>1
  <2> HIDE DEF s12
  <2>3. s12 = s3
    BY <1>1, <2>1, <2>2, SeqEqual
  <2>4. QED
    BY <2>3 DEF s12
<1>7. QED
  BY <1>6 DEF s1, s2, s3

\* Sorting the numbers below n with the largest first turns them round.
LEMMA DescendingTurns ==
  ASSUME NEW n \in Nat
  PROVE  Descending([i \in 1 .. n |-> i - 1]) = [i \in 1 .. n |-> n - i]
<1> DEFINE s == [i \in 1 .. n |-> i - 1]
           top == Max(ToSet(s))
           copies(v) == [i \in 1 .. Cardinality({k \in DOMAIN s : s[k] = v}) |-> v]
           body(t) == [v \in 0 .. top |-> IF v = 0 THEN copies(0) ELSE copies(v) \o t[v - 1]]
           f == CHOOSE t : t = body(t)
           turned(v) == [i \in 1 .. v + 1 |-> v + 1 - i]
           g == [v \in 0 .. top |-> turned(v)]
<1>1. CASE n = 0
  <2>1. s = <<>> /\ [i \in 1 .. n |-> n - i] = <<>>
    BY <1>1
  <2>2. QED
    BY <2>1 DEF Descending
<1>2. CASE n > 0
  <2>1. s # <<>> /\ DOMAIN s = 1 .. n /\ \A k \in 1 .. n : s[k] = k - 1
    BY <1>2
  <2>2. top = n - 1
    <3>1. ToSet(s) = 0 .. n - 1
      <4>1. ASSUME NEW x \in 0 .. n - 1 PROVE x \in ToSet(s)
        <5>1. x + 1 \in DOMAIN s /\ s[x + 1] = x
          BY <2>1
        <5> HIDE DEF s
        <5>2. QED
          BY <5>1 DEF ToSet
      <4>2. ASSUME NEW x \in ToSet(s) PROVE x \in 0 .. n - 1
        BY <2>1 DEF ToSet
      <4> HIDE DEF s
      <4>3. QED
        BY <4>1, <4>2
    <3>2. Max(0 .. n - 1) = n - 1
      BY <1>2 DEF Max
    <3>3. QED
      BY <3>1, <3>2
  <2>3. \A v \in 0 .. n - 1 : copies(v) = [i \in 1 .. 1 |-> v]
    <3>1. ASSUME NEW v \in 0 .. n - 1 PROVE copies(v) = [i \in 1 .. 1 |-> v]
      <4>1. {k \in DOMAIN s : s[k] = v} = {v + 1}
        BY <2>1
      <4>2. Cardinality({v + 1}) = 1
        BY FS_Singleton
      <4>3. QED
        BY <4>1, <4>2
    <3>2. QED
      BY <3>1
  <2> HIDE DEF copies, s, top
  <2>4. \A v \in 1 .. top : copies(v) \o turned(v - 1) = turned(v)
    <3>1. ASSUME NEW v \in 1 .. top PROVE copies(v) \o turned(v - 1) = turned(v)
      <4>1. v \in Nat /\ v \in 0 .. n - 1 /\ v - 1 + 1 = v
        BY <2>2
      <4>2. copies(v) = [i \in 1 .. 1 |-> v] /\ turned(v - 1) = [i \in 1 .. v |-> v - i]
        BY <2>3, <4>1
      <4>3. QED
        BY <4>1, <4>2, LargestFirst
    <3>2. QED
      BY <3>1
  <2>5. copies(0) = turned(0)
    <3>1. copies(0) = [i \in 1 .. 1 |-> 0]
      BY <1>2, <2>3
    <3>2. QED
      BY <3>1
  <2> HIDE DEF turned
  <2>6. top \in Nat
    BY <1>2, <2>2
  <2>7. g = body(g)
    <3>1. ASSUME NEW v \in 0 .. top
          PROVE  turned(v) = IF v = 0 THEN copies(0) ELSE copies(v) \o g[v - 1]
      <4>1. CASE v = 0
        BY <2>5, <4>1
      <4>2. CASE v # 0
        <5>1. v \in 1 .. top /\ v - 1 \in 0 .. top
          BY <2>6, <4>2
        <5>2. g[v - 1] = turned(v - 1)
          BY <5>1
        <5> HIDE DEF g
        <5>3. QED
          BY <2>4, <4>2, <5>1, <5>2
      <4>3. QED
        BY <4>1, <4>2
    <3> DEFINE h == g
    <3> HIDE DEF h
    <3>2. body(h) = [v \in 0 .. top |-> turned(v)]
      BY <3>1 DEF h
    <3>3. QED
      BY <3>2 DEF h
  <2>8. f = body(f)
    <3> HIDE DEF body, g
    <3>1. QED
      BY <2>7, Zenon
  <2> HIDE DEF f
  <2>9. \A v \in 0 .. top : f[v] = IF v = 0 THEN copies(0) ELSE copies(v) \o f[v - 1]
    BY <2>8
  <2> DEFINE S == {v \in 0 .. top : f[v] = turned(v)}
  <2>10. top \in S
    <3>1. 0 \in S
      BY <2>5, <2>6, <2>9
    <3>2. ASSUME NEW v \in 1 .. top, v - 1 \in S PROVE v \in S
      <4>1. v \in 0 .. top /\ v # 0
        BY <2>6
      <4>2. f[v] = copies(v) \o f[v - 1]
        BY <2>9, <4>1
      <4>3. f[v - 1] = turned(v - 1)
        BY <3>2
      <4>4. f[v] = turned(v)
        BY <2>4, <4>2, <4>3
      <4>5. QED
        BY <4>1, <4>4
    <3> HIDE DEF S
    <3>3. \A v \in 0 .. top : v \in S
      BY <2>6, <3>1, <3>2, UpTo
    <3>4. QED
      BY <2>6, <3>3
  <2>11. Descending(s) = f[top]
    BY <2>1 DEF Descending, f, copies, top
  <2>12. turned(top) = [i \in 1 .. n |-> n - i]
    BY <2>2 DEF turned
  <2>13. QED
    BY <2>10, <2>11, <2>12 DEF s
<1>3. QED
  BY <1>1, <1>2

\* Without repetition among its keys a zipped dictionary pairs by position.
LEMMA ZipOfIndices ==
  ASSUME NEW n \in Nat, NEW values
  PROVE  DictZip([i \in 1 .. n |-> i - 1], values) = [q \in 0 .. n - 1 |-> values[q + 1]]
<1> DEFINE keys == [i \in 1 .. n |-> i - 1]
<1>1. DOMAIN keys = 1 .. n /\ Len(keys) = n /\ \A k \in 1 .. n : keys[k] = k - 1
  OBVIOUS
<1>2. ToSet(keys) = 0 .. n - 1
  <2>1. ASSUME NEW x \in 0 .. n - 1 PROVE x \in ToSet(keys)
    <3>1. x + 1 \in DOMAIN keys /\ keys[x + 1] = x
      BY <1>1
    <3> HIDE DEF keys
    <3>2. QED
      BY <3>1 DEF ToSet
  <2>2. ASSUME NEW x \in ToSet(keys) PROVE x \in 0 .. n - 1
    BY <1>1 DEF ToSet
  <2> HIDE DEF keys
  <2>3. QED
    BY <2>1, <2>2
<1> HIDE DEF keys
<1>3. ASSUME NEW q \in 0 .. n - 1
      PROVE  SelectLastInSeq(keys, LAMBDA x : x = q) = q + 1
  <2>1. {i \in 1 .. Len(keys) : keys[i] = q} = {q + 1}
    BY <1>1
  <2>2. Max({q + 1}) = q + 1
    BY DEF Max
  <2>3. QED
    BY <2>1, <2>2 DEF SelectLastInSeq
<1>4. DictZip(keys, values) =
        [k \in ToSet(keys) |-> values[SelectLastInSeq(keys, LAMBDA x : x = k)]]
  BY DEF DictZip
<1>5. DictZip(keys, values) = [q \in 0 .. n - 1 |-> values[q + 1]]
  BY <1>2, <1>3, <1>4
<1>6. QED
  BY <1>5 DEF keys

\* One register of n qubits: the mapping is the identity or turns it round.
LEMMA MappingOfOne ==
  ASSUME NEW n \in Nat, NEW lines, NEW noise_aware \in BOOLEAN,
         qubit_indices(lines) = [i \in 1 .. n |-> i - 1]
  PROVE  LET mapping == build_qubit_mapping(lines, noise_aware)
         IN /\ DOMAIN mapping = 0 .. n - 1
            /\ \/ \A q \in 0 .. n - 1 : mapping[q] = q
               \/ \A q \in 0 .. n - 1 : mapping[q] = n - 1 - q
<1> DEFINE logical == [i \in 1 .. n |-> i - 1]
           mapping == build_qubit_mapping(lines, noise_aware)
<1>1. CASE noise_aware
  <2>1. mapping = DictZip(logical, Descending(logical))
    BY <1>1 DEF build_qubit_mapping
  <2>2. mapping = DictZip(logical, [i \in 1 .. n |-> n - i])
    BY <2>1, DescendingTurns
  <2> HIDE DEF mapping
  <2>3. mapping = [q \in 0 .. n - 1 |-> [i \in 1 .. n |-> n - i][q + 1]]
    BY <2>2, ZipOfIndices
  <2>4. QED
    BY <2>3 DEF mapping
<1>2. CASE ~ noise_aware
  <2>1. mapping = DictZip(logical, logical)
    BY <1>2 DEF build_qubit_mapping
  <2> HIDE DEF mapping
  <2>2. mapping = [q \in 0 .. n - 1 |-> [i \in 1 .. n |-> i - 1][q + 1]]
    BY <2>1, ZipOfIndices
  <2>3. QED
    BY <2>2 DEF mapping
<1>3. QED
  BY <1>1, <1>2

\* The registers that can be read are those of the circuit, optimised or not.
LEMMA MappingPermutes ==
  ASSUME NEW lines \in Lines, NEW strategy, NEW noise_aware \in BOOLEAN,
         NEW d, Declarations(lines) = {d}
  PROVE  LET mapping == optimise_circuit(lines, strategy, noise_aware).qubit_mapping
             qubits == 0 .. DeclaredSize(lines[d]) - 1
         IN DOMAIN mapping = qubits /\ { mapping[q] : q \in qubits } = qubits
<1> DEFINE left == optimised_qasm(lines, strategy)
           n == DeclaredSize(lines[d])
           mapping == optimise_circuit(lines, strategy, noise_aware).qubit_mapping
           qubits == 0 .. n - 1
<1>1. d \in 1 .. Len(lines)
  BY DEF Declarations, Lines
<1>2. n \in Nat
  BY <1>1, DeclaredSizeIsNat DEF Lines
<1>3. left \in Lines /\ Len(left) = Len(lines)
  BY LinesLeft
<1>4. Declarations(left) = {d} /\ DeclaredSize(left[d]) = n
  <2>1. DOMAIN left = 1 .. Len(lines) /\ DOMAIN lines = 1 .. Len(lines)
    BY <1>3 DEF Lines
  <2>2. \A k \in 1 .. Len(lines) : Declares(left[k]) = Declares(lines[k])
    BY SizesLeft
  <2>3. Declarations(left) = Declarations(lines)
    BY <2>1, <2>2 DEF Declarations
  <2>4. QED
    BY <1>1, <2>3, SizesLeft
<1>5. qubit_indices(left) = [i \in 1 .. n |-> i - 1]
  BY <1>3, <1>4, IndicesOfOne
<1>6. PICK aware \in BOOLEAN : mapping = build_qubit_mapping(left, aware)
  BY DEF optimise_circuit
<1> HIDE DEF mapping, n, left
<1>7. /\ DOMAIN mapping = 0 .. n - 1
      /\ \/ \A q \in 0 .. n - 1 : mapping[q] = q
         \/ \A q \in 0 .. n - 1 : mapping[q] = n - 1 - q
  BY <1>2, <1>5, <1>6, MappingOfOne
<1>8. ASSUME NEW q \in qubits
      PROVE  mapping[q] \in qubits /\ \E k \in qubits : mapping[k] = q
  <2>1. CASE \A k \in 0 .. n - 1 : mapping[k] = k
    BY <2>1
  <2>2. CASE \A k \in 0 .. n - 1 : mapping[k] = n - 1 - k
    <3>1. n - 1 - q \in qubits /\ n - 1 - (n - 1 - q) = q
      BY <1>2
    <3>2. QED
      BY <2>2, <3>1
  <2>3. QED
    BY <1>7, <2>1, <2>2
<1> HIDE DEF qubits
<1>9. { mapping[q] : q \in qubits } = qubits
  BY <1>8
<1>10. QED
  BY <1>7, <1>9 DEF mapping, n, qubits

-----------------------------------------------------------------------------
\* What a line leaves of what was done before: its gate is undone or added.
Bare(line) == [line[1] EXCEPT !.line = 0, !.semi = TRUE]

DoneAfter(done, line) ==
  IF line = <<>> THEN done
  ELSE IF Cancels(done, Bare(line)) THEN Front(done) ELSE Append(done, Bare(line))

\* No gate is followed by the one that undoes it.
Settled(done) ==
  \A i \in 1 .. Len(done) - 1 :
    ~ (done[i] = done[i + 1] /\ IsGate(done[i], SELF_INVERSE))

\* All but the last of a sequence.
LEMMA FrontFacts ==
  ASSUME NEW T, NEW a \in Seq(T), a # <<>>
  PROVE  /\ Front(a) \in Seq(T) /\ Len(Front(a)) = Len(a) - 1
         /\ \A i \in 1 .. Len(a) - 1 : Front(a)[i] = a[i]
<1> DEFINE m == Len(a) - 1
<1>1. m \in Nat /\ \A i \in 1 .. m : a[i] \in T
  OBVIOUS
<1>2. Front(a) = SubSeq(a, 1, m)
  BY DEF Front
<1>3. 1 \in Int /\ m \in Int
  BY <1>1
<1> HIDE DEF m
<1>4. /\ SubSeq(a, 1, m) \in Seq(T)
      /\ Len(SubSeq(a, 1, m)) = IF 1 <= m THEN m - 1 + 1 ELSE 0
      /\ \A i \in 1 .. m - 1 + 1 : SubSeq(a, 1, m)[i] = a[1 + i - 1]
  BY <1>1, <1>3, SubSeqProperties
<1>5. m - 1 + 1 = m /\ \A i \in 1 .. m : 1 + i - 1 = i
  BY <1>1
<1>6. QED
  BY <1>1, <1>2, <1>4, <1>5 DEF m

\* A statement without its line and with its semicolon is a statement.
LEMMA BareIsStatement ==
  ASSUME NEW line \in Seq(Statement), line # <<>>
  PROVE  Bare(line) \in Statement
<1>1. line[1] \in Statement
  OBVIOUS
<1>2. 0 \in Nat /\ TRUE \in BOOLEAN
  OBVIOUS
<1>3. QED
  BY <1>1, <1>2 DEF Bare, Statement

\* Undoing or adding a gate leaves no gate before the one that undoes it.
LEMMA DoneIsSettled ==
  ASSUME NEW done \in Seq(Statement), NEW line \in Seq(Statement)
  PROVE  /\ DoneAfter(done, line) \in Seq(Statement)
         /\ Settled(done) => Settled(DoneAfter(done, line))
<1>1. CASE line = <<>>
  BY <1>1 DEF DoneAfter
<1>2. CASE line # <<>> /\ Cancels(done, Bare(line))
  <2>1. done # <<>> /\ DoneAfter(done, line) = Front(done)
    BY <1>2 DEF DoneAfter, Cancels
  <2>2. /\ Front(done) \in Seq(Statement) /\ Len(Front(done)) = Len(done) - 1
        /\ \A i \in 1 .. Len(done) - 1 : Front(done)[i] = done[i]
    BY <2>1, FrontFacts
  <2>3. Settled(done) => Settled(Front(done))
    <3>1. \A i \in 1 .. Len(done) - 1 - 1 :
            i \in 1 .. Len(done) - 1 /\ i + 1 \in 1 .. Len(done) - 1
      BY <2>1
    <3>2. QED
      BY <2>2, <3>1 DEF Settled
  <2>4. QED
    BY <2>1, <2>2, <2>3
<1>3. CASE line # <<>> /\ ~ Cancels(done, Bare(line))
  <2> DEFINE s == Bare(line)
             m == Len(done)
             longer == Append(done, s)
  <2>1. DoneAfter(done, line) = longer
    BY <1>3 DEF DoneAfter
  <2>2. s \in Statement
    BY <1>3, BareIsStatement
  <2> HIDE DEF s
  <2>3. /\ longer \in Seq(Statement) /\ Len(longer) = m + 1 /\ longer[m + 1] = s
        /\ m \in Nat /\ \A i \in 1 .. m : longer[i] = done[i]
    BY <2>2
  <2>4. ASSUME Settled(done) PROVE Settled(longer)
    <3>1. SUFFICES ASSUME NEW i \in 1 .. m, longer[i] = longer[i + 1],
                          IsGate(longer[i], SELF_INVERSE)
                   PROVE  FALSE
      BY <2>3 DEF Settled
    <3>2. CASE i = m
      <4>1. done # <<>> /\ Last(done) = s /\ IsGate(s, SELF_INVERSE)
        BY <2>3, <3>1, <3>2 DEF Last
      <4>2. QED
        BY <1>3, <4>1 DEF Cancels, s
    <3>3. CASE i # m
      <4>1. i \in 1 .. m - 1 /\ i + 1 \in 1 .. m
        BY <2>3, <3>3
      <4>2. QED
        BY <2>3, <2>4, <3>1, <4>1 DEF Settled
    <3>4. QED
      BY <3>2, <3>3
  <2>5. QED
    BY <2>1, <2>3, <2>4
<1>4. QED
  BY <1>1, <1>2, <1>3

\* A pair of lines leaves things as they were.
LEMMA PairCancels ==
  ASSUME NEW done \in Seq(Statement), Settled(done),
         NEW l1 \in Seq(Statement), NEW l2 \in Seq(Statement),
         Len(l1) = 1, Len(l2) = 1, Pair(l1, l2)
  PROVE  DoneAfter(DoneAfter(done, l1), l2) = done
<1> DEFINE s == Bare(l1)
           m == Len(done)
<1>1. l1 # <<>> /\ l2 # <<>> /\ l1[1] \in Statement /\ l2[1] \in Statement
  OBVIOUS
<1>2. Bare(l2) = s
  <2>1. \A l \in {l1, l2} : Text(l)[1] = Bare(l)
    <3>1. ASSUME NEW l \in {l1, l2} PROVE Text(l)[1] = Bare(l)
      <4>1. 1 \in DOMAIN l /\ (l[1].semi \/ 1 = Len(l)) = TRUE
        OBVIOUS
      <4>2. Text(l)[1] = [l[1] EXCEPT !.line = 0, !.semi = l[1].semi \/ 1 = Len(l)]
        BY <1>1, <4>1 DEF Text, Statement
      <4>3. QED
        BY <4>1, <4>2 DEF Bare
    <3>2. QED
      BY <3>1
  <2>2. QED
    BY <2>1 DEF Pair
<1>3. s \in Statement /\ IsGate(s, SELF_INVERSE)
  <2>1. IsGate(l1[1], SELF_INVERSE)
    BY PairsAreGates DEF StartsWithGate
  <2>2. QED
    BY <1>1, <2>1, BareIsStatement DEF Bare, Statement, IsGate
<1>4. \A a : DoneAfter(a, l1) = (IF Cancels(a, s) THEN Front(a) ELSE Append(a, s))
             /\ DoneAfter(a, l2) = (IF Cancels(a, s) THEN Front(a) ELSE Append(a, s))
  BY <1>1, <1>2 DEF DoneAfter
<1> HIDE DEF s
<1>5. \A a : Cancels(a, s) <=> a # <<>> /\ Last(a) = s
  BY <1>3 DEF Cancels
<1>6. m \in Nat
  OBVIOUS
<1>7. CASE Cancels(done, s)
  <2> DEFINE shorter == Front(done)
             again == Append(shorter, s)
  <2>1. done # <<>> /\ done[m] = s /\ m > 0
    BY <1>5, <1>7 DEF Last
  <2>2. shorter \in Seq(Statement) /\ Len(shorter) = m - 1 /\ \A i \in 1 .. m - 1 : shorter[i] = done[i]
    BY <2>1, FrontFacts
  <2> HIDE DEF shorter
  <2>3. ~ Cancels(shorter, s)
    <3>1. SUFFICES ASSUME shorter # <<>>, Last(shorter) = s PROVE FALSE
      BY <1>5
    <3>2. m - 1 \in 1 .. m - 1 /\ m - 1 + 1 = m
      BY <1>6, <2>2, <3>1
    <3>3. done[m - 1] = s
      BY <2>2, <3>1, <3>2 DEF Last
    <3>4. QED
      BY <1>3, <2>1, <3>2, <3>3 DEF Settled
  <2>4. again = done
    <3>1. again \in Seq(Statement) /\ Len(again) = m /\ again[m] = s
          /\ \A i \in 1 .. m - 1 : again[i] = shorter[i]
      BY <1>3, <1>6, <2>1, <2>2
    <3>2. \A i \in 1 .. m : again[i] = done[i]
      BY <1>6, <2>1, <2>2, <3>1
    <3> HIDE DEF again
    <3>3. QED
      BY <3>1, <3>2, SeqEqual
  <2>5. QED
    BY <1>4, <1>7, <2>3, <2>4 DEF shorter
<1>8. CASE ~ Cancels(done, s)
  <2> DEFINE longer == Append(done, s)
             again == Front(longer)
  <2>1. /\ longer \in Seq(Statement) /\ Len(longer) = m + 1 /\ longer[m + 1] = s
        /\ longer # <<>> /\ \A i \in 1 .. m : longer[i] = done[i]
    <3>1. s \in Statement /\ done \in Seq(Statement)
      BY <1>3
    <3>2. longer \in Seq(Statement)
      BY <3>1
    <3>3. Len(longer) = m + 1 /\ longer[m + 1] = s /\ \A i \in 1 .. m : longer[i] = done[i]
      BY <1>6, <3>1
    <3> HIDE DEF longer
    <3>4. longer # <<>>
      BY <1>6, <3>3
    <3>5. QED
      BY <3>2, <3>3, <3>4
  <2> HIDE DEF longer
  <2>2. Cancels(longer, s)
    BY <1>5, <2>1 DEF Last
  <2>3. again = done
    <3>1. /\ again \in Seq(Statement) /\ Len(again) = m
          /\ \A i \in 1 .. m : again[i] = longer[i]
      <4>1. /\ Front(longer) \in Seq(Statement) /\ Len(Front(longer)) = Len(longer) - 1
            /\ \A i \in 1 .. Len(longer) - 1 : Front(longer)[i] = longer[i]
        BY <2>1, FrontFacts
      <4>2. Len(longer) - 1 = m
        BY <1>6, <2>1
      <4>3. QED
        BY <4>1, <4>2
    <3> HIDE DEF again
    <3>2. QED
      BY <2>1, <3>1, SeqEqual
  <2>4. QED
    BY <1>4, <1>8, <2>2, <2>3 DEF longer
<1>9. QED
  BY <1>7, <1>8

\* What the reference has done after each line.
LEMMA SimplifiedRecursion ==
  ASSUME NEW lines \in Lines
  PROVE  \E f : /\ f[0] = <<>> /\ f[Len(lines)] = Simplified(lines)
                /\ \A k \in 0 .. Len(lines) : f[k] \in Seq(Statement) /\ Settled(f[k])
                /\ \A k \in 1 .. Len(lines) : f[k] = DoneAfter(f[k - 1], lines[k])
<1> DEFINE n == Len(lines)
           T == Seq(Statement)
           step == [x \in T \X (1 .. n) |-> DoneAfter(x[1], lines[x[2]])]
           body(t) == [k \in 0 .. n |-> IF k = 0 THEN <<>> ELSE DoneAfter(t[k - 1], lines[k])]
           f == CHOOSE t : t = body(t)
<1>1. n \in Nat /\ <<>> \in T /\ \A k \in 1 .. n : lines[k] \in T
  BY DEF Lines
<1>2. \A a \in T : \A k \in 1 .. n :
        DoneAfter(a, lines[k]) \in T /\ (Settled(a) => Settled(DoneAfter(a, lines[k])))
  BY <1>1, DoneIsSettled
<1> HIDE DEF T
<1>3. step \in [T \X (1 .. n) -> T]
  <2> HIDE DEF n
  <2>1. QED
    BY <1>2
<1>4. PICK g : Recursion(g, T, <<>>, n, step)
  <2> HIDE DEF n, step
  <2>1. QED
    BY <1>1, <1>3, RecursionExists
<1>5. g = body(g)
  <2>1. \A k \in 1 .. n : g[k - 1] \in T
    BY <1>1, <1>4 DEF Recursion
  <2>2. \A k \in 1 .. n : step[<<g[k - 1], k>>] = DoneAfter(g[k - 1], lines[k])
    BY <2>1
  <2>3. \A k \in 0 .. n : k = 0 \/ k \in 1 .. n
    BY <1>1
  <2> HIDE DEF step, n
  <2>4. QED
    BY <1>4, <2>2, <2>3 DEF Recursion
<1>6. f = body(f)
  <2> HIDE DEF body
  <2>1. QED
    BY <1>5, Zenon
<1>7. f[n] = Simplified(lines)
  BY DEF Simplified, DoneAfter, Bare
<1> HIDE DEF f, n
<1>8. \A k \in 0 .. n : f[k] = IF k = 0 THEN <<>> ELSE DoneAfter(f[k - 1], lines[k])
  BY <1>6
<1>9. f[0] = <<>> /\ \A k \in 1 .. n : f[k] = DoneAfter(f[k - 1], lines[k])
  <2>1. 0 \in 0 .. n /\ \A k \in 1 .. n : k \in 0 .. n /\ k # 0
    BY <1>1
  <2>2. QED
    BY <1>8, <2>1
<1> DEFINE S == {k \in 0 .. n : f[k] \in T /\ Settled(f[k])}
<1>10. \A k \in 0 .. n : k \in S
  <2>1. 0 \in S
    <3>1. Settled(<<>>)
      BY DEF Settled
    <3>2. QED
      BY <1>1, <1>9, <3>1
  <2>2. ASSUME NEW k \in 1 .. n, k - 1 \in S PROVE k \in S
    BY <1>1, <1>2, <1>9, <2>2
  <2> HIDE DEF S
  <2>3. QED
    BY <1>1, <2>1, <2>2, UpTo
<1>11. QED
  BY <1>7, <1>9, <1>10 DEF n, T

\* Leaving out the dropped lines changes nothing of what is done: between the
\* two lines of a pair the reference is one gate ahead, after them they agree.
LEMMA OptimisedIsSimplified ==
  ASSUME NEW lines \in Lines, NEW strategy, \A k \in 1 .. Len(lines) : Len(lines[k]) <= 1
  PROVE  Simplified(optimised_qasm(lines, strategy)) = Simplified(lines)
<1> DEFINE n == Len(lines)
           left == optimised_qasm(lines, strategy)
           skip == skip_next(lines)
           dropped(k) == skip[k] \/ (k < n /\ skip[k + 1])
<1>1. /\ n \in Nat /\ \A k \in 1 .. n : lines[k] \in Seq(Statement)
      /\ left \in Lines /\ Len(left) = n
  BY LinesLeft DEF Lines
<1>2. CASE ~ (Level(strategy) >= 2)
  BY <1>2 DEF optimised_qasm
<1>3. CASE Level(strategy) >= 2
  <2>1. \A k \in 1 .. n : left[k] = IF dropped(k) THEN <<>> ELSE lines[k]
    <3>1. DOMAIN lines = 1 .. n
      BY DEF Lines
    <3>2. QED
      BY <1>3, <3>1 DEF optimised_qasm, Dropped
  <2>2. \A k \in 1 .. n :
          skip[k] <=> k > 1 /\ ~ skip[k - 1] /\ Pair(lines[k - 1], lines[k])
    BY SkipRecursion
  <2> HIDE DEF left, skip
  <2>3. PICK s : /\ s[0] = <<>> /\ s[n] = Simplified(lines)
                 /\ \A k \in 0 .. n : s[k] \in Seq(Statement) /\ Settled(s[k])
                 /\ \A k \in 1 .. n : s[k] = DoneAfter(s[k - 1], lines[k])
    BY SimplifiedRecursion
  <2>4. PICK t : /\ t[0] = <<>> /\ t[n] = Simplified(left)
                 /\ \A k \in 1 .. n : t[k] = DoneAfter(t[k - 1], left[k])
    BY <1>1, SimplifiedRecursion
  <2> HIDE DEF n
  <2>5. \A k \in 1 .. n : t[k] = IF dropped(k) THEN t[k - 1] ELSE DoneAfter(t[k - 1], lines[k])
    <3>1. \A a : DoneAfter(a, <<>>) = a
      BY DEF DoneAfter
    <3>2. QED
      BY <2>1, <2>4, <3>1
  <2> DEFINE between(k) == k < n /\ skip[k + 1]
             S == {k \in 0 .. n : IF between(k) THEN k >= 1 /\ t[k] = s[k - 1] ELSE t[k] = s[k]}
  <2>6. 0 \in S
    <3>1. ~ between(0)
      <4>1. 0 < n => 0 + 1 \in 1 .. n /\ ~ (0 + 1 > 1)
        BY <1>1
      <4>2. QED
        BY <2>2, <4>1
    <3>2. 0 \in 0 .. n
      BY <1>1
    <3>3. QED
      BY <2>3, <2>4, <3>1, <3>2
  <2>7. ASSUME NEW k \in 1 .. n, k - 1 \in S
        PROVE  k \in S
    <3>1. k \in 0 .. n /\ k - 1 < n /\ k - 1 + 1 = k /\ k >= 1
      BY <1>1
    <3>2. IF skip[k] THEN k - 1 >= 1 /\ t[k - 1] = s[k - 1 - 1] ELSE t[k - 1] = s[k - 1]
      BY <2>7, <3>1
    <3>3. CASE skip[k]
      <4>1. k - 1 \in 1 .. n /\ k - 1 - 1 \in 0 .. n
        BY <1>1, <3>1, <3>2, <3>3
      <4>2. Pair(lines[k - 1], lines[k])
        BY <2>2, <3>3
      <4>3. s[k - 1] = DoneAfter(s[k - 1 - 1], lines[k - 1]) /\ s[k] = DoneAfter(s[k - 1], lines[k])
        BY <2>3, <4>1
      <4>4. Len(lines[k - 1]) = 1 /\ Len(lines[k]) = 1
        <5>1. lines[k - 1] # <<>> /\ lines[k] # <<>>
          BY <1>1, <4>1, <4>2, PairsAreGates DEF StartsWithGate
        <5>2. Len(lines[k - 1]) <= 1 /\ Len(lines[k]) <= 1
          BY <4>1 DEF n
        <5>3. \A l \in Seq(Statement) : l # <<>> => Len(l) \in Nat \ {0}
          BY EmptySeq
        <5>4. lines[k - 1] \in Seq(Statement) /\ lines[k] \in Seq(Statement)
          BY <1>1, <4>1
        <5>5. Len(lines[k - 1]) \in Nat \ {0} /\ Len(lines[k]) \in Nat \ {0}
          BY <5>1, <5>3, <5>4
        <5> DEFINE a == Len(lines[k - 1])
                   b == Len(lines[k])
        <5>6. a \in Nat \ {0} /\ b \in Nat \ {0} /\ a <= 1 /\ b <= 1
          BY <5>2, <5>5
        <5> HIDE DEF a, b
        <5>7. a = 1 /\ b = 1
          BY <5>6
        <5>8. QED
          BY <5>7 DEF a, b
      <4>5. s[k] = s[k - 1 - 1]
        <5>1. s[k - 1 - 1] \in Seq(Statement) /\ Settled(s[k - 1 - 1])
          BY <2>3, <4>1
        <5>2. DoneAfter(DoneAfter(s[k - 1 - 1], lines[k - 1]), lines[k]) = s[k - 1 - 1]
          BY <1>1, <4>1, <4>2, <4>4, <5>1, PairCancels
        <5>3. QED
          BY <4>3, <5>2
      <4>6. t[k] = t[k - 1]
        BY <2>5, <3>3
      <4>7. ~ between(k)
        <5>1. k < n => k + 1 \in 1 .. n /\ k + 1 - 1 = k
          BY <1>1
        <5>2. QED
          BY <2>2, <3>3, <5>1
      <4>8. QED
        BY <3>1, <3>2, <3>3, <4>5, <4>6, <4>7
    <3>4. CASE ~ skip[k] /\ between(k)
      <4>1. t[k] = t[k - 1]
        BY <2>5, <3>4
      <4>2. QED
        BY <3>1, <3>2, <3>4, <4>1
    <3>5. CASE ~ skip[k] /\ ~ between(k)
      <4>1. t[k] = DoneAfter(t[k - 1], lines[k]) /\ s[k] = DoneAfter(s[k - 1], lines[k])
        BY <2>3, <2>5, <3>5
      <4>2. QED
        BY <3>1, <3>2, <3>5, <4>1
    <3>6. QED
      BY <3>3, <3>4, <3>5
  <2>8. n \in S
    <3> HIDE DEF S
    <3>1. \A k \in 0 .. n : k \in S
      BY <1>1, <2>6, <2>7, UpTo
    <3>2. QED
      BY <1>1, <3>1
  <2>9. t[n] = s[n]
    BY <1>1, <2>8
  <2>10. QED
    BY <2>3, <2>4, <2>9 DEF left
<1>4. QED
  BY <1>2, <1>3

-----------------------------------------------------------------------------
\* The statements before a line are the first ones, as many as Before counts.
LEMMA BeforeIsPrefix ==
  ASSUME NEW p \in Programs, NEW n \in Nat
  PROVE  /\ Before(p, n) \in 0 .. Len(p)
         /\ \A i \in 1 .. Len(p) : p[i].line < n <=> i <= Before(p, n)
<1> DEFINE size == Len(p)
           late == {i \in 1 .. size : ~ (p[i].line < n)}
           early == {i \in DOMAIN p : p[i].line < n}
<1>1. /\ size \in Nat /\ DOMAIN p = 1 .. size
      /\ \A i \in 1 .. size : p[i].line \in Nat
      /\ \A i, k \in 1 .. size : i <= k => p[i].line <= p[k].line
  <2>1. p \in Seq(Statement) /\ InTextOrder(p)
    BY ProgramsAssumption
  <2>2. \A i \in 1 .. size : p[i] \in Statement
    BY <2>1
  <2>3. \A i \in 1 .. size : p[i].line \in Nat
    BY <2>2 DEF Statement
  <2>4. \A i, k \in 1 .. size : i <= k => p[i].line <= p[k].line
    BY <2>1 DEF InTextOrder
  <2>5. QED
    BY <2>1, <2>3, <2>4
<1>2. PICK c \in 0 .. size : \A i \in 1 .. size : p[i].line < n <=> i <= c
  <2>1. CASE late = {}
    <3>1. \A i \in 1 .. size : p[i].line < n /\ i <= size
      BY <2>1
    <3>2. size \in 0 .. size
      BY <1>1
    <3>3. QED
      BY <3>1, <3>2
  <2>2. CASE late # {}
    <3>1. late \subseteq Nat
      OBVIOUS
    <3>2. PICK m \in late : \A k \in late : m <= k
      <4> HIDE DEF late
      <4>1. QED
        BY <2>2, <3>1, Least
    <3>3. m - 1 \in 0 .. size /\ m \in 1 .. size /\ ~ (p[m].line < n)
      BY <1>1
    <3>4. ASSUME NEW i \in 1 .. size PROVE p[i].line < n <=> i <= m - 1
      <4>1. CASE i < m
        <5>1. i \notin late
          BY <1>1, <3>2, <3>3, <4>1
        <5>2. QED
          BY <4>1, <5>1, <3>3
      <4>2. CASE ~ (i < m)
        <5>1. p[m].line <= p[i].line
          BY <1>1, <3>3, <4>2
        <5>2. p[m].line \in Nat /\ p[i].line \in Nat
          BY <1>1, <3>3
        <5>3. QED
          BY <3>3, <4>2, <5>1, <5>2
      <4>3. QED
        BY <4>1, <4>2
    <3>5. QED
      BY <3>3, <3>4
  <2>3. QED
    BY <2>1, <2>2
<1>3. early = 1 .. c
  BY <1>1, <1>2
<1>4. Cardinality(1 .. c) = c
  <2>1. 1 \in Int /\ c \in Int /\ c >= 0
    BY <1>1
  <2>2. Cardinality(1 .. c) = IF 1 > c THEN 0 ELSE c - 1 + 1
    BY <2>1, FS_Interval
  <2>3. QED
    BY <2>1, <2>2
<1>5. Before(p, n) = c
  BY <1>3, <1>4 DEF Before
<1>6. QED
  BY <1>1, <1>2, <1>5

\* The lines of a circuit: consecutive parts of it, from its first statement to
\* its last.
LEMMA LinesOfProgram ==
  ASSUME NEW p \in Programs
  PROVE  /\ splitlines(p) \in Lines /\ Len(splitlines(p)) = LastLine(p) /\ LastLine(p) \in Nat
         /\ Before(p, 1) = 0 /\ Before(p, LastLine(p) + 1) = Len(p)
         /\ \A n \in 1 .. LastLine(p) :
              LET line == splitlines(p)[n] IN
              /\ Before(p, n) <= Before(p, n + 1)
              /\ Len(line) = Before(p, n + 1) - Before(p, n)
              /\ \A k \in 1 .. Len(line) : line[k] = p[Before(p, n) + k]
<1> DEFINE size == Len(p)
           last == LastLine(p)
           B(n) == Before(p, n)
           lines == splitlines(p)
           T == Seq(Statement)
<1>1. /\ p \in T /\ size \in Nat
      /\ \A i \in 1 .. size : p[i] \in Statement /\ p[i].line \in Nat /\ p[i].line >= 1
      /\ \A i, k \in 1 .. size : i <= k => p[i].line <= p[k].line
  <2>1. p \in Seq(Statement) /\ InTextOrder(p)
    BY ProgramsAssumption
  <2>2. size \in Nat /\ DOMAIN p = 1 .. size /\ \A i \in 1 .. size : p[i] \in Statement
    BY <2>1
  <2>3. \A i \in 1 .. size : p[i].line \in Nat
    BY <2>2 DEF Statement
  <2>4. \A i, k \in 1 .. size : p[i].line >= 1 /\ (i <= k => p[i].line <= p[k].line)
    BY <2>1, <2>2, Zenon DEF InTextOrder
  <2> HIDE DEF size, T
  <2>5. p \in T
    BY <2>1 DEF T
  <2>6. QED
    BY <2>2, <2>3, <2>4, <2>5, Zenon
<1>2. last \in Nat /\ \A i \in 1 .. size : p[i].line <= last
  <2>1. CASE p = <<>>
    BY <2>1 DEF LastLine
  <2>2. CASE p # <<>>
    <3>1. last = p[size].line /\ size \in 1 .. size
      BY <1>1, <2>2 DEF LastLine
    <3>2. QED
      BY <1>1, <3>1
  <2>3. QED
    BY <2>1, <2>2
<1>3. \A n \in Nat : B(n) \in 0 .. size /\ \A i \in 1 .. size : p[i].line < n <=> i <= B(n)
  BY BeforeIsPrefix
<1> HIDE DEF B, last
<1>4. B(1) = 0
  <2>1. B(1) \in 0 .. size /\ \A i \in 1 .. size : p[i].line < 1 <=> i <= B(1)
    BY <1>3
  <2>2. B(1) \in 1 .. size => FALSE
    BY <1>1, <2>1
  <2>3. QED
    BY <1>1, <2>1, <2>2
<1>5. B(last + 1) = size
  <2>1. B(last + 1) \in 0 .. size /\ \A i \in 1 .. size : p[i].line < last + 1 <=> i <= B(last + 1)
    BY <1>2, <1>3
  <2>2. size \in 1 .. size => size <= B(last + 1)
    BY <1>1, <1>2, <2>1
  <2>3. QED
    BY <1>1, <2>1, <2>2
<1>6. ASSUME NEW n \in 1 .. last
      PROVE  /\ B(n) <= B(n + 1)
             /\ lines[n] \in T
             /\ Len(lines[n]) = B(n + 1) - B(n)
             /\ \A k \in 1 .. Len(lines[n]) : lines[n][k] = p[B(n) + k]
  <2>1. n \in Nat /\ n + 1 \in Nat
    BY <1>2
  <2>2. /\ B(n) \in 0 .. size /\ \A i \in 1 .. size : p[i].line < n <=> i <= B(n)
        /\ B(n + 1) \in 0 .. size /\ \A i \in 1 .. size : p[i].line < n + 1 <=> i <= B(n + 1)
    BY <1>3, <2>1
  <2>3. B(n) <= B(n + 1)
    <3>1. B(n) \in 1 .. size => B(n) <= B(n + 1)
      BY <1>1, <2>1, <2>2
    <3>2. QED
      BY <1>1, <2>2, <3>1
  <2>4. lines[n] = SubSeq(p, B(n) + 1, B(n + 1))
    BY DEF splitlines, last, B
  <2>5. B(n) + 1 \in Int /\ B(n + 1) \in Int /\ \A i \in B(n) + 1 .. B(n + 1) : p[i] \in Statement
    BY <1>1, <2>2
  <2> HIDE DEF lines
  <2>6. /\ lines[n] \in Seq(Statement)
        /\ Len(lines[n]) = IF B(n) + 1 <= B(n + 1) THEN B(n + 1) - (B(n) + 1) + 1 ELSE 0
        /\ \A k \in 1 .. B(n + 1) - (B(n) + 1) + 1 : lines[n][k] = p[B(n) + 1 + k - 1]
    BY <2>4, <2>5, SubSeqProperties
  <2>7. Len(lines[n]) = B(n + 1) - B(n)
    BY <1>1, <2>2, <2>3, <2>6
  <2>8. ASSUME NEW k \in 1 .. Len(lines[n]) PROVE lines[n][k] = p[B(n) + k]
    <3>1. k \in 1 .. B(n + 1) - (B(n) + 1) + 1 /\ B(n) + 1 + k - 1 = B(n) + k
      BY <1>1, <2>2, <2>7
    <3>2. QED
      BY <2>6, <3>1
  <2>9. QED
    BY <2>3, <2>6, <2>7, <2>8
<1>7. lines \in Lines /\ Len(lines) = last
  <2>1. DOMAIN lines = 1 .. last /\ lines = [n \in 1 .. last |-> lines[n]]
    BY DEF splitlines, last
  <2> HIDE DEF lines, T
  <2>2. lines \in Seq(T) /\ Len(lines) = last
    BY <1>2, <1>6, <2>1
  <2>3. QED
    BY <2>2 DEF Lines, T
<1>8. QED
  BY <1>2, <1>4, <1>5, <1>6, <1>7 DEF B, last

\* OneStatementPerLine, of any circuit.
OnePerLine(p) == \A i, k \in DOMAIN p : p[i].line = p[k].line => i = k

\* The statements of a line are those with its number.
LEMMA LineOfStatement ==
  ASSUME NEW p \in Programs, NEW i \in 1 .. Len(p), NEW n \in Nat
  PROVE  p[i].line = n <=> i > Before(p, n) /\ i <= Before(p, n + 1)
<1>1. p \in Seq(Statement)
  BY ProgramsAssumption
<1>2. p[i] \in Statement
  BY <1>1
<1>3. p[i].line \in Nat
  BY <1>2 DEF Statement
<1>4. p[i].line < n <=> i <= Before(p, n)
  BY BeforeIsPrefix
<1>5. p[i].line < n + 1 <=> i <= Before(p, n + 1)
  <2>1. n + 1 \in Nat
    OBVIOUS
  <2>2. QED
    BY <2>1, BeforeIsPrefix
<1>6. Before(p, n) \in 0 .. Len(p)
  BY BeforeIsPrefix
<1>7. QED
  BY <1>3, <1>4, <1>5, <1>6

\* With one statement per line a line is empty or has the next statement.
LEMMA OneOrNone ==
  ASSUME NEW p \in Programs, OnePerLine(p), NEW n \in 1 .. LastLine(p)
  PROVE  \/ splitlines(p)[n] = <<>> /\ Before(p, n + 1) = Before(p, n)
         \/ /\ Before(p, n) + 1 \in 1 .. Len(p) /\ Before(p, n + 1) = Before(p, n) + 1
            /\ splitlines(p)[n] = <<p[Before(p, n) + 1]>>
            /\ p[Before(p, n) + 1].line = n
<1> DEFINE b == Before(p, n)
           c == Before(p, n + 1)
           line == splitlines(p)[n]
           size == Len(p)
<1>1. /\ n \in Nat /\ n + 1 \in Nat /\ size \in Nat /\ DOMAIN p = 1 .. size
      /\ line \in Seq(Statement) /\ b <= c /\ Len(line) = c - b
      /\ \A k \in 1 .. Len(line) : line[k] = p[b + k]
  <2>1. LastLine(p) \in Nat /\ splitlines(p) \in Seq(Seq(Statement)) /\ Len(splitlines(p)) = LastLine(p)
    BY LinesOfProgram DEF Lines
  <2>2. p \in Seq(Statement)
    BY ProgramsAssumption
  <2>3. b <= c /\ Len(line) = c - b /\ \A k \in 1 .. Len(line) : line[k] = p[b + k]
    BY LinesOfProgram
  <2>4. QED
    BY <2>1, <2>2, <2>3
<1>2. b \in 0 .. size /\ c \in 0 .. size
  BY <1>1, BeforeIsPrefix
<1>3. \A i \in 1 .. size : p[i].line = n <=> i > b /\ i <= c
  BY <1>1, LineOfStatement
<1> HIDE DEF b, c, line, size
<1>4. CASE c = b
  <2>1. line = <<>>
    BY <1>1, <1>2, <1>4
  <2>2. QED
    BY <1>4, <2>1 DEF b, c, line
<1>5. CASE c # b
  <2>1. b + 1 \in 1 .. size /\ p[b + 1].line = n
    BY <1>1, <1>2, <1>3, <1>5
  <2>2. c = b + 1
    <3>1. SUFFICES ASSUME c > b + 1 PROVE FALSE
      BY <1>1, <1>2, <1>5
    <3>2. b + 2 \in 1 .. size /\ p[b + 2].line = n
      BY <1>1, <1>2, <1>3, <3>1
    <3>3. b + 1 = b + 2
      BY <1>1, <2>1, <3>2 DEF OnePerLine
    <3>4. QED
      BY <1>2, <3>3
  <2>3. line = <<p[b + 1]>>
    <3>1. Len(line) = 1
      BY <1>1, <1>2, <2>2
    <3>2. 1 \in 1 .. Len(line)
      BY <3>1
    <3>3. line[1] = p[b + 1]
      BY <1>1, <3>2
    <3>4. line[1] \in Statement
      BY <1>1, <3>2, ElementOfSeq
    <3> DEFINE single == <<p[b + 1]>>
    <3>5. single \in Seq(Statement) /\ Len(single) = 1 /\ single[1] = p[b + 1]
      BY <3>3, <3>4
    <3> HIDE DEF single
    <3>6. line = single
      <4>1. \A i \in 1 .. Len(line) : line[i] = single[i]
        BY <3>1, <3>3, <3>5
      <4>2. QED
        BY <1>1, <3>1, <3>5, <4>1, SeqEqual
    <3>7. QED
      BY <3>6 DEF single
  <2>4. QED
    BY <2>1, <2>2, <2>3 DEF b, c, line, size
<1>6. QED
  BY <1>4, <1>5

-----------------------------------------------------------------------------
\* The circuit with every statement on a line of its own.
Singly(p) == [i \in 1 .. Len(p) |-> <<p[i]>>]

\* What the validator has counted is what the statements read so far declare,
\* and each declaration among them has its size.
CountsRead ==
  /\ total_qubits = qubit_totals(Singly(program))[pos - 1]
  /\ \A i \in 1 .. pos - 1 : program[i].kind = "qreg" => program[i].refs # <<>>

\* It has as many lines as the circuit has statements.
LEMMA SinglyIsLines ==
  ASSUME NEW p \in Programs
  PROVE  /\ Singly(p) \in Lines /\ Len(Singly(p)) = Len(p)
         /\ \A i \in 1 .. Len(p) : Singly(p)[i] = <<p[i]>>
<1> DEFINE n == Len(p)
           T == Seq(Statement)
<1>1. p \in Seq(Statement) /\ n \in Nat
  BY ProgramsAssumption
<1>2. \A i \in 1 .. n : p[i] \in Statement
  BY <1>1
<1>3. \A i \in 1 .. n : <<p[i]>> \in T
  BY <1>2
<1> HIDE DEF n, T
<1>4. Singly(p) = [i \in 1 .. n |-> <<p[i]>>]
  BY DEF Singly, n
<1>5. Singly(p) \in Seq(T) /\ Len(Singly(p)) = n
  BY <1>1, <1>3, <1>4
<1>6. QED
  BY <1>4, <1>5 DEF Lines, n, T

\* Read by lines or by statements, one per line, a circuit has as many qubits.
LEMMA TotalsAgree ==
  ASSUME NEW p \in Programs, OnePerLine(p)
  PROVE  parse_qubit_count(splitlines(p)) = qubit_totals(Singly(p))[Len(p)]
<1> DEFINE n == LastLine(p)
           lines == splitlines(p)
           t == qubit_totals(lines)
           u == qubit_totals(Singly(p))
           B(k) == Before(p, k)
           S == {k \in 0 .. n : t[k] = u[B(k + 1)]}
<1>1. n \in Nat /\ lines \in Lines /\ Len(lines) = n /\ B(1) = 0 /\ B(n + 1) = Len(p)
  BY LinesOfProgram
<1>2. t[0] = 0 /\ \A k \in 1 .. n : t[k] = t[k - 1] + DeclaredSize(lines[k])
  BY <1>1, TotalsRecursion
<1>3. /\ u[0] = 0 /\ u \in [0 .. Len(p) -> Nat]
      /\ \A i \in 1 .. Len(p) : u[i] = u[i - 1] + DeclaredSize(<<p[i]>>)
  BY SinglyIsLines, TotalsRecursion
<1>4. \A k \in 1 .. n :
        \/ lines[k] = <<>> /\ B(k + 1) = B(k)
        \/ /\ B(k) + 1 \in 1 .. Len(p) /\ B(k + 1) = B(k) + 1
           /\ lines[k] = <<p[B(k) + 1]>>
  BY OneOrNone
<1>5. \A k \in 1 .. n + 1 : B(k) \in Nat /\ (B(k) \in 0 .. Len(p))
  BY <1>1, BeforeIsPrefix
<1> HIDE DEF n, lines, t, u, B
<1>6. 0 \in S
  BY <1>1, <1>2, <1>3
<1>7. ASSUME NEW k \in 1 .. n, k - 1 \in S PROVE k \in S
  <2>1. k \in 0 .. n /\ t[k - 1] = u[B(k)] /\ t[k] = t[k - 1] + DeclaredSize(lines[k])
    <3>1. k - 1 + 1 = k
      OBVIOUS
    <3>2. QED
      BY <1>1, <1>2, <1>7, <3>1
  <2>2. B(k) \in 0 .. Len(p) /\ u[B(k)] \in Nat
    BY <1>1, <1>3, <1>5
  <2>3. CASE lines[k] = <<>> /\ B(k + 1) = B(k)
    <3>1. DeclaredSize(lines[k]) = 0
      BY <2>3 DEF DeclaredSize, Declares, Starts
    <3>2. QED
      BY <2>1, <2>2, <2>3, <3>1
  <2>4. CASE /\ B(k) + 1 \in 1 .. Len(p) /\ B(k + 1) = B(k) + 1
             /\ lines[k] = <<p[B(k) + 1]>>
    <3> DEFINE i == B(k) + 1
    <3>1. i - 1 = B(k) /\ i \in 1 .. Len(p) /\ lines[k] = <<p[i]>> /\ B(k + 1) = i
      BY <2>2, <2>4
    <3> HIDE DEF i
    <3>2. u[i] = u[i - 1] + DeclaredSize(<<p[i]>>)
      BY <1>3, <3>1
    <3>3. t[k] = u[B(k + 1)]
      BY <2>1, <3>1, <3>2
    <3>4. QED
      BY <2>1, <3>3
  <2>5. QED
    BY <1>4, <2>3, <2>4
<1>8. n \in S
  <2> HIDE DEF S
  <2>1. \A k \in 0 .. n : k \in S
    BY <1>1, <1>6, <1>7, UpTo
  <2>2. QED
    BY <1>1, <2>1
<1>9. t[n] = u[Len(p)]
  BY <1>1, <1>8
<1>10. QED
  BY <1>1, <1>9 DEF parse_qubit_count, t, u, lines

\* A line that is not empty starts with the statement after those before it.
LEMMA FirstOfLine ==
  ASSUME NEW p \in Programs, NEW n \in 1 .. LastLine(p), splitlines(p)[n] # <<>>
  PROVE  /\ splitlines(p)[n] \in Seq(Statement)
         /\ Before(p, n) + 1 \in 1 .. Len(p) /\ Before(p, n) + 1 <= Before(p, n + 1)
         /\ splitlines(p)[n][1] = p[Before(p, n) + 1]
         /\ p[Before(p, n) + 1].line = n
<1> DEFINE b == Before(p, n)
           c == Before(p, n + 1)
           line == splitlines(p)[n]
           size == Len(p)
<1>1. /\ n \in Nat /\ n + 1 \in Nat /\ size \in Nat
      /\ line \in Seq(Statement) /\ b <= c /\ Len(line) = c - b
      /\ \A k \in 1 .. Len(line) : line[k] = p[b + k]
  <2>1. LastLine(p) \in Nat /\ splitlines(p) \in Seq(Seq(Statement)) /\ Len(splitlines(p)) = LastLine(p)
    BY LinesOfProgram DEF Lines
  <2>2. p \in Seq(Statement)
    BY ProgramsAssumption
  <2>3. b <= c /\ Len(line) = c - b /\ \A k \in 1 .. Len(line) : line[k] = p[b + k]
    BY LinesOfProgram
  <2>4. QED
    BY <2>1, <2>2, <2>3
<1>2. b \in 0 .. size /\ c \in 0 .. size
  BY <1>1, BeforeIsPrefix
<1>3. \A i \in 1 .. size : p[i].line = n <=> i > b /\ i <= c
  BY <1>1, LineOfStatement
<1>4. line # <<>>
  OBVIOUS
<1> HIDE DEF b, c, line, size
<1>5. Len(line) \in Nat \ {0}
  BY <1>1, <1>4, EmptySeq
<1>6. b + 1 \in 1 .. size /\ b + 1 <= c /\ 1 \in 1 .. Len(line)
  BY <1>1, <1>2, <1>5
<1>7. line[1] = p[b + 1] /\ p[b + 1].line = n
  BY <1>1, <1>2, <1>3, <1>6
<1>8. QED
  BY <1>1, <1>6, <1>7 DEF b, c, line, size

\* Totals never fall.
LEMMA TotalsGrow ==
  ASSUME NEW lines \in Lines, NEW i \in 0 .. Len(lines), NEW k \in 0 .. Len(lines), i <= k
  PROVE  qubit_totals(lines)[i] <= qubit_totals(lines)[k]
<1> DEFINE n == Len(lines)
           t == qubit_totals(lines)
           S == {m \in 0 .. n : m < i \/ t[i] <= t[m]}
<1>1. n \in Nat
  BY DEF Lines
<1>2. t \in [0 .. n -> Nat] /\ \A m \in 1 .. n : t[m] = t[m - 1] + DeclaredSize(lines[m])
  BY TotalsRecursion
<1>3. \A m \in 1 .. n : DeclaredSize(lines[m]) \in Nat
  BY DeclaredSizeIsNat DEF Lines
<1>4. i \in 0 .. n /\ k \in 0 .. n
  OBVIOUS
<1> HIDE DEF n, t
<1>5. 0 \in S
  <2>1. 0 < i \/ t[i] <= t[0]
    BY <1>1, <1>2, <1>4
  <2>2. QED
    BY <1>1, <2>1
<1>6. ASSUME NEW m \in 1 .. n, m - 1 \in S PROVE m \in S
  <2>1. m \in 0 .. n /\ m - 1 \in 0 .. n /\ t[m - 1] \in Nat /\ t[i] \in Nat
    BY <1>1, <1>2, <1>4
  <2>2. t[m] = t[m - 1] + DeclaredSize(lines[m]) /\ DeclaredSize(lines[m]) \in Nat
    BY <1>2, <1>3
  <2>3. CASE m = i
    BY <1>2, <1>4, <2>1, <2>3
  <2>4. CASE m # i
    <3>1. m - 1 < i => m < i
      BY <1>4, <2>1, <2>4
    <3>2. t[i] <= t[m - 1] => t[i] <= t[m]
      BY <2>1, <2>2
    <3>3. QED
      BY <1>6, <2>1, <3>1, <3>2
  <2>5. QED
    BY <2>3, <2>4
<1>7. k \in S
  <2> HIDE DEF S
  <2>1. \A m \in 0 .. n : m \in S
    BY <1>1, <1>5, <1>6, UpTo
  <2>2. QED
    BY <1>4, <2>1
<1>8. QED
  BY <1>4, <1>7 DEF t

\* Read by lines a circuit has no more qubits than read by statements: a line
\* counts for the declaration it starts with.
LEMMA TotalsAtMost ==
  ASSUME NEW p \in Programs,
         \A i \in 1 .. Len(p) : p[i].kind = "qreg" => p[i].refs # <<>>
  PROVE  parse_qubit_count(splitlines(p)) <= qubit_totals(Singly(p))[Len(p)]
<1> DEFINE n == LastLine(p)
           lines == splitlines(p)
           t == qubit_totals(lines)
           u == qubit_totals(Singly(p))
           B(k) == Before(p, k)
           S == {k \in 0 .. n : t[k] <= u[B(k + 1)]}
<1>1. n \in Nat /\ lines \in Lines /\ Len(lines) = n /\ B(1) = 0 /\ B(n + 1) = Len(p)
      /\ Len(p) \in Nat
  BY LinesOfProgram, ProgramsAssumption
<1>2. t \in [0 .. n -> Nat] /\ t[0] = 0 /\ \A k \in 1 .. n : t[k] = t[k - 1] + DeclaredSize(lines[k])
  BY <1>1, TotalsRecursion
<1>3. /\ u[0] = 0 /\ u \in [0 .. Len(p) -> Nat]
      /\ \A i \in 1 .. Len(p) : u[i] = u[i - 1] + DeclaredSize(<<p[i]>>)
  BY SinglyIsLines, TotalsRecursion
<1>4. \A i, k \in 0 .. Len(p) : i <= k => u[i] <= u[k]
  BY SinglyIsLines, TotalsGrow
<1>5. \A k \in 1 .. n + 1 : B(k) \in 0 .. Len(p)
  BY <1>1, BeforeIsPrefix
<1>6. \A k \in 1 .. n : B(k) <= B(k + 1)
  BY LinesOfProgram
<1>7. ASSUME NEW k \in 1 .. n, lines[k] # <<>>
      PROVE  /\ B(k) + 1 \in 1 .. Len(p) /\ B(k) + 1 <= B(k + 1)
             /\ DeclaredSize(lines[k]) = DeclaredSize(<<p[B(k) + 1]>>)
  <2> DEFINE i == B(k) + 1
             single == <<p[i]>>
  <2>1. /\ lines[k] \in Seq(Statement) /\ i \in 1 .. Len(p) /\ i <= B(k + 1)
        /\ lines[k][1] = p[i]
    BY <1>7, FirstOfLine
  <2>2. p \in Seq(Statement)
    BY ProgramsAssumption
  <2> HIDE DEF lines, i
  <2>3. p[i] \in Statement /\ (p[i].kind = "qreg" => p[i].refs # <<>>)
    BY <2>1, <2>2
  <2>4. single \in Seq(Statement) /\ single # <<>> /\ single[1] = p[i]
    BY <2>3
  <2> HIDE DEF single
  <2>5. DeclaredSize(lines[k]) = IF p[i].kind = "qreg" THEN p[i].refs[1][2] ELSE 0
    BY <1>7, <2>1, <2>3, HeadDeclares
  <2>6. DeclaredSize(single) = IF p[i].kind = "qreg" THEN p[i].refs[1][2] ELSE 0
    BY <2>3, <2>4, HeadDeclares
  <2>7. QED
    BY <2>1, <2>5, <2>6 DEF i, single
<1> HIDE DEF n, lines, t, u, B
<1>8. 0 \in S
  BY <1>1, <1>2, <1>3
<1>9. ASSUME NEW k \in 1 .. n, k - 1 \in S PROVE k \in S
  <2>1. /\ k \in 0 .. n /\ t[k - 1] <= u[B(k)] /\ t[k] = t[k - 1] + DeclaredSize(lines[k])
        /\ t[k - 1] \in Nat /\ t[k] \in Nat
    <3>1. k - 1 + 1 = k /\ k - 1 \in 0 .. n /\ k \in 0 .. n
      BY <1>1
    <3>2. QED
      BY <1>1, <1>2, <1>9, <3>1
  <2>2. /\ B(k) \in 0 .. Len(p) /\ B(k + 1) \in 0 .. Len(p) /\ B(k) <= B(k + 1)
        /\ u[B(k)] \in Nat /\ u[B(k + 1)] \in Nat
    BY <1>1, <1>3, <1>5, <1>6
  <2>3. CASE lines[k] = <<>>
    <3>1. DeclaredSize(lines[k]) = 0
      BY <2>3 DEF DeclaredSize, Declares, Starts
    <3>2. u[B(k)] <= u[B(k + 1)]
      BY <1>4, <2>2
    <3>3. t[k] <= u[B(k + 1)]
      BY <2>1, <2>2, <3>1, <3>2
    <3>4. QED
      BY <2>1, <3>3
  <2>4. CASE lines[k] # <<>>
    <3> DEFINE i == B(k) + 1
    <3>1. /\ i - 1 = B(k) /\ i \in 1 .. Len(p) /\ i <= B(k + 1) /\ i \in 0 .. Len(p)
          /\ DeclaredSize(lines[k]) = DeclaredSize(<<p[i]>>)
      <4>1. i \in 1 .. Len(p) /\ i <= B(k + 1) /\ DeclaredSize(lines[k]) = DeclaredSize(<<p[i]>>)
        BY <1>7, <2>4, Zenon
      <4> HIDE DEF S
      <4>2. i - 1 = B(k) /\ i \in 0 .. Len(p)
        BY <1>1, <2>2, <4>1
      <4>3. QED
        BY <4>1, <4>2
    <3> HIDE DEF i
    <3>2. u[i] = u[B(k)] + DeclaredSize(lines[k]) /\ u[i] <= u[B(k + 1)] /\ u[i] \in Nat
      BY <1>3, <1>4, <2>2, <3>1
    <3> DEFINE d == DeclaredSize(lines[k])
    <3>3. d \in Nat
      BY <1>1, DeclaredSizeIsNat DEF Lines
    <3>4. t[k] = t[k - 1] + d /\ u[B(k)] + d <= u[B(k + 1)]
      BY <2>1, <3>2
    <3> HIDE DEF d
    <3>a. \A a, b, c \in Nat : a <= b /\ b + d <= c => a + d <= c
      BY <3>3
    <3>5. t[k] <= u[B(k + 1)]
      BY <2>1, <2>2, <3>4, <3>a, Zenon
    <3>6. QED
      BY <2>1, <3>5
  <2>5. QED
    BY <2>3, <2>4
<1>10. n \in S
  <2> HIDE DEF S
  <2>1. \A k \in 0 .. n : k \in S
    BY <1>1, <1>8, <1>9, UpTo
  <2>2. QED
    BY <1>1, <2>1
<1>11. t[n] <= u[Len(p)]
  BY <1>1, <1>10
<1>12. QED
  BY <1>1, <1>11 DEF parse_qubit_count, t, u, lines

\* No more lines start with a gate than there are gates.
LEMMA GatesAtMost ==
  ASSUME NEW p \in Programs
  PROVE  LET gates == {i \in DOMAIN p : IsGate(p[i], GATE_KEYWORDS)}
         IN /\ Cardinality(GateLines(splitlines(p))) \in Nat /\ Cardinality(gates) \in Nat
            /\ Cardinality(GateLines(splitlines(p))) <= Cardinality(gates)
<1> DEFINE lines == splitlines(p)
           gates == {i \in DOMAIN p : IsGate(p[i], GATE_KEYWORDS)}
           L == GateLines(lines)
           f == [n \in L |-> Before(p, n) + 1]
<1>1. Len(p) \in Nat /\ DOMAIN p = 1 .. Len(p)
  BY ProgramsAssumption
<1>2. DOMAIN lines = 1 .. LastLine(p)
  BY LinesOfProgram DEF Lines
<1>3. IsFiniteSet(gates)
  <2>1. 1 \in Int /\ Len(p) \in Int
    BY <1>1
  <2>2. IsFiniteSet(1 .. Len(p))
    BY <2>1, FS_Interval
  <2>3. gates \subseteq 1 .. Len(p)
    BY <1>1
  <2> HIDE DEF gates
  <2>4. QED
    BY <2>2, <2>3, FS_Subset
<1>4. ASSUME NEW n \in L PROVE f[n] \in gates /\ p[f[n]].line = n
  <2>1. n \in 1 .. LastLine(p) /\ lines[n] # <<>> /\ IsGate(lines[n][1], GATE_KEYWORDS)
    BY <1>2 DEF GateLines, StartsWithGate
  <2>2. /\ f[n] \in 1 .. Len(p) /\ lines[n][1] = p[f[n]] /\ p[f[n]].line = n
    BY <2>1, FirstOfLine
  <2>3. QED
    BY <1>1, <2>1, <2>2
<1> HIDE DEF gates, L
<1>5. f \in Injection(L, gates)
  <2>1. f \in [L -> gates]
    BY <1>4
  <2>2. \A m, n \in L : f[m] = f[n] => m = n
    <3> HIDE DEF f
    <3>1. QED
      BY <1>4
  <2>3. QED
    BY <2>1, <2>2 DEF Injection, IsInjective
<1> HIDE DEF f
<1>6. IsFiniteSet(L) /\ Cardinality(L) <= Cardinality(gates)
  BY <1>3, <1>5, FS_Injection
<1>7. QED
  BY <1>3, <1>6, FS_CardinalityType DEF gates, L

\* One gate per line: the lines that start with one are as many as the gates.
LEMMA GatesAgree ==
  ASSUME NEW p \in Programs, OnePerLine(p)
  PROVE  LET gates == {i \in DOMAIN p : IsGate(p[i], GATE_KEYWORDS)}
         IN Cardinality(GateLines(splitlines(p))) = Cardinality(gates)
<1> DEFINE lines == splitlines(p)
           gates == {i \in DOMAIN p : IsGate(p[i], GATE_KEYWORDS)}
           f == [i \in gates |-> p[i].line]
           L == GateLines(lines)
           B(k) == Before(p, k)
<1>1. /\ p \in Seq(Statement) /\ Len(p) \in Nat /\ DOMAIN p = 1 .. Len(p)
      /\ \A i \in 1 .. Len(p) : p[i].line \in Nat /\ p[i].line >= 1
  <2>1. p \in Seq(Statement) /\ InTextOrder(p)
    BY ProgramsAssumption
  <2>2. \A i \in 1 .. Len(p) : p[i] \in Statement
    BY <2>1
  <2>3. \A i \in 1 .. Len(p) : p[i].line \in Nat
    BY <2>2 DEF Statement
  <2>4. \A i \in 1 .. Len(p) : p[i].line >= 1
    BY <2>1 DEF InTextOrder
  <2>5. QED
    BY <2>1, <2>3, <2>4
<1>2. DOMAIN lines = 1 .. LastLine(p) /\ LastLine(p) \in Nat
  BY LinesOfProgram DEF Lines
<1>3. IsFiniteSet(gates)
  <2>1. 1 \in Int /\ Len(p) \in Int
    BY <1>1
  <2>2. IsFiniteSet(1 .. Len(p))
    BY <2>1, FS_Interval
  <2>3. gates \subseteq 1 .. Len(p)
    BY <1>1
  <2> HIDE DEF gates
  <2>4. QED
    BY <2>2, <2>3, FS_Subset
<1>4. ASSUME NEW i \in gates PROVE f[i] \in L
  <2> DEFINE n == p[i].line
  <2>1. i \in 1 .. Len(p) /\ n \in Nat /\ n >= 1
    BY <1>1
  <2>2. n \in 1 .. LastLine(p)
    <3>1. LastLine(p) = p[Len(p)].line /\ Len(p) \in 1 .. Len(p)
      BY <1>1, <2>1 DEF LastLine
    <3>2. n <= p[Len(p)].line
      <4>1. InTextOrder(p)
        BY ProgramsAssumption
      <4>2. QED
        BY <1>1, <2>1, <3>1, <4>1 DEF InTextOrder
    <3>3. QED
      BY <1>2, <2>1, <3>1, <3>2
  <2>3. i > B(n) /\ i <= B(n + 1) /\ B(n) \in Nat
    <3>1. B(n) \in 0 .. Len(p)
      BY <2>1, BeforeIsPrefix
    <3>2. QED
      BY <2>1, <3>1, LineOfStatement
  <2>4. lines[n] = <<p[i]>>
    <3> HIDE DEF lines, n, B
    <3>1. \/ B(n + 1) = B(n)
          \/ B(n + 1) = B(n) + 1 /\ lines[n] = <<p[B(n) + 1]>>
      BY <2>2, OneOrNone DEF lines, B
    <3>2. B(n + 1) = B(n) + 1 /\ i = B(n) + 1
      BY <2>1, <2>3, <3>1
    <3>3. QED
      BY <2>3, <3>1, <3>2
  <2>5. StartsWithGate(lines[n], GATE_KEYWORDS)
    BY <2>4 DEF StartsWithGate
  <2>6. QED
    BY <1>2, <2>2, <2>5 DEF GateLines
<1>5. ASSUME NEW i \in gates, NEW k \in gates, f[i] = f[k] PROVE i = k
  BY <1>5 DEF OnePerLine
<1>6. ASSUME NEW n \in L PROVE \E i \in gates : f[i] = n
  <2>1. n \in 1 .. LastLine(p) /\ StartsWithGate(lines[n], GATE_KEYWORDS)
    BY <1>2 DEF GateLines
  <2>2. lines[n] # <<>>
    BY <2>1 DEF StartsWithGate
  <2> DEFINE i == B(n) + 1
  <2>3. i \in 1 .. Len(p) /\ lines[n] = <<p[i]>> /\ p[i].line = n
    BY <2>1, <2>2, OneOrNone
  <2>4. i \in gates
    <3> HIDE DEF lines, i
    <3>1. lines[n][1] = p[i]
      BY <2>3
    <3>2. QED
      BY <1>1, <2>1, <2>3, <3>1 DEF StartsWithGate
  <2> HIDE DEF i
  <2>5. QED
    BY <2>3, <2>4
<1> HIDE DEF gates, L
<1>7. f \in Bijection(gates, L)
  BY <1>4, <1>5, <1>6 DEF Bijection, Injection, Surjection, IsInjective
<1>8. Cardinality(L) = Cardinality(gates)
  <2>1. ExistsBijection(gates, L)
    BY <1>7 DEF ExistsBijection
  <2>2. QED
    BY <1>3, <2>1, FS_Bijection
<1>9. QED
  BY <1>8 DEF gates, L

\* Nothing is read at first.
LEMMA CountsInit == ValidatorInv /\ Init => CountsRead
<1>1. SUFFICES ASSUME ValidatorInv, Init PROVE CountsRead
  OBVIOUS
<1>2. program \in Programs /\ pos - 1 = 0 /\ total_qubits = 0 /\ 1 .. pos - 1 = {}
  BY <1>1 DEF Init
<1>3. qubit_totals(Singly(program))[0] = 0
  BY <1>2, SinglyIsLines, TotalsRecursion
<1>4. QED
  BY <1>2, <1>3 DEF CountsRead

\* Every statement the validator passes adds what it declares.
LEMMA CountsStep == ValidatorInv /\ CountsRead /\ [Next]_vars => CountsRead'
<1> SUFFICES ASSUME ValidatorInv, CountsRead, [Next]_vars PROVE CountsRead'
  OBVIOUS
<1> DEFINE u == qubit_totals(Singly(program))
<1>1. program \in Programs /\ total_qubits = u[pos - 1]
  BY DEF ValidatorInv, CountsRead
<1>2. u \in [0 .. Len(program) -> Nat]
      /\ \A i \in 1 .. Len(program) : u[i] = u[i - 1] + DeclaredSize(<<program[i]>>)
  BY <1>1, SinglyIsLines, TotalsRecursion
<1>3. program' = program
  BY DEF Next, vars, CheckHeader, Skip, DeclareQubits, DeclareBits, Measure, ApplyGate,
         Reject, Accept, Advance
<1>4. CountsRead' <=> /\ total_qubits' = u[pos' - 1]
                      /\ \A i \in 1 .. pos' - 1 : program[i].kind = "qreg" => program[i].refs # <<>>
  BY <1>3 DEF CountsRead
<1> HIDE DEF u
<1>5. ASSUME pos <= Len(program), pos' = pos + 1,
             total_qubits' = total_qubits + DeclaredSize(<<Current>>),
             Current.kind = "qreg" => Current.refs # <<>>
      PROVE  CountsRead'
  <2>1. pos \in 1 .. Len(program) /\ pos' - 1 = pos
    <3>1. pos \in DOMAIN program /\ pos \in Nat /\ program \in Seq(Statement)
      BY <1>1, <1>5, CurrentStatement, ProgramsAssumption
    <3>2. QED
      BY <1>5, <3>1
  <2>2. u[pos] = u[pos - 1] + DeclaredSize(<<Current>>)
    BY <1>2, <2>1 DEF Current
  <2>3. ASSUME NEW i \in 1 .. pos' - 1, program[i].kind = "qreg" PROVE program[i].refs # <<>>
    <3>1. i = pos \/ i \in 1 .. pos - 1
      BY <2>1
    <3>2. QED
      BY <1>5, <2>3, <3>1 DEF Current, CountsRead
  <2>4. QED
    BY <1>1, <1>4, <1>5, <2>1, <2>2, <2>3
<1>6. CASE DeclareQubits
  <2>1. /\ pos <= Len(program) /\ Current.kind = "qreg" /\ Current.formed
        /\ pos' = pos + 1 /\ total_qubits' = total_qubits + Size
    BY <1>6 DEF DeclareQubits, Reads, Current, QregFits, Advance
  <2>2. 1 \in DOMAIN Current.refs
    BY <2>1, CurrentParts
  <2> DEFINE single == <<Current>>
  <2>3. Current \in Statement /\ Current.refs # <<>>
    BY <2>1, <2>2, CurrentStatement
  <2>4. single \in Seq(Statement) /\ single # <<>> /\ single[1] = Current
    BY <2>3
  <2> HIDE DEF single
  <2>5. DeclaredSize(single) = Size
    BY <2>1, <2>3, <2>4, HeadDeclares DEF Size
  <2>6. QED
    BY <1>5, <2>1, <2>3, <2>5 DEF single
<1>7. CASE Skip \/ DeclareBits \/ Measure \/ ApplyGate
  <2>1. /\ pos <= Len(program) /\ Current.kind # "qreg"
        /\ pos' = pos + 1 /\ total_qubits' = total_qubits
    BY <1>7 DEF Skip, DeclareBits, Measure, ApplyGate, Reads, Current, Advance, Declared
  <2>2. DeclaredSize(<<Current>>) = 0
    BY <2>1 DEF DeclaredSize, Declares, Starts
  <2>3. total_qubits \in Nat
    BY ProgramsAssumption DEF ValidatorInv, TypeOK
  <2>4. QED
    BY <1>5, <2>1, <2>2, <2>3
<1>8. CASE CheckHeader \/ Reject \/ Accept \/ UNCHANGED vars
  <2>1. pos' = pos /\ total_qubits' = total_qubits
    BY <1>8 DEF CheckHeader, Reject, Accept, vars
  <2>2. QED
    BY <1>1, <1>4, <2>1 DEF CountsRead
<1>9. QED
  BY <1>6, <1>7, <1>8 DEF Next

\* A line of semicolons only is a statement of the circuit that is empty.
LEMMA UncountableIsEmpty ==
  ASSUME NEW p \in Programs, Uncountable(splitlines(p))
  PROVE  \E i \in DOMAIN p : p[i].kind = "empty"
<1>1. PICK n \in DOMAIN splitlines(p) : OnlySemicolons(splitlines(p)[n])
  BY DEF Uncountable
<1>2. n \in 1 .. LastLine(p) /\ DOMAIN p = 1 .. Len(p)
  BY LinesOfProgram, ProgramsAssumption DEF Lines
<1>3. splitlines(p)[n] # <<>> /\ splitlines(p)[n][1].kind = "empty"
  BY <1>1 DEF OnlySemicolons
<1>4. QED
  BY <1>2, <1>3, FirstOfLine

\* What the worker reads off an accepted circuit is what the validator counted,
\* or less.
LEMMA ExecuteMatches == ASSUME ValidatorInv, CountsRead, Execute PROVE MetadataMatches'
<1> DEFINE lines == splitlines(program)
           gates == Cardinality(GateStatements)
           most == IF gates = 0 THEN 1 ELSE gates
           qubits == parse_qubit_count(lines)
           count == count_gates(lines)
<1>1. program \in Programs /\ verdict = "accepted" /\ pos = Len(program) + 1
  BY DEF ValidatorInv, Execute
<1>2. /\ reply'.counts = IF Uncountable(lines) THEN {} ELSE {[qubit_count |-> qubits, gate_count |-> count]}
      /\ program' = program /\ total_qubits' = total_qubits
  BY DEF Execute, vars
<1>3. pos - 1 = Len(program)
  <2>1. Len(program) \in Nat
    BY <1>1, ProgramsAssumption
  <2>2. QED
    BY <1>1, <2>1
<1>4. reply'.counts = {} => \E i \in DOMAIN program : program[i].kind = "empty"
  BY <1>1, <1>2, UncountableIsEmpty
<1>5. qubits <= total_qubits
  BY <1>1, <1>3, TotalsAtMost DEF CountsRead
<1>6. count <= most
  <2> DEFINE found == Cardinality(GateLines(lines))
  <2>1. found \in Nat /\ gates \in Nat /\ found <= gates
    BY <1>1, GatesAtMost DEF GateStatements
  <2>2. count = IF found = 0 THEN 1 ELSE found
    BY DEF count_gates
  <2> HIDE DEF found, gates, count
  <2>3. QED
    BY <2>1, <2>2
<1>7. ASSUME OneStatementPerLine PROVE qubits = total_qubits /\ count = most
  <2>1. OnePerLine(program)
    BY <1>7 DEF OneStatementPerLine, OnePerLine
  <2>2. qubits = total_qubits
    BY <1>1, <1>3, <2>1, TotalsAgree DEF CountsRead
  <2>3. QED
    BY <1>1, <2>1, <2>2, GatesAgree DEF count_gates, GateStatements
<1>8. OneStatementPerLine' = OneStatementPerLine /\ GateStatements' = GateStatements
  BY <1>2 DEF OneStatementPerLine, GateStatements
<1>9. ASSUME NEW found \in reply'.counts
      PROVE  found.qubit_count = qubits /\ found.gate_count = count
  <2> HIDE DEF qubits, count
  <2>1. QED
    BY <1>2, <1>9
<1> HIDE DEF lines, qubits, count
<1>10. QED
  BY <1>2, <1>4, <1>5, <1>6, <1>7, <1>8, <1>9 DEF MetadataMatches

\* Of no accepted circuit, however it is laid out and registers are declared
\* again in it, does the worker store more qubits or gates than it has; with one
\* statement per line it stores all, and only a circuit with semicolons that
\* end no statement goes without counts.
THEOREM MetadataIsRight == RequestSpec => []MetadataMatches
<1> DEFINE Inv == ValidatorInv /\ CountsRead /\ MetadataMatches
<1>1. RequestInit => Inv
  <2>1. RequestInit => ValidatorInv /\ CountsRead
    BY InitInv, CountsInit DEF RequestInit
  <2>2. RequestInit => MetadataMatches
    BY DEF RequestInit, MetadataMatches, Nothing
  <2>3. QED
    BY <2>1, <2>2
<1>2. Inv /\ [RequestNext]_requestVars => Inv'
  <2> SUFFICES ASSUME Inv, [RequestNext]_requestVars PROVE Inv'
    OBVIOUS
  <2>1. ValidatorInv' /\ CountsRead'
    BY RequestStep, StepKeepsInv, CountsStep
  <2>2. CASE ValidateStep
    <3>1. reply'.call = "none"
      BY <2>2 DEF ValidateStep, Nothing
    <3>2. QED
      BY <2>1, <3>1 DEF MetadataMatches
  <2>3. CASE Optimise
    <3>1. reply'.call \in {"failed", "optimise"}
      BY <2>3 DEF Optimise
    <3>2. QED
      BY <2>1, <3>1 DEF MetadataMatches
  <2>4. CASE SelectProvider
    <3>1. reply'.call = "select"
      <4>1. PICK ibm, answer :
              reply' = [call |-> "select", ibm |-> ibm, response |-> answer]
        BY <2>4 DEF SelectProvider
      <4>2. QED
        BY <4>1
    <3>2. QED
      BY <2>1, <3>1 DEF MetadataMatches
  <2>5. CASE Execute
    BY <2>1, <2>5, ExecuteMatches
  <2>6. CASE UNCHANGED requestVars
    BY <2>1, <2>6 DEF requestVars, vars, MetadataMatches, OneStatementPerLine, GateStatements
  <2>7. QED
    BY <2>2, <2>3, <2>4, <2>5, <2>6 DEF RequestNext
<1>3. QED
  BY <1>1, <1>2, PTL DEF RequestSpec

-----------------------------------------------------------------------------
\* What the optimiser returns, whatever the strategy.
LEMMA OptimiseReplies ==
  ASSUME ValidatorInv, Optimise
  PROVE  /\ program \in Programs /\ program' = program /\ splitlines(program) \in Lines
         /\ \/ reply'.call = "failed"
            \/ \E strategy \in Strategies, noise_aware \in BOOLEAN :
                 reply'.result = optimise_circuit(splitlines(program), strategy, noise_aware)
<1>1. program \in Programs /\ program' = program
  BY DEF ValidatorInv, Optimise, vars
<1>2. splitlines(program) \in Lines
  BY <1>1, LinesOfProgram
<1>3. \/ reply'.call = "failed"
      \/ \E strategy \in Strategies, noise_aware \in BOOLEAN :
           reply'.result = optimise_circuit(splitlines(program), strategy, noise_aware)
  <2>1. PICK strategy \in Strategies, noise_aware \in BOOLEAN :
          reply' = IF Uncountable(splitlines(program)) \/ Unreadable(splitlines(program))
                   THEN [call |-> "failed"]
                   ELSE [call |-> "optimise",
                         result |-> optimise_circuit(splitlines(program), strategy, noise_aware)]
    BY DEF Optimise
  <2>2. QED
    BY <2>1
<1>4. QED
  BY <1>1, <1>2, <1>3

\* The two facts above, of the reply to one call.
LEMMA OptimiseIsRight ==
  ASSUME ValidatorInv, Optimise
  PROVE  OptimisedIsEquivalent' /\ MappingIsPermutation'
<1> DEFINE lines == splitlines(program)
<1>1. /\ program \in Programs /\ program' = program /\ lines \in Lines
      /\ \/ reply'.call = "failed"
         \/ \E strategy \in Strategies, noise_aware \in BOOLEAN :
              reply'.result = optimise_circuit(lines, strategy, noise_aware)
  BY OptimiseReplies
<1>2. CASE reply'.call = "failed"
  BY <1>2 DEF OptimisedIsEquivalent, MappingIsPermutation
<1>3. CASE \E strategy \in Strategies, noise_aware \in BOOLEAN :
             reply'.result = optimise_circuit(lines, strategy, noise_aware)
  <2>1. PICK strategy \in Strategies, noise_aware \in BOOLEAN :
          reply'.result = optimise_circuit(lines, strategy, noise_aware)
    BY <1>3
  <2>2. ASSUME OneStatementPerLine
        PROVE  Simplified(reply'.result.optimised_qasm) = Simplified(lines)
    <3>1. OnePerLine(program)
      BY <2>2 DEF OneStatementPerLine, OnePerLine
    <3>2. Len(lines) = LastLine(program)
      BY <1>1, LinesOfProgram
    <3>3. \A k \in 1 .. Len(lines) : Len(lines[k]) <= 1
      <4>1. \A k \in 1 .. LastLine(program) :
              lines[k] = <<>> \/ lines[k] = <<program[Before(program, k) + 1]>>
        BY <1>1, <3>1, OneOrNone
      <4>2. \A x : Len(<<x>>) = 1 /\ Len(<<>>) = 0
        OBVIOUS
      <4> HIDE DEF lines
      <4>3. ASSUME NEW k \in 1 .. Len(lines) PROVE Len(lines[k]) <= 1
        <5>1. CASE lines[k] = <<>>
          BY <4>2, <5>1
        <5>2. CASE lines[k] = <<program[Before(program, k) + 1]>>
          BY <4>2, <5>2
        <5>3. QED
          BY <3>2, <4>1, <5>1, <5>2
      <4>4. QED
        BY <4>3
    <3> HIDE DEF lines
    <3>4. Simplified(optimised_qasm(lines, strategy)) = Simplified(lines)
      BY <1>1, <3>3, OptimisedIsSimplified
    <3>5. reply'.result.optimised_qasm = optimised_qasm(lines, strategy)
      BY <2>1 DEF optimise_circuit
    <3>6. QED
      BY <3>4, <3>5
  <2>3. OptimisedIsEquivalent'
    <3>1. OneStatementPerLine' = OneStatementPerLine
      BY <1>1 DEF OneStatementPerLine
    <3>2. QED
      BY <1>1, <2>2, <3>1 DEF OptimisedIsEquivalent
  <2>4. MappingIsPermutation'
    <3> HIDE DEF lines
    <3>1. ASSUME NEW d \in Declarations(lines), Declarations(lines) = {d}
          PROVE  LET mapping == reply'.result.qubit_mapping
                     qubits == 0 .. DeclaredSize(lines[d]) - 1
                 IN DOMAIN mapping = qubits /\ { mapping[q] : q \in qubits } = qubits
      BY <1>1, <2>1, <3>1, MappingPermutes
    <3>2. QED
      BY <1>1, <3>1 DEF MappingIsPermutation, lines
  <2>5. QED
    BY <2>3, <2>4
<1>4. QED
  BY <1>1, <1>2, <1>3

\* No other call answers for the optimiser.
LEMMA OptimiserStep ==
  ASSUME ValidatorInv, OptimisedIsEquivalent, MappingIsPermutation, [RequestNext]_requestVars
  PROVE  OptimisedIsEquivalent' /\ MappingIsPermutation'
<1>1. CASE ValidateStep
  <2>1. reply'.call = "none"
    BY <1>1 DEF ValidateStep, Nothing
  <2>2. QED
    BY <2>1 DEF OptimisedIsEquivalent, MappingIsPermutation
<1>2. CASE Optimise
  BY <1>2, OptimiseIsRight
<1>3. CASE Execute
  <2>1. reply'.call = "execute"
    BY <1>3 DEF Execute
  <2>2. QED
    BY <2>1 DEF OptimisedIsEquivalent, MappingIsPermutation
<1>4. CASE SelectProvider
  <2>1. PICK ibm, answer :
          reply' = [call |-> "select", ibm |-> ibm, response |-> answer]
    BY <1>4 DEF SelectProvider
  <2>2. reply'.call = "select"
    BY <2>1
  <2>3. QED
    BY <2>2 DEF OptimisedIsEquivalent, MappingIsPermutation
<1>5. CASE UNCHANGED requestVars
  BY <1>5 DEF requestVars, vars, OptimisedIsEquivalent, OneStatementPerLine, MappingIsPermutation
<1>6. QED
  BY <1>1, <1>2, <1>3, <1>4, <1>5 DEF RequestNext

LEMMA OptimiserInvariance == RequestSpec => [](OptimisedIsEquivalent /\ MappingIsPermutation)
<1> DEFINE Inv == ValidatorInv /\ OptimisedIsEquivalent /\ MappingIsPermutation
<1>1. RequestInit => Inv
  BY InitInv DEF RequestInit, OptimisedIsEquivalent, MappingIsPermutation, Nothing
<1>2. Inv /\ [RequestNext]_requestVars => Inv'
  BY RequestStep, StepKeepsInv, OptimiserStep
<1>3. QED
  BY <1>1, <1>2, PTL DEF RequestSpec

\* Of a circuit of any length with one statement per line, optimise_circuit
\* drops only gates that undo each other, in runs of any length.
THEOREM OptimiserKeepsTheCircuit == RequestSpec => []OptimisedIsEquivalent
BY OptimiserInvariance, PTL

\* However large the one register of a circuit is, each logical qubit has a
\* physical one of its own, noise-aware or not, optimised or not.
THEOREM MappingIsOneToOne == RequestSpec => []MappingIsPermutation
BY OptimiserInvariance, PTL
=============================================================================

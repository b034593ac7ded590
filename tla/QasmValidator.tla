----------------------------- MODULE QasmValidator -----------------------------
(***************************************************************************)
(* validate_qasm: the gate every circuit passes before a job exists.  The  *)
(* text is already cut into statements; one action per iteration of the    *)
(* loop that goes over them.                                               *)
(***************************************************************************)
EXTENDS Naturals, Sequences

CONSTANTS
  Programs,          \* the circuits clients may send
  Names,             \* names of registers
  Gates, SUPPORTED_GATES,
  MAX_QUBITS

\* "empty": semicolons with no statement before them, as in ";;" on a line.
Kinds == {"header", "include", "qreg", "creg", "measure", "gate", "other", "empty"}

\* What the patterns of the validator read off a statement: its line, the
\* keyword it starts with, whether it ends with a semicolon and matches the
\* pattern of its keyword, and its name[number] parts in order.  The gate is
\* its first word up to a parenthesis: "rx(0.5)q[9];" and "h;" are "other",
\* for the pattern of gates wants a space, yet their words are gates.
Statement ==
  [line : Nat, kind : Kinds, gate : Gates, semi : BOOLEAN, formed : BOOLEAN,
   refs : Seq(Names \X Nat)]

Arity(s) ==
  /\ s.kind \in {"qreg", "creg"} /\ s.formed => Len(s.refs) = 1
  /\ s.kind = "measure" /\ s.formed => Len(s.refs) = 2

\* The statements come in the order of the text, whose lines count from one.
InTextOrder(p) ==
  \A i, k \in DOMAIN p : p[i].line >= 1 /\ (i <= k => p[i].line <= p[k].line)

ASSUME ProgramsAssumption ==
  /\ MAX_QUBITS \in Nat
  /\ \A p \in Programs :
       p \in Seq(Statement) /\ InTextOrder(p) /\ \A i \in DOMAIN p : Arity(p[i])

VARIABLES
  program,
  pos,            \* the next statement
  qregs, cregs,   \* declared size of each register, 0 when not declared
  total_qubits,
  verdict

vars == <<program, pos, qregs, cregs, total_qubits, verdict>>

-----------------------------------------------------------------------------
\* Mutant: the index may equal the size.
InRangeInclusive(regs, ref) == regs[ref[1]] > 0 /\ ref[2] <= regs[ref[1]]

\* The register is declared and the index is below its size.
InRange(regs, ref) == ref[2] < regs[ref[1]]

Reads(kind) == verdict = "open" /\ pos <= Len(program) /\ program[pos].kind = kind
Current == program[pos]
Size == Current.refs[1][2]

Advance == pos' = pos + 1 /\ UNCHANGED <<program, verdict>>
Declared == UNCHANGED <<qregs, cregs, total_qubits>>

Init ==
  /\ program \in Programs
  /\ pos = 1
  /\ qregs = [r \in Names |-> 0]
  /\ cregs = [r \in Names |-> 0]
  /\ total_qubits = 0
  /\ verdict = "new"

HasHeader ==
  Len(program) > 0 /\ program[1].line = 1 /\ program[1].kind = "header"

CheckHeader ==
  /\ verdict = "new"
  /\ verdict' = IF HasHeader THEN "open" ELSE "rejected"
  /\ UNCHANGED <<program, pos, qregs, cregs, total_qubits>>

\* Headers, includes, what is empty, and unknown statements that end with a
\* semicolon.
Skip ==
  /\ \/ Reads("header") \/ Reads("include") \/ Reads("empty")
     \/ Reads("other") /\ Current.semi
  /\ Advance /\ Declared

\* Mutant: the limit is compared before the register is added.
QregFitsLate == Current.formed /\ total_qubits <= MAX_QUBITS

QregFits == Current.formed /\ total_qubits + Size <= MAX_QUBITS

\* A register declared again replaces the first one and counts twice.
DeclareQubits ==
  /\ Reads("qreg") /\ QregFits
  /\ qregs' = [qregs EXCEPT ![Current.refs[1][1]] = Size]
  /\ total_qubits' = total_qubits + Size
  /\ Advance /\ UNCHANGED cregs

DeclareBits ==
  /\ Reads("creg") /\ Current.formed
  /\ cregs' = [cregs EXCEPT ![Current.refs[1][1]] = Size]
  /\ Advance /\ UNCHANGED <<qregs, total_qubits>>

Measurable ==
  /\ Current.semi /\ Current.formed
  /\ InRange(qregs, Current.refs[1]) /\ InRange(cregs, Current.refs[2])

Measure == Reads("measure") /\ Measurable /\ Advance /\ Declared

\* Only operands written name[index] are looked up.
Applicable ==
  /\ Current.gate \in SUPPORTED_GATES
  /\ Current.semi
  /\ \A k \in DOMAIN Current.refs : InRange(qregs, Current.refs[k])

ApplyGate == Reads("gate") /\ Applicable /\ Advance /\ Declared

\* The first problem ends the validation.
Reject ==
  /\ \/ Reads("qreg") /\ ~ QregFits
     \/ Reads("creg") /\ ~ Current.formed
     \/ Reads("measure") /\ ~ Measurable
     \/ Reads("gate") /\ ~ Applicable
     \/ Reads("other") /\ ~ Current.semi
  /\ verdict' = "rejected"
  /\ UNCHANGED <<program, pos, qregs, cregs, total_qubits>>

Accept ==
  /\ verdict = "open" /\ pos > Len(program)
  /\ verdict' = "accepted"
  /\ UNCHANGED <<program, pos, qregs, cregs, total_qubits>>

Next ==
  \/ CheckHeader \/ Skip \/ DeclareQubits \/ DeclareBits
  \/ Measure \/ ApplyGate \/ Reject \/ Accept

Spec == Init /\ [][Next]_vars

-----------------------------------------------------------------------------
\* A position in the program and registers within the limit, singly and in sum.
TypeOK ==
  /\ pos \in 1 .. Len(program) + 1
  /\ qregs \in [Names -> 0 .. MAX_QUBITS]
  /\ cregs \in [Names -> Nat]
  /\ total_qubits \in 0 .. MAX_QUBITS
  /\ verdict \in {"new", "open", "accepted", "rejected"}

\* A statement before i of program p declares a register that has ref.
DeclaredBefore(p, i, kind, ref) ==
  \E k \in 1 .. i - 1 :
    /\ p[k].kind = kind /\ p[k].formed
    /\ p[k].refs[1][1] = ref[1] /\ ref[2] < p[k].refs[1][2]

OperandsExist(p, i) ==
  /\ p[i].kind = "gate" =>
       \A n \in DOMAIN p[i].refs : DeclaredBefore(p, i, "qreg", p[i].refs[n])
  /\ p[i].kind = "measure" =>
       /\ DeclaredBefore(p, i, "qreg", p[i].refs[1])
       /\ DeclaredBefore(p, i, "creg", p[i].refs[2])

\* In an accepted circuit every indexed operand of every gate and measurement
\* is in a register that an earlier statement declares with that many qubits
\* or bits, however registers are declared again in between.
AcceptedOperandsExist ==
  verdict = "accepted" => \A i \in DOMAIN program : OperandsExist(program, i)
=============================================================================

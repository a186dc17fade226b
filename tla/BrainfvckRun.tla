---------------------------- MODULE BrainfvckRun ----------------------------
(***************************************************************************)
(* A Brainfuck program and the code it was compiled to, run side by side.  *)
(* They take turns until each waits: for a character to be written or      *)
(* read, or at its end; then they write or read it together.               *)
(*                                                                         *)
(* The code runs line by line.  It only uses registers, what A points at   *)
(* and jumps to its own labels, and a label is where its line is           *)
(* (Assembler's LabelsMeetCode), as long as every operand is one byte.     *)
(***************************************************************************)
EXTENDS BrainfuckLanguage, Brainfvck

CONSTANT Sources   \* the Brainfuck programs

VARIABLES
    code,        \* what compile made of the program
    line,
    registers,   \* A, B and C
    ram,         \* what a register can point at, from first_sector
    zero,        \* the zero flag
    turn         \* which of the two may go on when neither waits

machine == <<code, line, registers, ram, zero>>
vars == <<language, machine, turn>>

Registers == 1 .. 3

ASSUME BrainfvckAssumption ==
    /\ CellRange > 2
    /\ Header \in [{1, 2} -> MemCell]
    /\ Sources \subseteq Seq({"+", "-", "<", ">", "[", "]", ".", ",", "#"})

-----------------------------------------------------------------------------
OperandsAreBytes(lines) ==
    \A k \in 1 .. Len(lines) : lines[k].kind = "instruction" =>
        \A i \in 1 .. Len(lines[k].args) :
            lines[k].args[i].shape = "number" => lines[k].args[i].value < CellRange

op == IF line =< Len(code) /\ code[line].kind = "instruction" THEN code[line].what ELSE NOP
dst == code[line].args[1]
src == code[line].args[2]

Waits == op \in {PRINT, INPUT, HALT}

Value(x) ==
    CASE x.bracketed -> ram[registers[x.value]]
      [] x.shape = "register" /\ ~ x.bracketed -> registers[x.value]
      [] OTHER -> Cell(x.value)

NextLine == line' = line + 1 /\ UNCHANGED code

Store(x, v) ==
    IF x.bracketed
    THEN ram' = [ram EXCEPT ![registers[x.value]] = v] /\ UNCHANGED registers
    ELSE registers' = [registers EXCEPT ![x.value] = v] /\ UNCHANGED ram

ComputeUncast(a, b) ==
    CASE op = MOV -> b
      [] op = ADD -> a + b
      [] op = SUB -> a - b
      [] op = MUL -> a * b
Compute(a, b) ==
    CASE op = MOV -> b
      [] op = ADD -> Cell(a + b)
      [] op = SUB -> Cell(a - b)
      [] op = MUL -> Cell(a * b)

PassLine ==
    /\ line =< Len(code)
    /\ code[line].kind # "instruction"
    /\ NextLine
    /\ UNCHANGED <<registers, ram, zero>>

Calculate ==
    /\ op \in {MOV, ADD, SUB, MUL}
    /\ Store(dst, Compute(Value(dst), Value(src)))
    /\ NextLine
    /\ UNCHANGED zero

Compare ==
    /\ op = CMP
    /\ zero' = (Value(dst) = Value(src))
    /\ NextLine
    /\ UNCHANGED <<registers, ram>>

Jump ==
    /\ op \in {JE, JNE}
    /\ line' = IF zero = (op = JE)
               THEN SelectInSeq(code, LAMBDA l : l = Label(dst.value))
               ELSE line + 1
    /\ UNCHANGED <<code, registers, ram, zero>>

Instructions == PassLine \/ Calculate \/ Compare \/ Jump

-----------------------------------------------------------------------------
LanguageStep ==
    /\ code # <<>>
    /\ turn = "language" \/ Waits
    /\ Command
    /\ turn' = "machine"
    /\ UNCHANGED machine

MachineStep ==
    /\ turn = "machine" \/ AtIO
    /\ Instructions
    /\ turn' = "language"
    /\ UNCHANGED language

WriteBoth ==
    /\ op = PRINT
    /\ Write
    /\ NextLine
    /\ UNCHANGED <<registers, ram, zero, turn>>

ReadBoth(v) ==
    /\ op = INPUT
    /\ Read(v)
    /\ Store(dst, v)
    /\ NextLine
    /\ UNCHANGED <<zero, turn>>

Init ==
    /\ chars \in Sources
    /\ code = compile(chars)
    /\ OperandsAreBytes(code)
    /\ at = 1
    /\ pointer = 2
    /\ cells = FirstCells
    /\ line = 1
    /\ registers = [r \in Registers |-> 0]
    /\ ram = FirstCells
    /\ zero = FALSE
    /\ turn = "language"

Next ==
    \/ LanguageStep \/ MachineStep
    \/ WriteBoth \/ (\E v \in MemCell : ReadBoth(v))

Spec == Init /\ [][Next]_vars /\ WF_vars(Next)

-----------------------------------------------------------------------------
TypeOK ==
    /\ chars \in Sources
    /\ at \in 1 .. (Len(chars) + 1)
    /\ pointer \in MemCell
    /\ cells \in [MemCell -> MemCell]
    /\ line \in 1 .. (Len(code) + 1)
    /\ registers \in [Registers -> MemCell]
    /\ ram \in [MemCell -> MemCell]
    /\ zero \in BOOLEAN
    /\ turn \in {"language", "machine"}

\* compile's two exceptions: a program is rejected exactly when its brackets do
\* not match.
RejectsUnbalanced == (code = <<>>) <=> ~ Balanced(chars)

\* Whenever both wait, the code waits for what the program waits for, with the
\* same tape and A at the pointer: folding runs, clearing cells and replacing
\* loops by multiplications cannot be seen from outside.
SameAtIO ==
    AtIO /\ Waits =>
        /\ op = CASE this = "." -> PRINT [] this = "," -> INPUT [] this = "end" -> HALT
        /\ registers[1] = pointer
        /\ ram = cells

\* The code comes to its next character or its end exactly when the program
\* does: no loop that goes on for ever is replaced by code that ends, or the
\* other way round.
WaitTogether ==
    /\ (AtIO /\ code # <<>>) ~> Waits
    /\ Waits ~> AtIO
=============================================================================

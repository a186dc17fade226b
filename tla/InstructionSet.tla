--------------------------- MODULE InstructionSet ---------------------------
(***************************************************************************)
(* The numbers that the assembler writes and the processor reads: opcodes  *)
(* (src/main.cpp, and the cases of VM::exec's switch) and argument types   *)
(* (include/Type.hpp); and the lines of assembly they are written in.      *)
(***************************************************************************)
EXTENDS Integers

\* The instruction set (src/main.cpp), in the order of exec's switch.
NOP == 0
MOV == 18
PRINT == 1
PRINTFLUSH == 16
ADD == 50
SUB == 82
MUL == 114
DIV == 146
INPUT == 33
JMP == 49
CMP == 178
JE == 65
JNE == 81
JG == 97
JNG == 113
SPUSH == 129
SPOP == 145
HALLOC == 194
HFREE == 161
CALL == 177
RET == 32
FBSET == 210
FBSYNC == 48
HALT == 255

\* The types of an argument (include/Type.hpp).
NUMBER == 0
REGISTER == 1
ADDRESS == 2
INDIRECT_REG == 3
INDIRECT_MEM == 4
INDIRECT_LBL == 5
NUMBER_16 == 6

\* The types whose value takes two bytes.  NUMBER_16's does too, but only
\* fetch_argument says so.
Wide == {ADDRESS, INDIRECT_LBL, INDIRECT_MEM}

\* The n_args of each signature in the instruction table.
NoArguments == {NOP, PRINTFLUSH, RET, FBSYNC, HALT}
OneArgument == {PRINT, INPUT, JMP, JE, JNE, JG, JNG, SPUSH, SPOP, HFREE, CALL}
TwoArguments == {MOV, ADD, SUB, MUL, DIV, CMP, HALLOC, FBSET}

(* A line of assembly.  A mnemonic is its opcode, a label a number (start is *)
(* 0), a register its number in main.cpp's regmap.                           *)
start == 0
Plain(shape, v) == [shape |-> shape, bracketed |-> FALSE, value |-> v]
InBrackets(shape, v) == [shape |-> shape, bracketed |-> TRUE, value |-> v]

Label(l) == [kind |-> "label", what |-> l, args |-> <<>>]
Skip(args) == [kind |-> "skip", what |-> 0, args |-> args]
Instruction(op, args) == [kind |-> "instruction", what |-> op, args |-> args]
=============================================================================

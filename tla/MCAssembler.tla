---------------------------- MODULE MCAssembler ----------------------------
(* Every program of up to three lines from a menu: the label start, two other
   labels, .skip with a size that fills more than one byte of an address,
   without one and with one too many, and instructions with every shape of
   argument.  Then two programs as the Brainfuck compiler writes them. *)
EXTENDS Assembler

Menu == {
    Label(start), Label(1), Label(2),
    Skip(<<Plain("number", 300)>>), Skip(<<>>),
    Skip(<<Plain("number", 1), Plain("number", 1)>>),
    Instruction(HALT, <<>>),
    Instruction(JMP, <<Plain("name", 1)>>),
    Instruction(JE, <<Plain("name", start)>>),
    Instruction(CALL, <<Plain("symbol", 2)>>),
    Instruction(MOV, <<InBrackets("number", 500), Plain("register", 1)>>),
    Instruction(CMP, <<InBrackets("register", 2), Plain("number", -1)>>),
    Instruction(FBSET, <<Plain("number", 400), InBrackets("name", 1)>>),
    Instruction(ADD, <<Plain("register", 1)>>)}

\* What the Brainfuck compiler hands to the assembler.
BF == INSTANCE Brainfvck
Compiled == {BF!compile(p) : p \in {
    <<",", "[", "-", ">", "+", "<", "]", ">", ".">>,
    <<",", "[", ">", "[", ".", "-", "]", "<", "-", "]">>}}

MCPrograms == Compiled \cup UNION {[1 .. n -> Menu] : n \in 0 .. 3}
=============================================================================

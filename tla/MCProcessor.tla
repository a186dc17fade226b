---------------------------- MODULE MCProcessor ----------------------------
(* Small programs for TLC: every sequence of three instructions of a menu,
   each in a slot of six bytes padded with NOPs, then HALT.  The registers A
   and B are 1 and 2; addresses are relative to first_sector except those of
   CALL and HFREE, which the code does not relocate. *)
EXTENDS Processor

SlotSize == 6
Slot(n) == 2 + SlotSize * (n - 1)

Gui == gui_byte - first_sector
Dimension == heap_start + 1 - first_sector
Beyond == stack_top - first_sector

\* An argument of two bytes.
Word16(t, v) == <<t, High(v), Low(v)>>

Menu == {
    <<MOV, REGISTER, 1, NUMBER, 2>>,
    <<MOV, INDIRECT_REG, 1, NUMBER, 7>>,
    <<MOV>> \o Word16(ADDRESS, Gui) \o <<NUMBER, 1>>,
    <<MOV>> \o Word16(INDIRECT_MEM, Beyond) \o <<NUMBER, 1>>,
    <<MOV, NUMBER, 3, REGISTER, 1>>,
    <<MOV, REGISTER, 9, REGISTER, 1>>,
    <<ADD, REGISTER, 1, NUMBER, 254>>,
    <<SUB, REGISTER, 1, NUMBER, 1>>,
    <<MUL, REGISTER, 1, REGISTER, 1>>,
    <<DIV, REGISTER, 1, REGISTER, 2>>,
    <<DIV, REGISTER, 1, NUMBER, 2>>,
    <<PRINT, INDIRECT_REG, 2>>,
    <<PRINTFLUSH>>,
    <<INPUT, REGISTER, 2>>,
    <<JMP>> \o Word16(ADDRESS, Slot(3)),
    <<JMP, NUMBER, 8>>,
    <<CMP, REGISTER, 1, REGISTER, 2>>,
    <<CMP, REGISTER, 1, NUMBER_16, 0, 1>>,
    <<JE>> \o Word16(ADDRESS, Slot(1)),
    <<JNE, NUMBER, Slot(3)>>,
    <<JG>> \o Word16(INDIRECT_LBL, 0),
    <<JNG>> \o Word16(INDIRECT_MEM, 1),
    <<SPUSH, REGISTER, 1>>,
    <<SPUSH>> \o Word16(INDIRECT_MEM, 0),
    <<SPUSH, NUMBER, 1>>,
    <<SPOP, REGISTER, 2>>,
    <<SPOP>> \o Word16(ADDRESS, 0),
    <<SPOP, NUMBER, 1>>,
    <<HALLOC, REGISTER, 1, NUMBER, 4>>,
    <<HALLOC, REGISTER, 2, REGISTER, 1>>,
    <<HALLOC, NUMBER, 0, NUMBER, 1>>,
    <<HALLOC, REGISTER, 2, NUMBER, 20>>,
    <<MOV>> \o Word16(ADDRESS, Dimension) \o <<NUMBER, 30>>,
    <<HFREE, REGISTER, 1>>,
    <<HFREE>> \o Word16(ADDRESS, 0),
    <<HFREE>> \o Word16(ADDRESS, stack_top),
    <<CALL>> \o Word16(ADDRESS, first_sector + Slot(1)),
    <<CALL>> \o Word16(ADDRESS, first_sector + Slot(3)),
    <<CALL, REGISTER, 1>>,
    <<RET>>,
    <<FBSET, REGISTER, 1, NUMBER, 9>>,
    <<FBSET, NUMBER_16, 0, 3, REGISTER, 1>>,
    <<FBSET, INDIRECT_REG, 2, NUMBER, 1>>,
    <<FBSYNC>>,
    <<HALT>>,
    <<7>>}

Padded(instruction) ==
    [k \in 1 .. SlotSize |-> IF k =< Len(instruction) THEN instruction[k] ELSE NOP]

Image(program) ==
    LET bytes == <<0, 2>> \o Padded(program[1]) \o Padded(program[2])
                   \o Padded(program[3]) \o <<HALT>>
    IN  [a \in first_sector .. (heap_start - 1) |-> bytes[a - first_sector + 1]]

MCImages == {Image(program) : program \in [1 .. 3 -> Menu]}
MCInputs == {0, 200}
=============================================================================

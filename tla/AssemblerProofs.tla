-------------------------- MODULE AssemblerProofs --------------------------
(***************************************************************************)
(* Theorems about Assembler, for programs of any length.                   *)
(***************************************************************************)
EXTENDS Assembler, CommonProofs, SequenceTheorems

\* What the second pass emits for an argument that NUMBER_16 is not for.
EncodedSize(x) == SizeOf(SecondPassType(x))

\* The bytes of a line, by what the second pass emits.
LineSize(l) ==
    IF l.kind = "label" THEN 0
    ELSE IF l.kind = "skip" THEN l.args[1].value
    ELSE 1 + (IF Len(l.args) >= 1 THEN EncodedSize(l.args[1]) ELSE 0)
           + (IF Len(l.args) = 2 THEN EncodedSize(l.args[2]) ELSE 0)

Agreeing == LabelsAreNames /\ NumbersAreBytes
Agreed == LabelsOnce /\ Agreeing
Passing == pass \in {"first", "second", "done"}
Settled == pass \in {"second", "done"}

\* The first pass has met line k.
Met(k) == pass = "first" => k < line

\* The first pass has counted up to each line it has met.
Counted ==
    /\ pass = "first" => Len(dimension_at) = line /\ current_dimension = dimension_at[line]
    /\ Settled => Len(dimension_at) = Len(program) + 1
    /\ Passing => dimension_at[1] = 2
    /\ \A k \in 1 .. Len(dimension_at) : dimension_at[k] \in 2 .. current_dimension

\* It has let through only lines it knows, and has counted what will be emitted.
SizesAgree ==
    Passing => \A k \in Lines : Met(k) =>
        /\ program[k].kind = "skip" => program[k].args # <<>>
        /\ IsInstruction(k) => HasSignature(program[k].what, program[k].args)
        /\ Agreeing => dimension_at[k + 1] = dimension_at[k] + LineSize(program[k])

LabelsNoted ==
    Passing => \A k \in Lines : Met(k) /\ IsLabel(k) =>
        /\ program[k].what \in DOMAIN addresses_of_labels
        /\ LabelsOnce => addresses_of_labels[program[k].what] = Addr(dimension_at[k])

\* It knows no other labels, but that start is made up with address 0.
LabelsDefined ==
    Passing => \A l \in DOMAIN addresses_of_labels :
        \/ \E k \in Lines : Met(k) /\ IsLabel(k) /\ program[k].what = l
        \/ Settled /\ l = start /\ addresses_of_labels[l] = 0

\* The header has the address of start.
HeaderWritten ==
    Settled =>
        /\ start \in DOMAIN addresses_of_labels
        /\ Len(codes) >= 2
        /\ codes[1] = High(addresses_of_labels[start])
        /\ codes[2] = IF addresses_of_labels[start] = 0 THEN 2
                      ELSE Low(addresses_of_labels[start])

\* fetch_argument and ReadBack, of any bytes.
Fetched(cs, o) ==
    LET type == cs[o + 1]
    IN  IF type \in Wide \cup {NUMBER_16}
        THEN [type |-> type, value |-> Join(cs[o + 2], cs[o + 3]), next |-> o + 3]
        ELSE [type |-> type, value |-> cs[o + 2], next |-> o + 2]

ReadFrom(cs, k) ==
    LET args == program[k].args
        o == dimension_at[k]
        first == Fetched(cs, o + 1)
        second == Fetched(cs, first.next)
    IN  /\ cs[o + 1] = program[k].what
        /\ Len(args) >= 1 => Reads(first, args[1])
        /\ Len(args) = 2 => Reads(second, args[2])
        /\ dimension_at[k + 1] = CASE Len(args) = 0 -> o + 1
                                   [] Len(args) = 1 -> first.next
                                   [] Len(args) = 2 -> second.next

\* The lines that the second pass has left behind.
Behind(k) == pass = "second" => k < line

\* What it has emitted for them can be read back, and it only emits more.
Readable ==
    Settled /\ Agreed => \A k \in Lines : Behind(k) /\ IsInstruction(k) =>
        dimension_at[k + 1] =< Len(codes) /\ ReadFrom(codes, k)

\* The second pass has emitted what the first has counted.
Emitted == pass = "second" /\ Agreeing => Len(codes) = dimension_at[line]

USE DEF this

IInv ==
    /\ TypeOK /\ Counted /\ SizesAgree /\ LabelsNoted /\ Emitted
    /\ LabelsDefined /\ HeaderWritten /\ Readable

-----------------------------------------------------------------------------
(* Arguments. *)

LEMMA CellsAreWide == /\ CellRange \in Nat /\ 256 =< CellRange
                      /\ AddrRange \in Nat /\ AddrRange > 1
BY AssemblerAssumption, WordRanges

LEMMA CellOfCell ==
    ASSUME NEW v \in MemCell
    PROVE  Cell(v) = v
<1>1. v \in Nat /\ v < CellRange /\ CellRange \in Nat /\ CellRange > 0
  BY CellsAreWide DEF MemCell
<1>2. v % CellRange = v
  BY <1>1, Z3
<1>. QED
  BY <1>2 DEF Cell

LEMMA ArgumentTypes ==
    ASSUME NEW x \in Argument
    PROVE  /\ x.shape \in Shapes /\ x.bracketed \in BOOLEAN /\ x.value \in Int
           /\ x.shape = "register" => x.value \in MemCell
<1>1. CASE x \in [shape : Shapes \ {"register"}, bracketed : BOOLEAN, value : Int]
  BY <1>1
<1>2. CASE x \in [shape : {"register"}, bracketed : BOOLEAN, value : MemCell]
  <2>1. x.shape = "register" /\ x.bracketed \in BOOLEAN /\ x.value \in MemCell
    BY <1>2
  <2>2. x.value \in Int
    BY <2>1, CellsAreWide DEF MemCell
  <2>. QED
    BY <2>1, <2>2 DEF Shapes
<1>. QED
  BY <1>1, <1>2 DEF Argument

\* The two passes give an argument types of the same size, but for numbers of
\* 256 or more and labels that begin with a symbol.
LEMMA SameSize ==
    ASSUME NEW x \in Argument, x.shape # "symbol",
           x.shape = "number" /\ ~ x.bracketed => x.value < CellRange
    PROVE  SizeOf(FirstPassType(x)) = EncodedSize(x)
<1>1. x.shape \in {"number", "register", "name"} /\ x.bracketed \in BOOLEAN /\ x.value \in Int
  BY ArgumentTypes DEF Shapes
<1>2. CASE x.bracketed
  BY <1>2 DEF FirstPassType, SecondPassType, EncodedSize
<1>3. CASE ~ x.bracketed /\ x.shape = "number"
  BY <1>1, <1>3, CellsAreWide DEF FirstPassType, SecondPassType, EncodedSize
<1>4. CASE ~ x.bracketed /\ x.shape = "register"
  BY <1>4 DEF FirstPassType, SecondPassType, EncodedSize
<1>5. CASE ~ x.bracketed /\ x.shape = "name"
  BY <1>5 DEF FirstPassType, SecondPassType, EncodedSize
<1>. QED
  BY <1>1, <1>2, <1>3, <1>4, <1>5

LEMMA SizesAreNat ==
    ASSUME NEW x
    PROVE  SizeOf(FirstPassType(x)) \in Nat /\ EncodedSize(x) \in Nat
BY DEF SizeOf, EncodedSize

\* The conversions of any integer, not only of an address, are bytes.
LEMMA BytesOfInt ==
    ASSUME NEW v \in Int
    PROVE  High(v) \in MemCell /\ Low(v) \in MemCell /\ Cell(v) \in MemCell
<1>1. v \div CellRange \in Int
  BY CellsAreWide
<1>. QED
  BY <1>1, CellsAreWide DEF High, Low, Cell, MemCell

\* On agreeing programs NUMBER_16 is not used.
LEMMA NumbersFit ==
    ASSUME NEW x \in Argument, x.shape = "number" /\ ~ x.bracketed => x.value < CellRange
    PROVE  SecondPassType(x) # NUMBER_16
<1>1. x.shape \in Shapes /\ x.bracketed \in BOOLEAN /\ x.value \in Int
  BY ArgumentTypes
<1>. QED
  BY <1>1, CellsAreWide
  DEF SecondPassType, BracketedType, Shapes, NUMBER, REGISTER, ADDRESS, INDIRECT_REG,
      INDIRECT_MEM, INDIRECT_LBL, NUMBER_16

LEMMA TypesAreCells ==
    ASSUME NEW x \in Argument
    PROVE  /\ SecondPassType(x) \in MemCell
           /\ SecondPassType(x) # NUMBER_16 \/ x.shape = "number"
<1>1. x.shape \in Shapes /\ x.bracketed \in BOOLEAN /\ x.value \in Int
  BY ArgumentTypes
<1>2. SecondPassType(x) \in 0 .. 6 /\ (SecondPassType(x) # NUMBER_16 \/ x.shape = "number")
  BY <1>1, CellsAreWide
  DEF SecondPassType, BracketedType, Shapes, NUMBER, REGISTER, ADDRESS, INDIRECT_REG,
      INDIRECT_MEM, INDIRECT_LBL, NUMBER_16
<1>. QED
  BY <1>2, CellsAreWide DEF MemCell

\* What is emitted for an argument.
LEMMA EncodedBytes ==
    ASSUME TypeOK, NEW x \in Argument, Resolved(x)
    PROVE  /\ Encoded(x) \in Seq(MemCell)
           /\ SecondPassType(x) # NUMBER_16 => Len(Encoded(x)) = EncodedSize(x)
<1>. DEFINE type == SecondPassType(x)
            addr == IF NamesLabel(x) THEN addresses_of_labels[x.value] ELSE Addr(x.value)
<1>1. x.value \in Int
  BY ArgumentTypes
<1>2. addr \in MemAddr
  <2>1. CASE NamesLabel(x)
    BY <2>1 DEF TypeOK, Resolved
  <2>2. CASE ~ NamesLabel(x)
    BY <1>1, <2>2, ConversionTypes
  <2>. QED
    BY <2>1, <2>2
<1>3. addr \in Int
  BY <1>2, CellsAreWide DEF MemAddr
<1>4. /\ High(addr) \in MemCell /\ Low(addr) \in MemCell
      /\ High(x.value) \in MemCell /\ Low(x.value) \in MemCell /\ Cell(x.value) \in MemCell
      /\ type \in MemCell
  BY <1>1, <1>3, BytesOfInt, TypesAreCells
<1>5. Encoded(x) = CASE type \in Wide -> <<type, High(addr), Low(addr)>>
                     [] type = NUMBER_16 -> <<type, High(x.value), Low(x.value)>>
                     [] OTHER -> <<type, Cell(x.value)>>
  BY DEF Encoded
<1>6. NUMBER_16 \notin Wide
  BY DEF NUMBER_16, Wide, ADDRESS, INDIRECT_LBL, INDIRECT_MEM
<1>7. EncodedSize(x) = IF type \in Wide THEN 3 ELSE 2
  BY DEF EncodedSize, SizeOf
<1>. HIDE DEF type, addr
<1>8. CASE type \in Wide
  BY <1>4, <1>5, <1>6, <1>7, <1>8
<1>9. CASE type = NUMBER_16
  BY <1>4, <1>5, <1>6, <1>9 DEF type
<1>10. CASE type \notin Wide /\ type # NUMBER_16
  BY <1>4, <1>5, <1>7, <1>10
<1>. QED
  BY <1>8, <1>9, <1>10

-----------------------------------------------------------------------------
(* Lines. *)

LEMMA LineTypes ==
    ASSUME TypeOK, NEW k \in Lines
    PROVE  /\ program[k] \in Line
           /\ program[k].kind \in {"label", "skip", "instruction"}
           /\ program[k].what \in Nat
           /\ program[k].args \in Seq(Argument) /\ Len(program[k].args) \in Nat
           /\ \A i \in 1 .. Len(program[k].args) : program[k].args[i] \in Argument
           /\ program[k].kind = "skip" =>
                 \A i \in 1 .. Len(program[k].args) : program[k].args[i].value \in Nat
<1>1. program \in Seq(Line)
  BY AssemblerAssumption DEF TypeOK
<1>2. program[k] \in Line
  BY <1>1, ElementOfSeq DEF Lines
<1>3. /\ program[k].kind \in {"label", "skip", "instruction"}
      /\ program[k].what \in Nat /\ program[k].args \in Seq(Argument)
  BY <1>2 DEF Line
<1>4. program[k].kind = "skip" =>
          \A i \in 1 .. Len(program[k].args) : program[k].args[i].value \in Nat
  BY AssemblerAssumption DEF TypeOK, Lines
<1>. QED
  BY <1>2, <1>3, <1>4, ElementOfSeq, LenProperties

\* Every opcode is a cell, and no instruction has more than two arguments.
LEMMA SignatureBounds ==
    ASSUME NEW op, NEW args \in Seq(Argument), HasSignature(op, args)
    PROVE  op \in MemCell /\ Len(args) \in 0 .. 2
<1>1. op \in 0 .. 255
  BY DEF HasSignature, NoArguments, OneArgument, TwoArguments, NOP, MOV, PRINT, PRINTFLUSH,
         ADD, SUB, MUL, DIV, INPUT, JMP, CMP, JE, JNE, JG, JNG, SPUSH, SPOP, HALLOC, HFREE,
         CALL, RET, FBSET, FBSYNC, HALT
<1>2. Len(args) \in 0 .. 2
  BY DEF HasSignature
<1>. QED
  BY <1>1, <1>2, CellsAreWide DEF MemCell

\* On agreeing programs the first pass counts the size of an instruction.
LEMMA InstructionCounted ==
    ASSUME TypeOK, Agreeing, NEW k \in Lines, IsInstruction(k)
    PROVE  InstructionSize(program[k].args) = LineSize(program[k])
<1>. DEFINE args == program[k].args
<1>1. args \in Seq(Argument) /\ Len(args) \in Nat
      /\ \A i \in 1 .. Len(args) : args[i] \in Argument
  BY LineTypes
<1>2. ASSUME NEW i \in 1 .. Len(args)
      PROVE  SizeOf(FirstPassType(args[i])) = EncodedSize(args[i])
  BY <1>1, SameSize DEF Agreeing, LabelsAreNames, NumbersAreBytes
<1>3. Len(args) >= 1 => SizeOf(FirstPassType(args[1])) = EncodedSize(args[1])
  BY <1>1, <1>2
<1>4. Len(args) = 2 => SizeOf(FirstPassType(args[2])) = EncodedSize(args[2])
  BY <1>1, <1>2
<1>5. program[k].kind = "instruction"
  BY DEF IsInstruction
<1>. QED
  BY <1>3, <1>4, <1>5 DEF InstructionSize, LineSize

\* What is emitted for an instruction, and how much of it on agreeing programs.
LEMMA InstructionBytes ==
    ASSUME TypeOK, NEW k \in Lines, IsInstruction(k),
           HasSignature(program[k].what, program[k].args),
           \A i \in 1 .. Len(program[k].args) : Resolved(program[k].args[i])
    PROVE  LET bytes == instruction_to_opcode(program[k].what, program[k].args)
           IN  bytes \in Seq(MemCell) /\ (Agreeing => Len(bytes) = LineSize(program[k]))
<1>. DEFINE args == program[k].args
            op == program[k].what
            one == IF Len(args) >= 1 THEN Encoded(args[1]) ELSE <<>>
            two == IF Len(args) = 2 THEN Encoded(args[2]) ELSE <<>>
            size(i) == EncodedSize(args[i])
<1>1. args \in Seq(Argument) /\ Len(args) \in Nat
      /\ \A i \in 1 .. Len(args) : args[i] \in Argument
  BY LineTypes
<1>2. op \in MemCell
  BY <1>1, SignatureBounds
<1>3. ASSUME NEW i \in 1 .. Len(args)
      PROVE  /\ Encoded(args[i]) \in Seq(MemCell)
             /\ Agreeing => Len(Encoded(args[i])) = size(i)
  <2>1. args[i] \in Argument /\ Resolved(args[i])
    BY <1>1
  <2>2. Agreeing => SecondPassType(args[i]) # NUMBER_16
    BY <2>1, NumbersFit DEF Agreeing, NumbersAreBytes
  <2>. QED
    BY <2>1, <2>2, EncodedBytes
<1>4. /\ one \in Seq(MemCell)
      /\ Agreeing => Len(one) = IF Len(args) >= 1 THEN size(1) ELSE 0
  BY <1>1, <1>3
<1>5. /\ two \in Seq(MemCell)
      /\ Agreeing => Len(two) = IF Len(args) = 2 THEN size(2) ELSE 0
  BY <1>1, <1>3
<1>6. program[k].kind = "instruction"
  BY DEF IsInstruction
<1>7. LineSize(program[k]) = 1 + (IF Len(args) >= 1 THEN size(1) ELSE 0)
                               + (IF Len(args) = 2 THEN size(2) ELSE 0)
  BY <1>6 DEF LineSize
<1>8. instruction_to_opcode(op, args) = <<op>> \o one \o two
  BY DEF instruction_to_opcode
<1>. HIDE DEF one, two, size, op, args
<1>9. <<op>> \in Seq(MemCell) /\ Len(<<op>>) = 1
  BY <1>2
<1>10. <<op>> \o one \in Seq(MemCell) /\ Len(<<op>> \o one) = 1 + Len(one)
  BY <1>4, <1>9, ConcatProperties
<1>11. /\ <<op>> \o one \o two \in Seq(MemCell)
       /\ Len(<<op>> \o one \o two) = 1 + Len(one) + Len(two)
  BY <1>5, <1>10, ConcatProperties
<1>. QED
  BY <1>4, <1>5, <1>7, <1>8, <1>11 DEF op, args

-----------------------------------------------------------------------------
(* Reading back. *)

LEMMA DimensionTypes ==
    ASSUME TypeOK, Counted, Settled, NEW k \in Lines
    PROVE  dimension_at[k] \in Nat /\ dimension_at[k + 1] \in Nat
<1>1. Len(dimension_at) = Len(program) + 1 /\ Len(program) \in Nat
  BY AssemblerAssumption, LenProperties DEF Counted, TypeOK
<1>2. k \in 1 .. Len(dimension_at) /\ k + 1 \in 1 .. Len(dimension_at)
  BY <1>1 DEF Lines
<1>. QED
  BY <1>2, ElementOfSeq DEF TypeOK

\* A step that changes neither the program nor the counts changes no meaning.
LEMMA ReadUnchanged ==
    ASSUME program' = program, dimension_at' = dimension_at, NEW k
    PROVE  ReadFrom(codes, k)' <=> ReadFrom(codes', k)
BY DEF ReadFrom, Reads, Fetched, Meaning, SecondPassType, BracketedType, NamesLabel, IsLabel,
       Lines

LEMMA FetchGrows ==
    ASSUME NEW cs \in Seq(MemCell), NEW ds \in Seq(MemCell), NEW o \in Nat,
           Fetched(cs, o).next =< Len(cs)
    PROVE  Fetched(cs \o ds, o) = Fetched(cs, o)
<1>. DEFINE both == cs \o ds
<1>1. Len(cs) \in Nat /\ Len(ds) \in Nat
  BY LenProperties
<1>2. \A i \in 1 .. Len(cs) : both[i] = cs[i]
  <2>. SUFFICES ASSUME NEW i \in 1 .. Len(cs) PROVE both[i] = cs[i]
    OBVIOUS
  <2>1. i \in 1 .. Len(cs) + Len(ds) /\ i =< Len(cs)
    BY <1>1
  <2>. QED
    BY <2>1, ConcatProperties
<1>. HIDE DEF both
<1>3. CASE cs[o + 1] \in Wide \cup {NUMBER_16}
  <2>1. o + 3 =< Len(cs)
    BY <1>3 DEF Fetched
  <2>2. both[o + 1] = cs[o + 1] /\ both[o + 2] = cs[o + 2] /\ both[o + 3] = cs[o + 3]
    BY <1>1, <1>2, <2>1
  <2>3. Fetched(both, o) = Fetched(cs, o)
    BY <2>2 DEF Fetched
  <2>. QED
    BY <2>3 DEF both
<1>4. CASE cs[o + 1] \notin Wide \cup {NUMBER_16}
  <2>1. o + 2 =< Len(cs)
    BY <1>4 DEF Fetched
  <2>2. both[o + 1] = cs[o + 1] /\ both[o + 2] = cs[o + 2]
    BY <1>1, <1>2, <2>1
  <2>3. Fetched(both, o) = Fetched(cs, o)
    BY <1>4, <2>2 DEF Fetched
  <2>. QED
    BY <2>3 DEF both
<1>. QED
  BY <1>3, <1>4

\* What can be read back still can when more has been emitted.
LEMMA ReadGrows ==
    ASSUME IInv, Settled, NEW k \in Lines, IsInstruction(k),
           NEW cs \in Seq(MemCell), NEW ds \in Seq(MemCell),
           ReadFrom(cs, k), dimension_at[k + 1] =< Len(cs)
    PROVE  ReadFrom(cs \o ds, k)
<1>. DEFINE args == program[k].args
            o == dimension_at[k]
            first == Fetched(cs, o + 1)
            second == Fetched(cs, first.next)
            both == cs \o ds
<1>1. o \in Nat /\ dimension_at[k + 1] \in Nat /\ Len(cs) \in Nat /\ Len(ds) \in Nat
  BY DimensionTypes, LenProperties DEF IInv
<1>2. Len(args) \in 0 .. 2
  <2>1. HasSignature(program[k].what, args)
    BY DEF IInv, SizesAgree, Passing, Settled, Met
  <2>. QED
    BY <2>1, LineTypes, SignatureBounds DEF IInv
<1>3. /\ cs[o + 1] = program[k].what
      /\ Len(args) >= 1 => Reads(first, args[1])
      /\ Len(args) = 2 => Reads(second, args[2])
      /\ Len(args) = 0 => dimension_at[k + 1] = o + 1
      /\ Len(args) = 1 => dimension_at[k + 1] = first.next
      /\ Len(args) = 2 => dimension_at[k + 1] = second.next
  <2>1. /\ cs[o + 1] = program[k].what
        /\ Len(args) >= 1 => Reads(first, args[1])
        /\ Len(args) = 2 => Reads(second, args[2])
        /\ dimension_at[k + 1] = CASE Len(args) = 0 -> o + 1
                                   [] Len(args) = 1 -> first.next
                                   [] Len(args) = 2 -> second.next
    BY DEF ReadFrom
  <2>. DEFINE n == Len(args)
              end == dimension_at[k + 1]
  <2>2. end = CASE n = 0 -> o + 1 [] n = 1 -> first.next [] n = 2 -> second.next
    BY <2>1
  <2>. HIDE DEF first, second, n, end, o
  <2>3. n = 0 => end = o + 1
    BY <2>2
  <2>4. n = 1 => end = first.next
    BY <2>2
  <2>5. n = 2 => end = second.next
    BY <2>2
  <2>. QED
    BY <2>1, <2>3, <2>4, <2>5 DEF n, end
<1>4. first.next \in Nat /\ first.next > o + 1
  BY <1>1 DEF Fetched
<1>5. second.next \in Nat /\ second.next > first.next
  BY <1>4 DEF Fetched
<1>6. o + 1 =< Len(cs)
  BY <1>1, <1>2, <1>3, <1>4, <1>5
<1>7. both[o + 1] = cs[o + 1]
  <2>1. o + 1 \in 1 .. Len(cs) + Len(ds)
    BY <1>1, <1>6
  <2>. QED
    BY <1>6, <2>1, ConcatProperties
<1>8. Len(args) >= 1 => Fetched(both, o + 1) = first
  <2>. SUFFICES ASSUME Len(args) >= 1 PROVE first.next =< Len(cs)
    BY <1>1, FetchGrows
  <2>. QED
    BY <1>1, <1>2, <1>3, <1>4, <1>5
<1>9. Len(args) = 2 => Fetched(both, first.next) = second
  BY <1>1, <1>3, <1>4, FetchGrows
<1>. QED
  BY <1>2, <1>3, <1>7, <1>8, <1>9 DEF ReadFrom

\* The address of a label is what it means, once the first pass is over.
LEMMA AddressIsMeaning ==
    ASSUME IInv, Settled, LabelsOnce, NEW x, NamesLabel(x), Resolved(x)
    PROVE  addresses_of_labels[x.value] = Meaning(x)
<1>. DEFINE Defines(k) == IsLabel(k) /\ program[k].what = x.value
            at == CHOOSE k \in Lines : Defines(k)
<1>1. x.value \in DOMAIN addresses_of_labels
  BY DEF Resolved
<1>2. CASE \E k \in Lines : Defines(k)
  <2>1. at \in Lines /\ Defines(at)
    BY <1>2
  <2>2. Meaning(x) = Addr(dimension_at[at])
    BY <1>2 DEF Meaning, NamesLabel
  <2>3. addresses_of_labels[program[at].what] = Addr(dimension_at[at])
    BY <2>1 DEF IInv, LabelsNoted, Passing, Settled, Met
  <2>. QED
    BY <2>1, <2>2, <2>3
<1>3. CASE ~ \E k \in Lines : Defines(k)
  <2>1. addresses_of_labels[x.value] = 0
    BY <1>1, <1>3 DEF IInv, LabelsDefined, Passing, Settled
  <2>2. Meaning(x) = 0
    BY <1>3 DEF Meaning, NamesLabel
  <2>. QED
    BY <2>1, <2>2
<1>. QED
  BY <1>2, <1>3

\* fetch_argument reads what was encoded, and stops behind it.
LEMMA ArgumentRead ==
    ASSUME IInv, Settled, Agreed, NEW x \in Argument, Resolved(x),
           SecondPassType(x) # NUMBER_16,
           NEW cs, NEW o \in Nat,
           \A j \in 1 .. Len(Encoded(x)) : cs[o + j] = Encoded(x)[j]
    PROVE  /\ Reads(Fetched(cs, o), x)
           /\ Fetched(cs, o).next = o + Len(Encoded(x))
<1>. DEFINE type == SecondPassType(x)
            addr == IF NamesLabel(x) THEN addresses_of_labels[x.value] ELSE Addr(x.value)
<1>1. /\ x.shape \in Shapes /\ x.bracketed \in BOOLEAN /\ x.value \in Int
      /\ x.shape = "register" => x.value \in MemCell
  BY ArgumentTypes
<1>2. NUMBER_16 \notin Wide
  BY DEF NUMBER_16, Wide, ADDRESS, INDIRECT_LBL, INDIRECT_MEM
<1>3. CASE type \in Wide
  <2>1. Encoded(x) = <<type, High(addr), Low(addr)>>
    BY <1>3 DEF Encoded
  <2>2. addr \in MemAddr
    BY <1>1, ConversionTypes DEF IInv, TypeOK, Resolved
  <2>3. addr = Meaning(x)
    <3>1. CASE NamesLabel(x)
      BY <3>1, AddressIsMeaning DEF Agreed
    <3>2. CASE ~ NamesLabel(x)
      <4>1. x.shape = "number" /\ x.bracketed
        BY <1>1, <1>3, <3>2, CellsAreWide
        DEF NamesLabel, Shapes, SecondPassType, BracketedType, Wide, ADDRESS, INDIRECT_LBL,
            INDIRECT_MEM, INDIRECT_REG, REGISTER, NUMBER, NUMBER_16
      <4>. QED
        BY <3>2, <4>1 DEF Meaning
    <3>. QED
      BY <3>1, <3>2
  <2>. HIDE DEF type, addr
  <2>4. Len(Encoded(x)) = 3 /\ cs[o + 1] = type /\ cs[o + 2] = High(addr) /\ cs[o + 3] = Low(addr)
    BY <2>1
  <2>5. Fetched(cs, o) = [type |-> type, value |-> addr, next |-> o + 3]
    BY <1>3, <2>2, <2>4, JoinBytes DEF Fetched
  <2>. QED
    BY <2>3, <2>4, <2>5 DEF Reads, type
<1>4. CASE type \notin Wide
  <2>1. Encoded(x) = <<type, Cell(x.value)>>
    BY <1>4 DEF Encoded
  <2>2. Cell(x.value) = Meaning(x)
    <3>1. /\ ~ NamesLabel(x)
          /\ x.shape = "register" \/ (x.shape = "number" /\ ~ x.bracketed)
      BY <1>1, <1>4
      DEF NamesLabel, Shapes, SecondPassType, BracketedType, Wide, ADDRESS, INDIRECT_LBL,
          INDIRECT_MEM
    <3>2. CASE x.shape = "register"
      <4>1. Cell(x.value) = x.value
        BY <1>1, <3>2, CellOfCell
      <4>. QED
        BY <3>1, <3>2, <4>1 DEF Meaning
    <3>3. CASE x.shape = "number" /\ ~ x.bracketed
      BY <3>1, <3>3 DEF Meaning
    <3>. QED
      BY <3>1, <3>2, <3>3
  <2>. HIDE DEF type
  <2>3. Len(Encoded(x)) = 2 /\ cs[o + 1] = type /\ cs[o + 2] = Cell(x.value)
    BY <2>1
  <2>4. Fetched(cs, o) = [type |-> type, value |-> Cell(x.value), next |-> o + 2]
    BY <1>4, <2>3 DEF Fetched, type
  <2>. QED
    BY <2>2, <2>3, <2>4 DEF Reads, type
<1>. QED
  BY <1>3, <1>4

\* An instruction emitted where the first pass has counted it can be read back.
LEMMA InstructionRead ==
    ASSUME IInv, pass = "second", Agreed, line \in Lines, IsInstruction(line),
           HasSignature(this.what, this.args),
           \A i \in 1 .. Len(this.args) : Resolved(this.args[i])
    PROVE  ReadFrom(codes \o instruction_to_opcode(this.what, this.args), line)
<1>. DEFINE args == this.args
            op == this.what
            one == IF Len(args) >= 1 THEN Encoded(args[1]) ELSE <<>>
            two == IF Len(args) = 2 THEN Encoded(args[2]) ELSE <<>>
            cs == codes \o instruction_to_opcode(op, args)
            o == dimension_at[line]
            bytes == instruction_to_opcode(op, args)
<1>1. /\ TypeOK /\ Settled /\ Agreeing
      /\ codes \in Seq(MemCell) /\ Len(codes) = o /\ o \in Nat
      /\ dimension_at[line + 1] = o + LineSize(this)
  <2>1. TypeOK /\ Settled /\ Agreeing /\ codes \in Seq(MemCell) /\ Len(codes) = o
    BY DEF IInv, TypeOK, Settled, Agreed, Emitted
  <2>2. o \in Nat
    BY <2>1, DimensionTypes DEF IInv
  <2>3. dimension_at[line + 1] = o + LineSize(this)
    BY <2>1 DEF IInv, SizesAgree, Passing, Met
  <2>. QED
    BY <2>1, <2>2, <2>3
<1>2. /\ args \in Seq(Argument) /\ Len(args) \in 0 .. 2 /\ op \in MemCell
      /\ \A i \in 1 .. Len(args) : args[i] \in Argument
  BY <1>1, LineTypes, SignatureBounds
<1>3. ASSUME NEW i \in 1 .. Len(args)
      PROVE  /\ args[i] \in Argument /\ Resolved(args[i])
             /\ SecondPassType(args[i]) # NUMBER_16
             /\ Encoded(args[i]) \in Seq(MemCell)
             /\ Len(Encoded(args[i])) = EncodedSize(args[i])
  <2>1. args[i] \in Argument /\ Resolved(args[i])
    BY <1>2
  <2>2. SecondPassType(args[i]) # NUMBER_16
    BY <1>1, <2>1, NumbersFit DEF Agreeing, NumbersAreBytes
  <2>. QED
    BY <1>1, <2>1, <2>2, EncodedBytes
<1>4. one \in Seq(MemCell) /\ (Len(args) = 0 => Len(one) = 0)
      /\ two \in Seq(MemCell) /\ (Len(args) # 2 => Len(two) = 0)
  BY <1>2, <1>3
<1>5. LineSize(this) = 1 + Len(one) + Len(two)
  <2>1. this.kind = "instruction"
    BY DEF IsInstruction
  <2>2. Len(one) = IF Len(args) >= 1 THEN EncodedSize(args[1]) ELSE 0
    BY <1>2, <1>3
  <2>3. Len(two) = IF Len(args) = 2 THEN EncodedSize(args[2]) ELSE 0
    BY <1>2, <1>3
  <2>. QED
    BY <2>1, <2>2, <2>3 DEF LineSize
<1>6. bytes = <<op>> \o one \o two
  BY DEF instruction_to_opcode
<1>7. /\ cs[o + 1] = op
      /\ \A j \in 1 .. Len(one) : cs[o + 1 + j] = one[j]
      /\ \A j \in 1 .. Len(two) : cs[o + 1 + Len(one) + j] = two[j]
  <2>. HIDE DEF one, two, op, args, bytes
  <2>. DEFINE head == <<op>> \o one
  <2>1. <<op>> \in Seq(MemCell) /\ Len(<<op>>) = 1 /\ <<op>>[1] = op
    BY <1>2
  <2>2. Len(one) \in Nat /\ Len(two) \in Nat
    BY <1>4, LenProperties
  <2>3. /\ head \in Seq(MemCell) /\ Len(head) = 1 + Len(one)
        /\ head[1] = op
        /\ \A j \in 1 .. Len(one) : head[1 + j] = one[j]
    BY <1>4, <2>1, <2>2, ConcatProperties
  <2>. HIDE DEF head
  <2>4. bytes = head \o two
    BY <1>6 DEF head
  <2>5. /\ bytes \in Seq(MemCell) /\ Len(bytes) = 1 + Len(one) + Len(two)
        /\ bytes[1] = op
        /\ \A j \in 1 .. Len(one) : bytes[1 + j] = one[j]
        /\ \A j \in 1 .. Len(two) : bytes[1 + Len(one) + j] = two[j]
    <3>1. /\ bytes \in Seq(MemCell) /\ Len(bytes) = 1 + Len(one) + Len(two)
          /\ \A i \in 1 .. Len(head) + Len(two) :
                 bytes[i] = IF i =< Len(head) THEN head[i] ELSE two[i - Len(head)]
      <4>1. head \in Seq(MemCell) /\ two \in Seq(MemCell)
        BY <1>4, <2>3
      <4>2. /\ head \o two \in Seq(MemCell) /\ Len(head \o two) = Len(head) + Len(two)
            /\ \A i \in 1 .. Len(head) + Len(two) :
                   (head \o two)[i] = IF i =< Len(head) THEN head[i] ELSE two[i - Len(head)]
        BY <4>1, ConcatProperties, Zenon
      <4>. QED
        BY <2>3, <2>4, <4>2
    <3>2. bytes[1] = op
      BY <2>2, <2>3, <3>1
    <3>3. ASSUME NEW j \in 1 .. Len(one) PROVE bytes[1 + j] = one[j]
      <4>1. 1 + j \in 1 .. Len(head) + Len(two) /\ 1 + j =< Len(head)
        BY <2>2, <2>3
      <4>. QED
        BY <2>3, <3>1, <4>1
    <3>4. ASSUME NEW j \in 1 .. Len(two) PROVE bytes[1 + Len(one) + j] = two[j]
      <4>1. /\ 1 + Len(one) + j \in 1 .. Len(head) + Len(two)
            /\ ~ (1 + Len(one) + j =< Len(head))
            /\ (1 + Len(one) + j) - Len(head) = j
        BY <2>2, <2>3
      <4>. QED
        BY <3>1, <4>1
    <3>. QED
      BY <3>1, <3>2, <3>3, <3>4
  <2>6. \A j \in 1 .. Len(bytes) : cs[o + j] = bytes[j]
    <3>. DEFINE n == Len(bytes)
    <3>1. /\ cs = codes \o bytes /\ Len(codes) \in Nat /\ n \in Nat
          /\ bytes \in Seq(MemCell)
      BY <1>1, <2>2, <2>5 DEF bytes
    <3>2. \A i \in 1 .. Len(codes) + n :
              (codes \o bytes)[i] = IF i =< Len(codes) THEN codes[i] ELSE bytes[i - Len(codes)]
      BY <1>1, <3>1, ConcatProperties, Zenon
    <3>. HIDE DEF cs, n
    <3>3. ASSUME NEW j \in 1 .. n PROVE cs[Len(codes) + j] = bytes[j]
      <4>1. /\ Len(codes) + j \in 1 .. Len(codes) + n /\ ~ (Len(codes) + j =< Len(codes))
            /\ (Len(codes) + j) - Len(codes) = j
        BY <3>1
      <4>. QED
        BY <3>1, <3>2, <4>1
    <3>. QED
      BY <1>1, <3>3 DEF n
  <2>. HIDE DEF cs, o
  <2>7. cs[o + 1] = op
    BY <2>2, <2>5, <2>6
  <2>8. ASSUME NEW j \in 1 .. Len(one) PROVE cs[o + 1 + j] = one[j]
    <3>1. 1 + j \in 1 .. Len(bytes) /\ o + (1 + j) = o + 1 + j
      BY <1>1, <2>2, <2>5
    <3>. QED
      BY <2>5, <2>6, <3>1
  <2>9. ASSUME NEW j \in 1 .. Len(two) PROVE cs[o + 1 + Len(one) + j] = two[j]
    <3>1. /\ 1 + Len(one) + j \in 1 .. Len(bytes)
          /\ o + (1 + Len(one) + j) = o + 1 + Len(one) + j
      BY <1>1, <2>2, <2>5
    <3>. QED
      BY <2>5, <2>6, <3>1
  <2>. QED
    BY <2>7, <2>8, <2>9
<1>. DEFINE first == Fetched(cs, o + 1)
            second == Fetched(cs, first.next)
<1>8. Len(one) \in Nat /\ Len(two) \in Nat
  BY <1>4, LenProperties
<1>9. Len(args) >= 1 => Reads(first, args[1]) /\ first.next = o + 1 + Len(one)
  <2>. SUFFICES ASSUME Len(args) >= 1
                PROVE  Reads(first, args[1]) /\ first.next = o + 1 + Len(one)
    OBVIOUS
  <2>1. one = Encoded(args[1]) /\ 1 \in 1 .. Len(args) /\ o + 1 \in Nat
    BY <1>1, <1>2
  <2>2. \A j \in 1 .. Len(Encoded(args[1])) : cs[o + 1 + j] = Encoded(args[1])[j]
    BY <1>7, <2>1
  <2>3. /\ args[1] \in Argument /\ Resolved(args[1]) /\ SecondPassType(args[1]) # NUMBER_16
    BY <1>3, <2>1
  <2>. HIDE DEF cs, o, one, args
  <2>. QED
    BY <1>1, <2>1, <2>2, <2>3, ArgumentRead
<1>10. Len(args) = 2 => Reads(second, args[2]) /\ second.next = o + 1 + Len(one) + Len(two)
  <2>. SUFFICES ASSUME Len(args) = 2
                PROVE  Reads(second, args[2]) /\ second.next = o + 1 + Len(one) + Len(two)
    OBVIOUS
  <2>1. two = Encoded(args[2]) /\ 2 \in 1 .. Len(args)
    BY <1>2
  <2>2. first.next = o + 1 + Len(one) /\ first.next \in Nat
    BY <1>1, <1>8, <1>9
  <2>3. \A j \in 1 .. Len(Encoded(args[2])) : cs[first.next + j] = Encoded(args[2])[j]
    BY <1>7, <2>1, <2>2
  <2>4. /\ args[2] \in Argument /\ Resolved(args[2]) /\ SecondPassType(args[2]) # NUMBER_16
    BY <1>3, <2>1
  <2>. HIDE DEF cs, o, one, two, args, first
  <2>. QED
    <3>1. /\ Reads(Fetched(cs, first.next), args[2])
          /\ Fetched(cs, first.next).next = first.next + Len(Encoded(args[2]))
      BY <1>1, <2>2, <2>3, <2>4, ArgumentRead
    <3>. QED
      BY <1>1, <1>8, <2>1, <2>2, <3>1
<1>11. dimension_at[line + 1] = CASE Len(args) = 0 -> o + 1
                                  [] Len(args) = 1 -> first.next
                                  [] Len(args) = 2 -> second.next
  <2>. DEFINE n == Len(args)
              total == dimension_at[line + 1]
              size == Len(one)
              more == Len(two)
  <2>1. /\ n \in 0 .. 2 /\ o \in Nat /\ size \in Nat /\ more \in Nat
        /\ total = o + (1 + size + more)
        /\ n = 0 => size = 0
        /\ n # 2 => more = 0
        /\ n >= 1 => first.next = o + 1 + size
        /\ n = 2 => second.next = o + 1 + size + more
    BY <1>1, <1>2, <1>4, <1>5, <1>8, <1>9, <1>10
  <2>. HIDE DEF n, total, size, more, o, first, second
  <2>2. total = CASE n = 0 -> o + 1 [] n = 1 -> first.next [] n = 2 -> second.next
    BY <2>1
  <2>. QED
    BY <2>2 DEF n, total
<1>12. cs[o + 1] = op
  BY <1>7
<1>. QED
  BY <1>9, <1>10, <1>11, <1>12 DEF ReadFrom

-----------------------------------------------------------------------------
(* The passes. *)

LEMMA InitKeeps == Init => IInv
<1>. SUFFICES ASSUME Init PROVE IInv
  OBVIOUS
<1>1. /\ program \in Programs /\ pass = "first" /\ line = 1 /\ current_dimension = 2
      /\ addresses_of_labels = <<>> /\ codes = <<>> /\ dimension_at = <<2>>
  BY DEF Init
<1>2. Len(program) \in Nat
  BY <1>1, AssemblerAssumption, LenProperties
<1>3. codes \in Seq(MemCell) /\ dimension_at \in Seq(Nat)
  BY <1>1
<1>4. DOMAIN addresses_of_labels = {}
  BY <1>1
<1>5. TypeOK
  BY <1>1, <1>2, <1>3, <1>4 DEF TypeOK
<1>6. Counted
  <2>1. Len(dimension_at) = 1 /\ dimension_at[1] = 2
    BY <1>1
  <2>2. \A k \in 1 .. Len(dimension_at) : dimension_at[k] \in 2 .. current_dimension
    BY <1>1, <2>1
  <2>. QED
    BY <1>1, <2>1, <2>2 DEF Counted, Passing, Settled
<1>7. \A k \in Lines : ~ Met(k)
  BY <1>1, <1>2 DEF Met, Lines
<1>8. SizesAgree /\ LabelsNoted
  BY <1>7 DEF SizesAgree, LabelsNoted
<1>9. Emitted /\ HeaderWritten /\ Readable
  BY <1>1 DEF Emitted, HeaderWritten, Readable, Settled
<1>10. LabelsDefined
  BY <1>4 DEF LabelsDefined
<1>. QED
  BY <1>5, <1>6, <1>8, <1>9, <1>10 DEF IInv

\* The first pass takes one line, for which it counts n bytes.
LEMMA CountKeeps ==
    ASSUME IInv, pass = "first", line \in Lines, NEW n \in Nat, Count(n),
           this.kind = "skip" => this.args # <<>>,
           IsInstruction(line) => HasSignature(this.what, this.args),
           Agreeing => n = LineSize(this),
           DOMAIN addresses_of_labels' \subseteq Nat,
           \A l \in DOMAIN addresses_of_labels' : addresses_of_labels'[l] \in MemAddr,
           \A l \in DOMAIN addresses_of_labels :
               /\ l \in DOMAIN addresses_of_labels'
               /\ \/ addresses_of_labels'[l] = addresses_of_labels[l]
                  \/ IsLabel(line) /\ l = this.what,
           \A l \in DOMAIN addresses_of_labels' :
               l \in DOMAIN addresses_of_labels \/ (IsLabel(line) /\ l = this.what),
           IsLabel(line) => /\ this.what \in DOMAIN addresses_of_labels'
                            /\ addresses_of_labels'[this.what] = Addr(current_dimension)
    PROVE  IInv'
<1>1. /\ current_dimension' = current_dimension + n /\ line' = line + 1
      /\ dimension_at' = Append(dimension_at, current_dimension + n)
      /\ UNCHANGED <<program, pass, codes>>
  BY DEF Count
<1>2. /\ dimension_at \in Seq(Nat) /\ Len(dimension_at) = line /\ line \in Nat
      /\ current_dimension = dimension_at[line] /\ current_dimension \in Nat
      /\ dimension_at[1] = 2 /\ 1 =< line /\ line =< Len(program) /\ Len(program) \in Nat
  BY AssemblerAssumption, LenProperties DEF IInv, TypeOK, Counted, Passing, Lines
<1>3. /\ dimension_at' \in Seq(Nat) /\ Len(dimension_at') = line + 1
      /\ dimension_at'[line + 1] = current_dimension + n
      /\ \A k \in 1 .. line : dimension_at'[k] = dimension_at[k]
  <2>1. current_dimension + n \in Nat
    BY <1>2
  <2>. QED
    BY <1>1, <1>2, <2>1, AppendProperties
<1>4. TypeOK'
  <2>1. line' \in 1 .. (Len(program') + 1)
    BY <1>1, <1>2
  <2>. QED
    BY <1>1, <1>2, <1>3, <2>1 DEF IInv, TypeOK
<1>5. Counted'
  <2>. DEFINE total == current_dimension + n
              dims == dimension_at'
  <2>1. \A k \in 1 .. line : dimension_at[k] \in 2 .. current_dimension
    BY <1>2 DEF IInv, Counted
  <2>2. total \in Nat /\ current_dimension =< total /\ 2 =< total
    BY <1>2, <2>1
  <2>3. /\ dims[line + 1] = total /\ Len(dims) = line + 1
        /\ \A k \in 1 .. line : dims[k] = dimension_at[k]
    BY <1>3
  <2>. HIDE DEF total, dims
  <2>4. ASSUME NEW k \in 1 .. Len(dims)
        PROVE  dims[k] \in 2 .. total
    <3>1. k \in 1 .. line \/ k = line + 1
      BY <1>2, <2>3
    <3>2. CASE k \in 1 .. line
      <4>1. dims[k] = dimension_at[k] /\ dimension_at[k] \in 2 .. current_dimension
        BY <2>1, <2>3, <3>2
      <4>. QED
        BY <1>2, <2>2, <4>1
    <3>3. CASE k = line + 1
      BY <2>2, <2>3, <3>3
    <3>. QED
      BY <3>1, <3>2, <3>3
  <2>5. \A k \in 1 .. Len(dimension_at') : dimension_at'[k] \in 2 .. current_dimension'
    BY <1>1, <2>4 DEF total, dims
  <2>. QED
    BY <1>1, <1>2, <1>3, <2>5 DEF Counted, Passing, Settled
<1>6. ASSUME NEW k \in Lines, k < line'
      PROVE  k = line \/ (k \in 1 .. line /\ k + 1 \in 1 .. line /\ Met(k))
  BY <1>1, <1>2, <1>6 DEF Lines, Met
<1>7. SizesAgree'
  <2>. SUFFICES ASSUME NEW k \in Lines, k < line'
                PROVE  /\ program[k].kind = "skip" => program[k].args # <<>>
                       /\ IsInstruction(k) => HasSignature(program[k].what, program[k].args)
                       /\ Agreeing => dimension_at'[k + 1] = dimension_at'[k]
                                                                 + LineSize(program[k])
    BY <1>1
    DEF SizesAgree, Met, Lines, Agreeing, LabelsAreNames, NumbersAreBytes, IsInstruction, Passing
  <2>1. CASE k = line
    BY <1>2, <1>3, <2>1
  <2>2. CASE k \in 1 .. line /\ k + 1 \in 1 .. line /\ Met(k)
    BY <1>3, <2>2 DEF IInv, SizesAgree, Passing
  <2>. QED
    BY <1>6, <2>1, <2>2
<1>8. LabelsNoted'
  <2>. SUFFICES ASSUME NEW k \in Lines, k < line', IsLabel(k)
                PROVE  /\ program[k].what \in DOMAIN addresses_of_labels'
                       /\ LabelsOnce => addresses_of_labels'[program[k].what]
                                            = Addr(dimension_at'[k])
    BY <1>1 DEF LabelsNoted, Met, Lines, LabelsOnce, IsLabel, Passing
  <2>1. CASE k = line
    BY <1>2, <1>3, <2>1
  <2>2. CASE k \in 1 .. line /\ k # line /\ Met(k)
    <3>1. /\ program[k].what \in DOMAIN addresses_of_labels
          /\ LabelsOnce => addresses_of_labels[program[k].what] = Addr(dimension_at[k])
      BY <2>2 DEF IInv, LabelsNoted, Passing
    <3>2. LabelsOnce => ~ (IsLabel(line) /\ program[k].what = this.what)
      BY <2>2 DEF LabelsOnce
    <3>. QED
      BY <1>3, <2>2, <3>1, <3>2
  <2>3. k = line \/ (k \in 1 .. line /\ k # line /\ Met(k))
    BY <1>1, <1>2 DEF Lines, Met
  <2>. QED
    BY <2>1, <2>2, <2>3
<1>9. (Emitted /\ HeaderWritten /\ Readable)'
  BY <1>1 DEF Emitted, HeaderWritten, Readable, Settled
<1>10. LabelsDefined'
  <2>. SUFFICES ASSUME NEW l \in DOMAIN addresses_of_labels'
                PROVE  \E k \in Lines : k < line' /\ IsLabel(k) /\ program[k].what = l
    BY <1>1 DEF LabelsDefined, Met, Lines, IsLabel
  <2>1. CASE IsLabel(line) /\ l = this.what
    BY <1>1, <1>2, <2>1
  <2>2. CASE l \in DOMAIN addresses_of_labels
    <3>1. PICK k \in Lines : k < line /\ IsLabel(k) /\ program[k].what = l
      BY <2>2 DEF IInv, LabelsDefined, Passing, Settled, Met
    <3>2. k < line'
      BY <1>1, <1>2, <3>1 DEF Lines
    <3>. QED
      BY <3>1, <3>2
  <2>. QED
    BY <2>1, <2>2
<1>. QED
  BY <1>4, <1>5, <1>7, <1>8, <1>9, <1>10 DEF IInv

\* An exception ends the passes.
LEMMA ThrowKeeps ==
    ASSUME IInv, Throw
    PROVE  IInv'
<1>1. /\ pass' = "thrown"
      /\ UNCHANGED <<program, line, current_dimension, addresses_of_labels, codes, dimension_at>>
  BY DEF Throw
<1>2. TypeOK'
  BY <1>1 DEF IInv, TypeOK
<1>3. Counted'
  BY <1>1 DEF IInv, Counted, Settled, Passing
<1>4. (SizesAgree /\ LabelsNoted /\ Emitted)'
  BY <1>1 DEF SizesAgree, LabelsNoted, Emitted, Passing
<1>5. (LabelsDefined /\ HeaderWritten /\ Readable)'
  BY <1>1 DEF LabelsDefined, HeaderWritten, Readable, Settled, Passing
<1>. QED
  BY <1>2, <1>3, <1>4, <1>5 DEF IInv

\* The line that is read is one of the program's.
LEMMA ReadLine ==
    ASSUME IInv, NEW p, NEW kind, Reading(p, kind)
    PROVE  /\ pass = p /\ line \in Lines /\ this.kind = kind
           /\ this.args \in Seq(Argument) /\ Len(this.args) \in Nat /\ this.what \in Nat
           /\ current_dimension \in Nat
           /\ kind = "skip" => \A i \in 1 .. Len(this.args) : this.args[i].value \in Nat
           /\ TypeOK
<1>1. pass = p /\ line =< Len(program) /\ this.kind = kind /\ TypeOK /\ current_dimension \in Nat
  BY DEF Reading, IInv, TypeOK
<1>2. Len(program) \in Nat
  BY <1>1, AssemblerAssumption, LenProperties DEF TypeOK
<1>3. line \in Lines
  BY <1>1, <1>2 DEF TypeOK, Lines
<1>. QED
  BY <1>1, <1>3, LineTypes

LEMMA NoteLabelKeeps == IInv /\ NoteLabel => IInv'
<1>. SUFFICES ASSUME IInv, NoteLabel PROVE IInv'
  OBVIOUS
<1>1. /\ pass = "first" /\ line \in Lines /\ this.kind = "label" /\ this.what \in Nat
      /\ current_dimension \in Nat /\ TypeOK
  BY ReadLine DEF NoteLabel
<1>2. Count(0) /\ addresses_of_labels' = WithLabel(this.what, Addr(current_dimension))
  BY DEF NoteLabel
<1>3. Addr(current_dimension) \in MemAddr
  BY <1>1, ConversionTypes
<1>4. /\ DOMAIN addresses_of_labels' = DOMAIN addresses_of_labels \cup {this.what}
      /\ addresses_of_labels'[this.what] = Addr(current_dimension)
      /\ \A l \in DOMAIN addresses_of_labels :
             l = this.what \/ addresses_of_labels'[l] = addresses_of_labels[l]
  BY <1>2 DEF WithLabel
<1>5. DOMAIN addresses_of_labels' \subseteq Nat
  BY <1>1, <1>4 DEF TypeOK
<1>6. \A l \in DOMAIN addresses_of_labels' : addresses_of_labels'[l] \in MemAddr
  BY <1>1, <1>3, <1>4 DEF TypeOK
<1>7. IsLabel(line) /\ ~ IsInstruction(line) /\ LineSize(this) = 0
  BY <1>1 DEF IsLabel, IsInstruction, LineSize
<1>8. \A l \in DOMAIN addresses_of_labels' :
          l \in DOMAIN addresses_of_labels \/ (IsLabel(line) /\ l = this.what)
  BY <1>4, <1>7
<1>9. \A l \in DOMAIN addresses_of_labels :
          /\ l \in DOMAIN addresses_of_labels'
          /\ \/ addresses_of_labels'[l] = addresses_of_labels[l]
             \/ IsLabel(line) /\ l = this.what
  BY <1>4, <1>7
<1>10. Agreeing => 0 = LineSize(this)
  BY <1>7
<1>11. this.kind = "skip" => this.args # <<>>
  BY <1>1
<1>. QED
  BY <1>1, <1>2, <1>4, <1>5, <1>6, <1>7, <1>8, <1>9, <1>10, <1>11, CountKeeps

LEMMA CountSkipKeeps == IInv /\ CountSkip => IInv'
<1>. SUFFICES ASSUME IInv, CountSkip PROVE IInv'
  OBVIOUS
<1>1. /\ pass = "first" /\ line \in Lines /\ this.kind = "skip" /\ TypeOK
      /\ this.args \in Seq(Argument) /\ this.args # <<>>
      /\ \A i \in 1 .. Len(this.args) : this.args[i].value \in Nat
  BY ReadLine DEF CountSkip
<1>2. this.args[1].value \in Nat
  <2>1. Len(this.args) \in Nat \ {0}
    BY <1>1, EmptySeq
  <2>. QED
    BY <1>1, <2>1
<1>3. Count(this.args[1].value) /\ addresses_of_labels' = addresses_of_labels
  BY DEF CountSkip
<1>4. ~ IsLabel(line) /\ ~ IsInstruction(line) /\ LineSize(this) = this.args[1].value
  BY <1>1 DEF IsLabel, IsInstruction, LineSize
<1>. QED
  BY <1>1, <1>2, <1>3, <1>4, CountKeeps DEF TypeOK

LEMMA CountInstructionKeeps == IInv /\ CountInstruction => IInv'
<1>. SUFFICES ASSUME IInv, CountInstruction PROVE IInv'
  OBVIOUS
<1>1. pass = "first" /\ line \in Lines /\ this.kind = "instruction" /\ TypeOK
  BY ReadLine DEF CountInstruction
<1>2. /\ HasSignature(this.what, this.args) /\ Count(InstructionSize(this.args))
      /\ addresses_of_labels' = addresses_of_labels
  BY DEF CountInstruction
<1>3. InstructionSize(this.args) \in Nat
  BY SizesAreNat DEF InstructionSize
<1>4. ~ IsLabel(line) /\ IsInstruction(line) /\ this.kind # "skip"
  BY <1>1 DEF IsLabel, IsInstruction
<1>5. Agreeing => InstructionSize(this.args) = LineSize(this)
  BY <1>1, <1>4, InstructionCounted
<1>. QED
  BY <1>1, <1>2, <1>3, <1>4, <1>5, CountKeeps DEF TypeOK

LEMMA BeginSecondPassKeeps == IInv /\ BeginSecondPass => IInv'
<1>. SUFFICES ASSUME IInv, BeginSecondPass PROVE IInv'
  OBVIOUS
<1>1. /\ pass = "first" /\ line > Len(program) /\ pass' = "second" /\ line' = 1
      /\ codes' = Header /\ UNCHANGED <<program, current_dimension, dimension_at>>
      /\ addresses_of_labels' = IF start \in DOMAIN addresses_of_labels
                                THEN addresses_of_labels ELSE WithLabel(start, 0)
  BY DEF BeginSecondPass
<1>2. /\ Len(program) \in Nat /\ line = Len(program) + 1 /\ Len(dimension_at) = line
      /\ dimension_at[1] = 2
  BY <1>1, AssemblerAssumption, LenProperties DEF IInv, TypeOK, Counted, Passing
<1>3. \A k \in Lines : Met(k)
  BY <1>2 DEF Met, Lines
<1>4. 0 \in MemAddr
  BY CellsAreWide DEF MemAddr
<1>5. /\ DOMAIN addresses_of_labels' \subseteq Nat
      /\ \A l \in DOMAIN addresses_of_labels' : addresses_of_labels'[l] \in MemAddr
      /\ \A l \in DOMAIN addresses_of_labels :
             l \in DOMAIN addresses_of_labels' /\ addresses_of_labels'[l] = addresses_of_labels[l]
  <2>1. CASE start \in DOMAIN addresses_of_labels
    BY <1>1, <2>1 DEF IInv, TypeOK
  <2>2. CASE start \notin DOMAIN addresses_of_labels
    BY <1>1, <1>4, <2>2 DEF IInv, TypeOK, WithLabel, start
  <2>. QED
    BY <2>1, <2>2
<1>6. codes' \in Seq(MemCell) /\ Len(codes') = 2
  <2>. DEFINE s == IF start \in DOMAIN addresses_of_labels THEN addresses_of_labels[start] ELSE 0
  <2>1. s \in Int
    BY CellsAreWide DEF IInv, TypeOK, MemAddr
  <2>2. High(s) \in MemCell /\ Low(s) \in MemCell /\ 2 \in MemCell
    BY <2>1, BytesOfInt, CellsAreWide DEF MemCell
  <2>3. codes' = <<High(s), IF s = 0 THEN 2 ELSE Low(s)>>
    BY <1>1 DEF Header
  <2>. HIDE DEF s
  <2>. QED
    BY <2>2, <2>3
<1>7. TypeOK'
  BY <1>1, <1>2, <1>5, <1>6 DEF IInv, TypeOK
<1>8. Counted'
  BY <1>1, <1>2 DEF IInv, Counted, Passing, Settled
<1>9. SizesAgree'
  BY <1>1, <1>3
  DEF IInv, SizesAgree, Passing, Lines, Agreeing, LabelsAreNames, NumbersAreBytes, IsInstruction
<1>10. LabelsNoted'
  BY <1>1, <1>3, <1>5 DEF IInv, LabelsNoted, Passing, Lines, LabelsOnce, IsLabel
<1>11. Emitted'
  BY <1>1, <1>2, <1>6 DEF Emitted
<1>12. LabelsDefined'
  <2>. SUFFICES ASSUME NEW l \in DOMAIN addresses_of_labels'
                PROVE  \/ \E k \in Lines : IsLabel(k) /\ program[k].what = l
                       \/ l = start /\ addresses_of_labels'[l] = 0
    BY <1>1 DEF LabelsDefined, Met, Lines, IsLabel, Settled
  <2>1. \/ l \in DOMAIN addresses_of_labels
        \/ l = start /\ addresses_of_labels'[l] = 0
    BY <1>1 DEF WithLabel
  <2>2. l \in DOMAIN addresses_of_labels => \E k \in Lines : IsLabel(k) /\ program[k].what = l
    BY <1>1 DEF IInv, LabelsDefined, Passing, Settled
  <2>. QED
    BY <2>1, <2>2
<1>13. HeaderWritten'
  <2>. DEFINE s == IF start \in DOMAIN addresses_of_labels THEN addresses_of_labels[start] ELSE 0
  <2>1. start \in DOMAIN addresses_of_labels' /\ addresses_of_labels'[start] = s
    BY <1>1 DEF WithLabel
  <2>2. codes' = <<High(s), IF s = 0 THEN 2 ELSE Low(s)>>
    BY <1>1 DEF Header
  <2>. HIDE DEF s
  <2>3. codes'[1] = High(s) /\ codes'[2] = IF s = 0 THEN 2 ELSE Low(s)
    BY <2>2
  <2>. QED
    BY <1>6, <2>1, <2>3 DEF HeaderWritten
<1>14. Readable'
  <2>1. \A k \in Lines : ~ (k < line')
    BY <1>1, <1>2 DEF Lines
  <2>. QED
    BY <1>1, <2>1 DEF Readable, Behind, Lines
<1>. QED
  BY <1>7, <1>8, <1>9, <1>10, <1>11, <1>12, <1>13, <1>14 DEF IInv

\* The second pass takes one line, for which it emits some bytes.
LEMMA EmitKeeps ==
    ASSUME IInv, pass = "second", line \in Lines, NEW bytes \in Seq(MemCell), Emit(bytes),
           Agreeing => Len(bytes) = LineSize(this),
           Agreed /\ IsInstruction(line) => ReadFrom(codes \o bytes, line)
    PROVE  IInv'
<1>1. /\ codes' = codes \o bytes /\ line' = line + 1
      /\ UNCHANGED <<program, pass, current_dimension, addresses_of_labels, dimension_at>>
  BY DEF Emit
<1>2. codes' \in Seq(MemCell) /\ Len(codes') = Len(codes) + Len(bytes)
  BY <1>1, ConcatProperties DEF IInv, TypeOK
<1>3. /\ Len(program) \in Nat /\ line \in 1 .. Len(program)
  BY AssemblerAssumption, LenProperties DEF IInv, TypeOK, Lines
<1>4. TypeOK'
  BY <1>1, <1>2, <1>3 DEF IInv, TypeOK
<1>5. Counted'
  BY <1>1 DEF IInv, Counted, Passing, Settled
<1>6. \A k \in Lines : Met(k)
  BY DEF Met
<1>7. SizesAgree'
  BY <1>1, <1>6
  DEF IInv, SizesAgree, Passing, Lines, Agreeing, LabelsAreNames, NumbersAreBytes, IsInstruction
<1>8. LabelsNoted'
  BY <1>1, <1>6 DEF IInv, LabelsNoted, Passing, Lines, LabelsOnce, IsLabel
<1>9. Agreeing => Len(codes') = dimension_at[line + 1]
  BY <1>2, <1>6 DEF IInv, Emitted, SizesAgree, Passing
<1>10. Emitted'
  BY <1>1, <1>9 DEF Emitted, Agreeing, LabelsAreNames, NumbersAreBytes, Lines, IsInstruction
<1>11. LabelsDefined'
  BY <1>1, <1>6 DEF IInv, LabelsDefined, Passing, Settled, Lines, IsLabel, Met
<1>12. HeaderWritten'
  <2>1. /\ start \in DOMAIN addresses_of_labels /\ Len(codes) >= 2
        /\ codes[1] = High(addresses_of_labels[start])
        /\ codes[2] = IF addresses_of_labels[start] = 0 THEN 2
                      ELSE Low(addresses_of_labels[start])
    BY DEF IInv, HeaderWritten, Settled
  <2>2. Len(codes) \in Nat /\ Len(bytes) \in Nat
    BY LenProperties DEF IInv, TypeOK
  <2>3. codes'[1] = codes[1] /\ codes'[2] = codes[2] /\ Len(codes') >= 2
    BY <1>1, <2>1, <2>2, ConcatProperties DEF IInv, TypeOK
  <2>. QED
    BY <1>1, <2>1, <2>3 DEF HeaderWritten
<1>13. Readable'
  <2>. SUFFICES ASSUME Agreed, NEW k \in Lines, k < line', IsInstruction(k)
                PROVE  dimension_at[k + 1] =< Len(codes') /\ ReadFrom(codes', k)
    BY <1>1, ReadUnchanged
    DEF Readable, Behind, Agreed, LabelsOnce, Agreeing, LabelsAreNames, NumbersAreBytes, Lines,
        IsInstruction, IsLabel
  <2>1. CASE k = line
    BY <1>1, <1>9, <1>2, <2>1, LenProperties DEF Agreed, IInv, TypeOK
  <2>2. CASE k < line
    <3>1. dimension_at[k + 1] =< Len(codes) /\ ReadFrom(codes, k)
      BY <2>2 DEF IInv, Readable, Behind, Settled
    <3>2. ReadFrom(codes \o bytes, k)
      BY <3>1, ReadGrows DEF IInv, TypeOK, Settled
    <3>3. dimension_at[k + 1] \in Nat /\ Len(codes) \in Nat /\ Len(bytes) \in Nat
      BY DimensionTypes, LenProperties DEF IInv, TypeOK, Settled
    <3>. QED
      BY <1>1, <1>2, <3>1, <3>2, <3>3
  <2>. QED
    BY <1>1, <1>3, <2>1, <2>2 DEF Lines
<1>. QED
  BY <1>4, <1>5, <1>7, <1>8, <1>10, <1>11, <1>12, <1>13 DEF IInv

LEMMA PassLabelKeeps == IInv /\ PassLabel => IInv'
<1>. SUFFICES ASSUME IInv, PassLabel PROVE IInv'
  OBVIOUS
<1>1. pass = "second" /\ line \in Lines /\ this.kind = "label" /\ Emit(<<>>)
  BY ReadLine DEF PassLabel
<1>2. <<>> \in Seq(MemCell) /\ Len(<<>>) = LineSize(this) /\ ~ IsInstruction(line)
  BY <1>1, EmptySeq DEF LineSize, IsInstruction
<1>. QED
  BY <1>1, <1>2, EmitKeeps

LEMMA EmitSkipKeeps == IInv /\ EmitSkip => IInv'
<1>. SUFFICES ASSUME IInv, EmitSkip PROVE IInv'
  OBVIOUS
<1>. DEFINE n == this.args[1].value
            zeros == [i \in 1 .. n |-> 0]
<1>1. pass = "second" /\ line \in Lines /\ this.kind = "skip" /\ Emit(zeros) /\ n \in Nat
  BY ReadLine DEF EmitSkip
<1>2. LineSize(this) = n /\ ~ IsInstruction(line)
  BY <1>1 DEF LineSize, IsInstruction
<1>. HIDE DEF n
<1>3. 0 \in MemCell
  BY CellsAreWide DEF MemCell
<1>4. zeros \in Seq(MemCell)
  BY <1>1, <1>3
<1>5. Len(zeros) = n
  <2>1. DOMAIN zeros = 1 .. n
    OBVIOUS
  <2>. HIDE DEF zeros
  <2>. QED
    BY <1>1, <1>4, <2>1, LenProperties
<1>. HIDE DEF zeros
<1>. QED
  BY <1>1, <1>2, <1>4, <1>5, EmitKeeps

LEMMA EmitInstructionKeeps == IInv /\ EmitInstruction => IInv'
<1>. SUFFICES ASSUME IInv, EmitInstruction PROVE IInv'
  OBVIOUS
<1>1. pass = "second" /\ line \in Lines /\ this.kind = "instruction" /\ TypeOK
  BY ReadLine DEF EmitInstruction
<1>2. IsInstruction(line) /\ HasSignature(this.what, this.args)
  BY <1>1 DEF IsInstruction, IInv, SizesAgree, Passing, Met
<1>3. /\ \A i \in 1 .. Len(this.args) : Resolved(this.args[i])
      /\ Emit(instruction_to_opcode(this.what, this.args))
  BY DEF EmitInstruction
<1>4. /\ instruction_to_opcode(this.what, this.args) \in Seq(MemCell)
      /\ Agreeing => Len(instruction_to_opcode(this.what, this.args)) = LineSize(this)
  BY <1>1, <1>2, <1>3, InstructionBytes
<1>5. Agreed => ReadFrom(codes \o instruction_to_opcode(this.what, this.args), line)
  BY <1>1, <1>2, <1>3, InstructionRead
<1>. QED
  BY <1>1, <1>3, <1>4, <1>5, EmitKeeps

LEMMA NextKeeps == IInv /\ [Next]_vars => IInv'
<1>. SUFFICES ASSUME IInv, [Next]_vars PROVE IInv'
  OBVIOUS
<1>1. CASE NoteLabel \/ CountSkip \/ CountInstruction
  BY <1>1, NoteLabelKeeps, CountSkipKeeps, CountInstructionKeeps
<1>2. CASE SkipOfNothing \/ UnknownInstruction \/ InvalidSkip \/ LabelNotFound
  BY <1>2, ThrowKeeps DEF SkipOfNothing, UnknownInstruction, InvalidSkip, LabelNotFound
<1>3. CASE BeginSecondPass
  BY <1>3, BeginSecondPassKeeps
<1>4. CASE PassLabel \/ EmitSkip \/ EmitInstruction
  BY <1>4, PassLabelKeeps, EmitSkipKeeps, EmitInstructionKeeps
<1>5. CASE Finish
  <2>1. /\ pass' = "done"
        /\ UNCHANGED <<program, line, current_dimension, addresses_of_labels, codes, dimension_at>>
    BY <1>5 DEF Finish
  <2>2. TypeOK'
    BY <2>1 DEF IInv, TypeOK
  <2>3. pass = "second" /\ (\A k \in Lines : Met(k)) /\ \A k \in Lines : k < line
    BY <1>5, AssemblerAssumption, LenProperties DEF Finish, Met, Lines, IInv, TypeOK
  <2>4. (Counted /\ SizesAgree /\ LabelsNoted /\ Emitted)'
    BY <2>1, <2>3
    DEF IInv, Counted, SizesAgree, LabelsNoted, Emitted, Passing, Settled, Lines, Agreeing,
        LabelsAreNames, NumbersAreBytes, IsInstruction, IsLabel, LabelsOnce
  <2>5. (LabelsDefined /\ HeaderWritten)'
    BY <2>1, <2>3 DEF IInv, LabelsDefined, HeaderWritten, Passing, Settled, Lines, IsLabel, Met
  <2>6. Readable'
    BY <2>1, <2>3, ReadUnchanged
    DEF IInv, Readable, Behind, Settled, Agreed, LabelsOnce, Agreeing, LabelsAreNames,
        NumbersAreBytes, Lines, IsInstruction, IsLabel
  <2>. QED
    BY <2>2, <2>4, <2>5, <2>6 DEF IInv
<1>6. CASE UNCHANGED vars
  <2>1. UNCHANGED <<program, pass, line, current_dimension, addresses_of_labels, codes,
                    dimension_at>>
    BY <1>6 DEF vars
  <2>2. (TypeOK /\ Counted /\ SizesAgree /\ LabelsNoted /\ Emitted)'
    BY <2>1
    DEF IInv, TypeOK, Counted, SizesAgree, LabelsNoted, Emitted, Passing, Settled, Met, Lines,
        Agreeing, LabelsAreNames, NumbersAreBytes, IsInstruction, IsLabel, LabelsOnce
  <2>3. (LabelsDefined /\ HeaderWritten)'
    BY <2>1 DEF IInv, LabelsDefined, HeaderWritten, Passing, Settled, Lines, IsLabel, Met
  <2>4. Readable'
    BY <2>1, ReadUnchanged
    DEF IInv, Readable, Behind, Settled, Agreed, LabelsOnce, Agreeing, LabelsAreNames,
        NumbersAreBytes, Lines, IsInstruction, IsLabel
  <2>. QED
    BY <2>2, <2>3, <2>4 DEF IInv
<1>. QED
  BY <1>1, <1>2, <1>3, <1>4, <1>5, <1>6 DEF Next

LEMMA AlwaysIInv == Spec => []IInv
BY InitKeeps, NextKeeps, PTL DEF Spec

\* The state keeps its types: only cells are emitted, and every address of a
\* label is 16-bit, for programs of any length.
THEOREM TypeCorrect == Spec => []TypeOK
<1>1. IInv => TypeOK
  BY DEF IInv
<1>. QED
  BY <1>1, AlwaysIInv, PTL

\* In every program whose labels are names defined once and whose numbers are
\* bytes, the address the first pass gives a label is where the second pass puts
\* its code, however many lines the program has.
THEOREM LabelsAreRight == Spec => []LabelsMeetCode
<1>1. ASSUME IInv PROVE LabelsMeetCode
  <2>. SUFFICES ASSUME LabelsOnce, LabelsAreNames, NumbersAreBytes,
                       pass = "second", line =< Len(program), IsLabel(line)
                PROVE  addresses_of_labels[this.what] = Addr(Len(codes))
    BY DEF LabelsMeetCode, LabelMeetsCode
  <2>1. line \in Lines /\ Met(line)
    BY <1>1, AssemblerAssumption, LenProperties DEF IInv, TypeOK, Lines, Met
  <2>2. addresses_of_labels[this.what] = Addr(dimension_at[line])
    BY <1>1, <2>1 DEF IInv, LabelsNoted, Passing
  <2>3. Len(codes) = dimension_at[line]
    BY <1>1 DEF IInv, Emitted, Agreeing
  <2>. QED
    BY <2>2, <2>3
<1>. QED
  BY <1>1, AlwaysIInv, PTL

\* In every such program the processor reads back, from where the labels say each
\* line is, the instruction, the types and the values that were written, and then
\* stands at the next line: for programs of any length.
THEOREM ReadsBack == Spec => []ProcessorReadsBack
<1>1. ASSUME IInv PROVE ProcessorReadsBack
  <2>. SUFFICES ASSUME pass = "done", LabelsOnce, LabelsAreNames, NumbersAreBytes,
                       NEW k \in Lines, IsInstruction(k)
                PROVE  ReadBack(k)
    BY DEF ProcessorReadsBack
  <2>1. ReadFrom(codes, k)
    BY <1>1 DEF IInv, Readable, Behind, Settled, Agreed, Agreeing
  <2>. QED
    BY <2>1 DEF ReadFrom, ReadBack, Fetched, fetch_argument
<1>. QED
  BY <1>1, AlwaysIInv, PTL

\* The program starts at its label start, or at its first byte of code without
\* one, unless its addresses have wrapped around.
THEOREM StartsAtStart == Spec => []EntryIsStart
<1>1. ASSUME IInv PROVE EntryIsStart
  <2>. SUFFICES ASSUME pass = "done", LabelsOnce, LabelsAreNames, NumbersAreBytes, Addressable
                PROVE  Join(codes[1], codes[2]) =
                           IF \E k \in Lines : IsLabel(k) /\ program[k].what = start
                           THEN Meaning(Plain("name", start))
                           ELSE 2
    BY DEF EntryIsStart
  <2>. DEFINE x == Plain("name", start)
              s == addresses_of_labels[start]
  <2>1. /\ start \in DOMAIN addresses_of_labels /\ s \in MemAddr
        /\ codes[1] = High(s) /\ codes[2] = IF s = 0 THEN 2 ELSE Low(s)
    BY <1>1 DEF IInv, HeaderWritten, Settled, TypeOK
  <2>2. NamesLabel(x) /\ x.value = start
    BY DEF Plain, NamesLabel
  <2>3. s = Meaning(x)
    BY <1>1, <2>1, <2>2, AddressIsMeaning DEF Resolved, Settled
  <2>4. CASE \E k \in Lines : IsLabel(k) /\ program[k].what = start
    <3>1. PICK k \in Lines : IsLabel(k) /\ program[k].what = start
      BY <2>4
    <3>2. s = Addr(dimension_at[k])
      BY <1>1, <3>1 DEF IInv, LabelsNoted, Passing, Met
    <3>3. dimension_at[k] \in 2 .. current_dimension
      <4>1. k \in 1 .. Len(dimension_at)
        BY <1>1, AssemblerAssumption, LenProperties DEF IInv, TypeOK, Counted, Settled, Lines
      <4>. QED
        BY <1>1, <4>1 DEF IInv, Counted
    <3>4. dimension_at[k] \in MemAddr /\ dimension_at[k] # 0
      BY <3>3, CellsAreWide DEF Addressable, MemAddr
    <3>5. s # 0
      BY <3>2, <3>4, AddrOfAddr
    <3>6. Join(codes[1], codes[2]) = s
      BY <2>1, <3>5, JoinBytes
    <3>. QED
      BY <2>3, <2>4, <3>6
  <2>5. CASE ~ \E k \in Lines : IsLabel(k) /\ program[k].what = start
    <3>1. s = 0
      BY <1>1, <2>1, <2>5 DEF IInv, LabelsDefined, Passing, Settled
    <3>2. High(0) = 0
      BY CellsAreWide DEF High
    <3>. QED
      BY <2>1, <2>5, <3>1, <3>2, CellsAreWide DEF Join
  <2>. QED
    BY <2>4, <2>5
<1>. QED
  BY <1>1, AlwaysIInv, PTL
=============================================================================

----------------------------- MODULE Assembler -----------------------------
(***************************************************************************)
(* The assembler (src/Assembler.cpp), line by line.  Its first pass counts *)
(* sizes to learn the address of each label, its second pass emits bytes;  *)
(* the two read the same arguments with different code.                    *)
(*                                                                         *)
(* A line is what is left of it once comments, blank lines and commas are  *)
(* gone.  What an argument looks like is its shape: a number, a register,  *)
(* a name (it begins with a letter or '_') or a symbol (a label that does  *)
(* not), in brackets or not.                                               *)
(***************************************************************************)
EXTENDS Word, InstructionSet, Sequences

CONSTANT Programs   \* sequences of lines

Shapes == {"number", "register", "name", "symbol"}
\* A register is one of register_map, which numbers them by one byte.
Argument ==
    [shape : Shapes \ {"register"}, bracketed : BOOLEAN, value : Int]
        \cup [shape : {"register"}, bracketed : BOOLEAN, value : MemCell]
Line ==
    [kind : {"label", "instruction"}, what : Nat, args : Seq(Argument)]
        \cup [kind : {"skip"}, what : Nat, args : Seq(Argument)]

ASSUME AssemblerAssumption ==
    /\ CellRange >= 256   \* a cell holds every opcode
    /\ Programs \subseteq Seq(Line)
    \* The size of a .skip is what std::stoull reads.
    /\ \A p \in Programs : \A k \in 1 .. Len(p) : p[k].kind = "skip" =>
           \A i \in 1 .. Len(p[k].args) : p[k].args[i].value \in Nat

VARIABLES
    program,
    pass,                  \* first, second, or how asm_to_opcodes ended
    line,                  \* the line that is read next
    current_dimension,
    addresses_of_labels,
    codes,
    dimension_at           \* current_dimension as the first pass met each line

vars == <<program, pass, line, current_dimension, addresses_of_labels, codes,
          dimension_at>>

-----------------------------------------------------------------------------
(* How the two passes read an argument.                                       *)

BracketedType(x) ==
    CASE x.shape = "register" -> INDIRECT_REG
      [] x.shape = "number" -> INDIRECT_MEM
      [] OTHER -> INDIRECT_LBL

\* The first pass knows the labels it has met so far.
FirstPassType(x) ==
    IF x.bracketed THEN BracketedType(x)
    ELSE CASE x.shape = "register" -> REGISTER
           [] x.shape = "name" -> ADDRESS
           [] x.shape = "symbol" /\ x.value \in DOMAIN addresses_of_labels -> ADDRESS
           [] OTHER -> NUMBER

SecondPassType(x) ==
    IF x.bracketed THEN BracketedType(x)
    ELSE CASE x.shape = "register" -> REGISTER
           [] x.shape = "number" /\ x.value >= CellRange -> NUMBER_16
           [] x.shape = "number" /\ x.value < CellRange -> NUMBER
           [] OTHER -> ADDRESS

SizeWithoutMemory(type) == IF type \in {ADDRESS, INDIRECT_LBL} THEN 3 ELSE 2
SizeOf(type) == IF type \in Wide THEN 3 ELSE 2

\* instruction_size.  No instruction of the table takes more than two arguments.
InstructionSize(args) ==
    1 + (IF Len(args) >= 1 THEN SizeOf(FirstPassType(args[1])) ELSE 0)
      + (IF Len(args) = 2 THEN SizeOf(FirstPassType(args[2])) ELSE 0)

HasSignature(op, args) ==
    \/ op \in NoArguments /\ Len(args) = 0
    \/ op \in OneArgument /\ Len(args) = 1
    \/ op \in TwoArguments /\ Len(args) = 2

NamesLabel(x) == x.shape \in {"name", "symbol"}
Resolved(x) == NamesLabel(x) => x.value \in DOMAIN addresses_of_labels

EncodedUncast(x) ==
    LET type == SecondPassType(x)
        addr == IF NamesLabel(x) THEN addresses_of_labels[x.value] ELSE Addr(x.value)
    IN  CASE type \in Wide -> <<type, High(addr), Low(addr)>>
          [] type = NUMBER_16 -> <<type, High(x.value), Low(x.value)>>
          [] OTHER -> <<type, x.value>>
EncodedLowFirst(x) ==
    LET type == SecondPassType(x)
        addr == IF NamesLabel(x) THEN addresses_of_labels[x.value] ELSE Addr(x.value)
    IN  CASE type \in Wide -> <<type, Low(addr), High(addr)>>
          [] type = NUMBER_16 -> <<type, High(x.value), Low(x.value)>>
          [] OTHER -> <<type, Cell(x.value)>>
\* What instruction_to_opcode appends for one argument.
Encoded(x) ==
    LET type == SecondPassType(x)
        addr == IF NamesLabel(x) THEN addresses_of_labels[x.value] ELSE Addr(x.value)
    IN  CASE type \in Wide -> <<type, High(addr), Low(addr)>>
          [] type = NUMBER_16 -> <<type, High(x.value), Low(x.value)>>
          [] OTHER -> <<type, Cell(x.value)>>

instruction_to_opcode(op, args) ==
    <<op>> \o (IF Len(args) >= 1 THEN Encoded(args[1]) ELSE <<>>)
           \o (IF Len(args) = 2 THEN Encoded(args[2]) ELSE <<>>)

-----------------------------------------------------------------------------
(* The passes.                                                                *)

Reading(p, kind) == pass = p /\ line =< Len(program) /\ program[line].kind = kind
this == program[line]

\* The first pass goes on to the next line, n bytes further.
Count(n) ==
    /\ current_dimension' = current_dimension + n
    /\ dimension_at' = Append(dimension_at, current_dimension + n)
    /\ line' = line + 1
    /\ UNCHANGED <<program, pass, codes>>

Throw ==
    /\ pass' = "thrown"
    /\ UNCHANGED <<program, line, current_dimension, addresses_of_labels, codes,
                   dimension_at>>

\* addresses_of_labels[l] = addr.
WithLabel(l, addr) ==
    [m \in DOMAIN addresses_of_labels \cup {l} |->
        IF m = l THEN addr ELSE addresses_of_labels[m]]

NoteLabel ==
    /\ Reading("first", "label")
    /\ addresses_of_labels' = WithLabel(this.what, Addr(current_dimension))
    /\ Count(0)

CountSkip ==
    /\ Reading("first", "skip")
    /\ this.args # <<>>
    /\ Count(this.args[1].value)
    /\ UNCHANGED addresses_of_labels

SkipOfNothing ==
    /\ Reading("first", "skip")
    /\ this.args = <<>>
    /\ Throw

CountInstruction ==
    /\ Reading("first", "instruction")
    /\ HasSignature(this.what, this.args)
    /\ Count(InstructionSize(this.args))
    /\ UNCHANGED addresses_of_labels

UnknownInstruction ==
    /\ Reading("first", "instruction")
    /\ ~ HasSignature(this.what, this.args)
    /\ Throw

HeaderUnset ==
    LET s == IF start \in DOMAIN addresses_of_labels THEN addresses_of_labels[start] ELSE 0
    IN  <<High(s), Low(s)>>
\* The entry point: that of the label start, or 2 if there is none.
Header ==
    LET s == IF start \in DOMAIN addresses_of_labels THEN addresses_of_labels[start] ELSE 0
    IN  <<High(s), IF s = 0 THEN 2 ELSE Low(s)>>

\* Asking a map for start makes an entry for it, with address 0.
BeginSecondPass ==
    /\ pass = "first"
    /\ line > Len(program)
    /\ pass' = "second"
    /\ line' = 1
    /\ addresses_of_labels' =
           IF start \in DOMAIN addresses_of_labels
           THEN addresses_of_labels
           ELSE WithLabel(start, 0)
    /\ codes' = Header
    /\ UNCHANGED <<program, current_dimension, dimension_at>>

\* The second pass goes on to the next line, with bytes emitted.
Emit(bytes) ==
    /\ codes' = codes \o bytes
    /\ line' = line + 1
    /\ UNCHANGED <<program, pass, current_dimension, addresses_of_labels, dimension_at>>

PassLabel ==
    /\ Reading("second", "label")
    /\ Emit(<<>>)

EmitSkip ==
    /\ Reading("second", "skip")
    /\ Len(this.args) = 1
    /\ Emit([i \in 1 .. this.args[1].value |-> 0])

InvalidSkip ==
    /\ Reading("second", "skip")
    /\ Len(this.args) # 1
    /\ Throw

EmitInstruction ==
    /\ Reading("second", "instruction")
    /\ \A i \in 1 .. Len(this.args) : Resolved(this.args[i])
    /\ Emit(instruction_to_opcode(this.what, this.args))

LabelNotFound ==
    /\ Reading("second", "instruction")
    /\ \E i \in 1 .. Len(this.args) : ~ Resolved(this.args[i])
    /\ Throw

Finish ==
    /\ pass = "second"
    /\ line > Len(program)
    /\ pass' = "done"
    /\ UNCHANGED <<program, line, current_dimension, addresses_of_labels, codes,
                   dimension_at>>

Init ==
    /\ program \in Programs
    /\ pass = "first"
    /\ line = 1
    /\ current_dimension = 2
    /\ addresses_of_labels = <<>>
    /\ codes = <<>>
    /\ dimension_at = <<2>>

Next ==
    \/ NoteLabel \/ CountSkip \/ SkipOfNothing \/ CountInstruction \/ UnknownInstruction
    \/ BeginSecondPass
    \/ PassLabel \/ EmitSkip \/ InvalidSkip \/ EmitInstruction \/ LabelNotFound \/ Finish

Spec == Init /\ [][Next]_vars

-----------------------------------------------------------------------------
TypeOK ==
    /\ program \in Programs
    /\ pass \in {"first", "second", "done", "thrown"}
    /\ line \in 1 .. (Len(program) + 1)
    /\ current_dimension \in Nat
    /\ DOMAIN addresses_of_labels \subseteq Nat
    /\ \A l \in DOMAIN addresses_of_labels : addresses_of_labels[l] \in MemAddr
    /\ codes \in Seq(MemCell)
    /\ dimension_at \in Seq(Nat)

-----------------------------------------------------------------------------
(* The programs on which the two passes agree.                                *)

IsLabel(k) == program[k].kind = "label"
IsInstruction(k) == program[k].kind = "instruction"
Lines == 1 .. Len(program)

LabelsOnce ==
    \A j, k \in Lines :
        IsLabel(j) /\ IsLabel(k) /\ program[j].what = program[k].what => j = k

\* Labels begin with a letter, as all those of tests/code.asm do.
LabelsAreNames ==
    \A k \in Lines : \A i \in 1 .. Len(program[k].args) :
        program[k].args[i].shape # "symbol"

NumbersAreBytes ==
    \A k \in Lines : IsInstruction(k) =>
        \A i \in 1 .. Len(program[k].args) :
            LET x == program[k].args[i]
            IN  x.shape = "number" /\ ~ x.bracketed => x.value < CellRange

\* The sizes the first pass counts are the bytes the second pass emits: when the
\* second pass comes to a label, as many bytes have been emitted as the address
\* it was given.
LabelMeetsCode ==
    pass = "second" /\ line =< Len(program) /\ IsLabel(line) =>
        addresses_of_labels[this.what] = Addr(Len(codes))

LabelsMeetCode ==
    LabelsOnce /\ LabelsAreNames /\ NumbersAreBytes => LabelMeetsCode

\* What README.md says of numbers ("shifts automatically to a 2-byte NUMBER_16
\* token if >= 256") and of labels ("resolving target jump addresses at compile
\* time"): labels are right with numbers of any size.
LabelsMeetCodeWithAnyNumber ==
    LabelsOnce /\ LabelsAreNames => LabelMeetsCode

\* VM::fetch_argument, at an offset from first_sector.
fetch_argument(o) ==
    LET type == codes[o + 1]
    IN  IF type \in Wide \cup {NUMBER_16}
        THEN [type |-> type, value |-> Join(codes[o + 2], codes[o + 3]), next |-> o + 3]
        ELSE [type |-> type, value |-> codes[o + 2], next |-> o + 2]

\* What an argument means: a label is where the line that defines it ends up.
Meaning(x) ==
    CASE NamesLabel(x) ->
           IF \E k \in Lines : IsLabel(k) /\ program[k].what = x.value
           THEN Addr(dimension_at[CHOOSE k \in Lines :
                                     IsLabel(k) /\ program[k].what = x.value])
           ELSE 0
      [] x.shape = "number" /\ x.bracketed -> Addr(x.value)
      [] x.shape = "number" /\ ~ x.bracketed -> Cell(x.value)
      [] x.shape = "register" -> x.value

Reads(fetched, x) == fetched.type = SecondPassType(x) /\ fetched.value = Meaning(x)

ReadBack(k) ==
    LET args == program[k].args
        o == dimension_at[k]
        first == fetch_argument(o + 1)
        second == fetch_argument(first.next)
    IN  /\ codes[o + 1] = program[k].what
        /\ Len(args) >= 1 => Reads(first, args[1])
        /\ Len(args) = 2 => Reads(second, args[2])
        /\ dimension_at[k + 1] = CASE Len(args) = 0 -> o + 1
                                   [] Len(args) = 1 -> first.next
                                   [] Len(args) = 2 -> second.next

\* The processor reads back, from where the labels say each line is, the
\* instruction, types and values that were written, and then stands at the next
\* line.
ProcessorReadsBack ==
    pass = "done" /\ LabelsOnce /\ LabelsAreNames /\ NumbersAreBytes =>
        \A k \in Lines : IsInstruction(k) => ReadBack(k)

\* Every address the first pass has counted is 16-bit.
Addressable == current_dimension \in MemAddr

\* The first two bytes lead to the code after start, or to the first byte of
\* code in a program without that label.
EntryIsStart ==
    pass = "done" /\ LabelsOnce /\ LabelsAreNames /\ NumbersAreBytes /\ Addressable =>
        Join(codes[1], codes[2]) =
            IF \E k \in Lines : IsLabel(k) /\ program[k].what = start
            THEN Meaning(Plain("name", start))
            ELSE 2
=============================================================================

----------------------------- MODULE Processor -----------------------------
(***************************************************************************)
(* VM::exec (src/VM.cpp) running one process in headless mode: the fetch-  *)
(* decode-execute loop over the bytes of RAM, with every instruction.      *)
(*                                                                         *)
(*     first_sector     heap_start        heap_limit      stack_top        *)
(*          | header, code  |     heap        |     stack     |            *)
(*                                                                         *)
(* HALLOC and HFREE run their loops pass by pass (HeapManager).  The       *)
(* program may set the GUI byte, but no window was opened when exec        *)
(* started, so `window` is the uninitialized pointer of VM.cpp:135.        *)
(***************************************************************************)
EXTENDS HeapManager, InstructionSet, Sequences

CONSTANTS
    first_sector,  \* Process::first_sector; heap_start is last_code_sector
    stack_top,     \* first_sector + allocated_memory; heap_limit is stack_limit
    FbSize,        \* FRAMEBUFFER_TOT_SIZE
    Colors,        \* how many entries VMconf::COLORS has
    RegCount,      \* VMRegisters::COUNT
    Images,        \* the programs: functions from the code's addresses to bytes
    Inputs         \* what std::cin may deliver, cast to a MemCell

last_code_sector == heap_start
stack_limit == heap_limit
framebuffer_start == RamSize - FbSize
gui_byte == RamSize - FbSize - 1

ASSUME ProcessorAssumption ==
    /\ first_sector \in Nat /\ stack_top \in Nat /\ FbSize \in Nat
    /\ RegCount \in Nat \ {0} /\ Colors \in Nat
    /\ first_sector + 2 =< heap_start
    /\ heap_start + 5 < RamSize   \* the longest instruction ends in RAM
    /\ 2 =< heap_limit /\ heap_limit =< stack_top
    /\ stack_top =< gui_byte
    /\ Images \subseteq [first_sector .. (heap_start - 1) -> MemCell]
    /\ Inputs \subseteq MemCell

VARIABLES
    registers,
    flags,     \* zero and sign, as the last CMP left them
    PC,
    SP,
    running,   \* Process::running
    outcome,   \* exec still runs, has returned, or has left by an exception;
               \* "undefined" is an access past the end of a vector
    dest,      \* place_to_alloc, while HALLOC's loop runs
    pushed,    \* the bytes pushed and not popped, the last one first
    compared   \* the operands of the last CMP

data == <<RAM, registers, pushed>>
comparison == <<flags, compared>>
between == <<heap_op, cursor, size, dest>>   \* fixed while no heap loop runs
vars == <<data, comparison, between, PC, SP, running, outcome>>

Registers == 0 .. (RegCount - 1)
RawArgument == [type : MemCell, value : MemAddr, next : MemAddr]
NoArgument == [type |-> 0, value |-> 0, next |-> 0]

-----------------------------------------------------------------------------
(* Arguments and the places they name. *)

\* VM::fetch_argument at address pc; next is where it leaves PC.
fetch_argument(pc) ==
    LET type == RAM[pc]
        at == Addr(pc + 1)
    IN  CASE type \in Wide \cup {NUMBER_16} ->
               [type |-> type, value |-> Join(RAM[at], RAM[at + 1]), next |-> Addr(at + 2)]
          [] type \in {REGISTER, INDIRECT_REG, NUMBER} ->
               [type |-> type, value |-> RAM[at], next |-> Addr(at + 1)]
          [] OTHER -> [type |-> type, value |-> 0, next |-> at]

\* A place: an index of registers or of RAM, or none when resolving throws.
Place(space, at) == [space |-> space, at |-> at]
Outside == Place("RAM", RamSize)

\* VM::resolve_writeable_arg.
resolve_writeable_arg(x) ==
    LET addr == Addr(x.value + first_sector)
    IN  CASE x.type = REGISTER -> Place("registers", x.value - 1)
          [] x.type \in {ADDRESS, INDIRECT_MEM} -> Place("RAM", addr)
          [] x.type = INDIRECT_LBL ->
               IF addr + 1 < RamSize
               THEN Place("RAM", first_sector + Join(RAM[addr], RAM[addr + 1]))
               ELSE Outside
          [] x.type = INDIRECT_REG ->
               IF x.value - 1 \in Registers
               THEN Place("RAM", first_sector + registers[x.value - 1])
               ELSE Outside
          [] OTHER -> Place("none", 0)

\* What using a place comes to: vectors are indexed without a check.
Use(p) ==
    CASE p.space = "none" -> "thrown"
      [] p.space = "registers" -> IF p.at \in Registers THEN "exec" ELSE "undefined"
      [] p.space = "RAM" -> IF p.at < RamSize THEN "exec" ELSE "undefined"

CellAt(p) == IF p.space = "registers" THEN registers[p.at] ELSE RAM[p.at]

\* An argument that is only read may also be an immediate value, if its type is
\* one of literals.
UseValue(x, literals) ==
    IF x.type \in literals THEN "exec" ELSE Use(resolve_writeable_arg(x))
Value(x, literals) ==
    IF x.type \in literals THEN x.value ELSE CellAt(resolve_writeable_arg(x))
Operand(x) == Cell(Value(x, {NUMBER}))

\* The first of two uses that fails decides.
Both(u, v) == IF u # "exec" THEN u ELSE v

\* The bytes pushed, after v is stored in RAM at a.
Overwritten(a, v) ==
    [k \in DOMAIN pushed |-> IF SP + k - 1 = a THEN v ELSE pushed[k]]

Store(p, v) ==
    IF p.space = "registers"
    THEN /\ registers' = [registers EXCEPT ![p.at] = v]
         /\ UNCHANGED <<RAM, pushed>>
    ELSE /\ RAM' = [RAM EXCEPT ![p.at] = v]
         /\ pushed' = Overwritten(p.at, v)
         /\ UNCHANGED registers

-----------------------------------------------------------------------------
(* The loop and its instructions.  Executing(op) is the loop's condition and  *)
(* the dispatch on the opcode; first and second are the arguments after it.   *)

Executing(op) ==
    /\ outcome = "exec"
    /\ heap_op = "none"
    /\ running /\ PC < last_code_sector
    /\ RAM[PC] = op

first == fetch_argument(Addr(PC + 1))
second == fetch_argument(first.next)

Nop ==
    /\ Executing(NOP)
    /\ PC' = Addr(PC + 1)
    /\ UNCHANGED <<data, comparison, between, SP, running, outcome>>

\* PRINT and PRINTFLUSH write to std::cout, which nothing reads back.
PrintValue ==
    /\ Executing(PRINT)
    /\ PC' = first.next
    /\ outcome' = UseValue(first, {NUMBER})
    /\ UNCHANGED <<data, comparison, between, SP, running>>

PrintFlush ==
    /\ Executing(PRINTFLUSH)
    /\ PC' = Addr(PC + 1)
    /\ UNCHANGED <<data, comparison, between, SP, running, outcome>>

\* MOV, ADD, SUB, MUL: the source is read, then the destination is updated.
Compute(op, result) ==
    LET use == Both(UseValue(second, {NUMBER}), Use(resolve_writeable_arg(first)))
    IN  /\ Executing(op)
        /\ PC' = second.next
        /\ outcome' = use
        /\ IF use = "exec"
           THEN Store(resolve_writeable_arg(first), result)
           ELSE UNCHANGED data
        /\ UNCHANGED <<comparison, between, SP, running>>

Target == CellAt(resolve_writeable_arg(first))

Mov == Compute(MOV, Operand(second))
AddUnwrapped == Compute(ADD, Target + Operand(second))
Add == Compute(ADD, Cell(Target + Operand(second)))
Sub == Compute(SUB, Cell(Target - Operand(second)))
Mul == Compute(MUL, Cell(Target * Operand(second)))

Div ==
    /\ Executing(DIV)
    /\ UseValue(second, {NUMBER}) = "exec" => Operand(second) # 0
    /\ Compute(DIV, Target \div Operand(second))

DivByZero ==
    /\ Executing(DIV)
    /\ UseValue(second, {NUMBER}) = "exec" /\ Operand(second) = 0
    /\ PC' = second.next
    /\ outcome' = "thrown"
    /\ UNCHANGED <<data, comparison, between, SP, running>>

get_gui == RAM[gui_byte] = 1

\* With the GUI byte set and a garbage pointer that is not null, the key is
\* read, and none was ever pressed; otherwise the number comes from std::cin.
Input ==
    /\ Executing(INPUT)
    /\ PC' = first.next
    /\ outcome' = Use(resolve_writeable_arg(first))
    /\ IF outcome' = "exec"
       THEN \E v \in Inputs \cup (IF get_gui THEN {0} ELSE {}) :
                Store(resolve_writeable_arg(first), v)
       ELSE UNCHANGED data
    /\ UNCHANGED <<comparison, between, SP, running>>

-----------------------------------------------------------------------------
(* Comparisons and jumps. *)

CmpInOneByte ==
    LET use == Both(UseValue(first, {NUMBER}), UseValue(second, {NUMBER}))
        res == Cell(Operand(first) - Operand(second))
    IN  /\ Executing(CMP)
        /\ PC' = second.next
        /\ outcome' = use
        /\ IF use = "exec"
           THEN /\ flags' = [zero |-> res = 0, sign |-> res > 0]
                /\ compared' = <<Operand(first), Operand(second)>>
           ELSE UNCHANGED comparison
        /\ UNCHANGED <<data, between, SP, running>>
Cmp ==
    LET use == Both(UseValue(first, {NUMBER}), UseValue(second, {NUMBER}))
        res == Operand(first) - Operand(second)
    IN  /\ Executing(CMP)
        /\ PC' = second.next
        /\ outcome' = use
        /\ IF use = "exec"
           THEN /\ flags' = [zero |-> res = 0, sign |-> res > 0]
                /\ compared' = <<Operand(first), Operand(second)>>
           ELSE UNCHANGED comparison
        /\ UNCHANGED <<data, between, SP, running>>

\* A jump that is not taken does not look at its target.
Jump(op, taken, literals) ==
    /\ Executing(op)
    /\ outcome' = IF taken THEN UseValue(first, literals) ELSE "exec"
    /\ PC' = IF taken /\ outcome' = "exec"
             THEN Addr(first_sector + Value(first, literals))
             ELSE first.next
    /\ UNCHANGED <<data, comparison, between, SP, running>>

Jmp == Jump(JMP, TRUE, {ADDRESS})
Je == Jump(JE, flags.zero, {NUMBER, ADDRESS})
Jne == Jump(JNE, ~ flags.zero, {NUMBER, ADDRESS})
Jg == Jump(JG, flags.sign, {NUMBER, ADDRESS})
Jng == Jump(JNG, ~ flags.sign, {NUMBER, ADDRESS})

-----------------------------------------------------------------------------
(* The stack.  SP moves before the overflow check, so a push that throws      *)
(* leaves it below the limit.                                                 *)

PushBeforeCheck(bytes) ==
    /\ SP' = Addr(SP - Len(bytes))
    /\ outcome' = IF SP' < stack_limit THEN "thrown" ELSE outcome
    /\ RAM' = [a \in DOMAIN RAM |->
                  IF a \in SP' .. (SP' + Len(bytes) - 1)
                  THEN bytes[a - SP' + 1]
                  ELSE RAM[a]]
    /\ pushed' = bytes \o pushed

PushLowFirst(bytes) ==
    /\ SP' = Addr(SP - Len(bytes))
    /\ IF SP' < stack_limit
       THEN outcome' = "thrown" /\ UNCHANGED <<RAM, pushed>>
       ELSE /\ UNCHANGED outcome
            /\ RAM' = [a \in DOMAIN RAM |->
                          IF a \in SP' .. (SP' + Len(bytes) - 1)
                          THEN bytes[Len(bytes) - (a - SP')]
                          ELSE RAM[a]]
            /\ pushed' = bytes \o pushed

\* proc.SP -= n, its check, and the bytes stored, the one at SP first.
Push(bytes) ==
    /\ SP' = Addr(SP - Len(bytes))
    /\ IF SP' < stack_limit
       THEN outcome' = "thrown" /\ UNCHANGED <<RAM, pushed>>
       ELSE /\ UNCHANGED outcome
            /\ RAM' = [a \in DOMAIN RAM |->
                          IF a \in SP' .. (SP' + Len(bytes) - 1)
                          THEN bytes[a - SP' + 1]
                          ELSE RAM[a]]
            /\ pushed' = bytes \o pushed

UnderflowPastTop(n) == SP > stack_top
Underflow(n) == SP + n > stack_top

Pop(n) ==
    /\ SP' = Addr(SP + n)
    /\ pushed' = SubSeq(pushed, n + 1, Len(pushed))

Width(x) == IF x.type \in Wide THEN 2 ELSE 1

\* VM::spush.  The cell read fills the low byte, whatever the width.
Spush ==
    /\ Executing(SPUSH)
    /\ PC' = first.next
    /\ IF UseValue(first, {NUMBER}) = "exec"
       THEN Push(IF Width(first) = 1 THEN <<Operand(first)>> ELSE <<0, Operand(first)>>)
       ELSE outcome' = UseValue(first, {NUMBER}) /\ UNCHANGED <<RAM, SP, pushed>>
    /\ UNCHANGED <<registers, comparison, between, running>>

\* VM::spop.  Of two bytes popped, the cell that is written keeps the low one.
Spop ==
    LET place == resolve_writeable_arg(first)
        n == Width(first)
        v == RAM[SP + n - 1]
    IN  /\ Executing(SPOP)
        /\ PC' = first.next
        /\ outcome' = IF Underflow(n) THEN "thrown" ELSE Use(place)
        /\ IF outcome' = "exec"
           THEN /\ SP' = Addr(SP + n)
                /\ pushed' = SubSeq(IF place.space = "RAM" THEN Overwritten(place.at, v)
                                    ELSE pushed, n + 1, Len(pushed))
                /\ IF place.space = "registers"
                   THEN registers' = [registers EXCEPT ![place.at] = v] /\ UNCHANGED RAM
                   ELSE RAM' = [RAM EXCEPT ![place.at] = v] /\ UNCHANGED registers
           ELSE UNCHANGED <<data, SP>>
        /\ UNCHANGED <<comparison, between, running>>

\* The address called is used as it stands, without first_sector.
Call ==
    /\ Executing(CALL)
    /\ first.type = ADDRESS
    /\ Push(<<High(first.next), Low(first.next)>>)
    /\ PC' = IF outcome' = "exec" THEN first.value ELSE first.next
    /\ UNCHANGED <<registers, comparison, between, running>>

CallNonLabel ==
    /\ Executing(CALL)
    /\ first.type # ADDRESS
    /\ PC' = first.next
    /\ outcome' = "thrown"
    /\ UNCHANGED <<data, comparison, between, SP, running>>

Ret ==
    /\ Executing(RET)
    /\ IF Underflow(2)
       THEN /\ outcome' = "thrown"
            /\ PC' = Addr(PC + 1)
            /\ UNCHANGED <<SP, pushed>>
       ELSE /\ Pop(2)
            /\ PC' = Join(RAM[SP], RAM[SP + 1])
            /\ UNCHANGED outcome
    /\ UNCHANGED <<RAM, registers, comparison, between, running>>

-----------------------------------------------------------------------------
(* The heap instructions: HeapManager's loops, and the end of HALLOC, which   *)
(* stores the address it found as one cell.                                   *)

Halloc ==
    LET use == UseValue(second, {NUMBER})
    IN  /\ Executing(HALLOC)
        /\ PC' = second.next
        /\ outcome' = use
        /\ IF use = "exec"
           THEN BeginHalloc(Value(second, {NUMBER})) /\ dest' = first
           ELSE UNCHANGED <<RAM, between>>
        /\ UNCHANGED <<registers, pushed, comparison, SP, running>>

HallocStore ==
    LET place == resolve_writeable_arg(dest)
    IN  /\ outcome = "exec"
        /\ heap_op = "granted"
        /\ heap_op' = "none" /\ cursor' = 0 /\ size' = 0
        /\ dest' = NoArgument
        /\ outcome' = Use(place)
        /\ IF outcome' = "exec" THEN Store(place, Cell(cursor)) ELSE UNCHANGED data
        /\ UNCHANGED <<comparison, PC, SP, running>>

Hfree ==
    LET use == UseValue(first, {ADDRESS})
        p == Value(first, {ADDRESS})
    IN  /\ Executing(HFREE)
        /\ PC' = first.next
        /\ \/ /\ use = "exec"
              /\ BeginHfree(p) \/ HfreeThrows(p) \/ HfreeUndefined(p)
              /\ outcome' = IF heap_op' = "hfree" THEN "exec" ELSE heap_op'
              /\ pushed' = IF heap_op' = "hfree"
                           THEN Overwritten(HeaderOf(p) + 2, FREE)
                           ELSE pushed
           \/ /\ use # "exec"
              /\ outcome' = use
              /\ UNCHANGED <<heap_vars, pushed>>
        /\ UNCHANGED <<registers, comparison, SP, running, dest>>

\* On a chain that the program has damaged the loops write where it leads them.
HeapLoop ==
    /\ outcome = "exec"
    /\ HeapStep
    /\ outcome' = IF heap_op' \in {"thrown", "undefined"} THEN heap_op' ELSE "exec"
    /\ pushed' = IF ChainIntact
                 THEN pushed
                 ELSE [k \in DOMAIN pushed |-> RAM'[SP + k - 1]]
    /\ UNCHANGED <<registers, comparison, PC, SP, running, dest>>

-----------------------------------------------------------------------------
(* The framebuffer.                                                           *)

\* Two registers, or two bytes of RAM, read as one index: the cells needed.
IndexCells(x) ==
    CASE x.type = REGISTER ->
           <<Place("registers", x.value - 1), Place("registers", x.value)>>
      [] x.type = INDIRECT_REG ->
           IF x.value - 1 \in Registers
           THEN LET a == Addr(first_sector + registers[x.value - 1])
                IN  <<Place("RAM", a), Place("RAM", a + 1)>>
           ELSE <<Outside, Outside>>
      [] x.type \in {INDIRECT_MEM, ADDRESS} ->
           LET a == Addr(first_sector + x.value)
           IN  <<Place("RAM", a), Place("RAM", a + 1)>>

Immediate(x) == x.type \in {NUMBER, NUMBER_16}
Paired(x) == x.type \in {REGISTER, INDIRECT_REG, INDIRECT_MEM, ADDRESS}

UseIndex(x) ==
    IF Paired(x) THEN Both(Use(IndexCells(x)[1]), Use(IndexCells(x)[2])) ELSE "exec"

final_pixel_index(x) ==
    CASE Immediate(x) -> x.value
      [] Paired(x) -> Join(CellAt(IndexCells(x)[1]), CellAt(IndexCells(x)[2]))
      [] OTHER -> 0

\* What FBSET comes to, its checks in the code's order.  The bound is checked
\* on the argument itself, not on the index it leads to.
FbsetOutcome ==
    IF first.type = INDIRECT_LBL \/ ~ get_gui THEN "thrown"
    ELSE LET use == Both(UseIndex(first), UseValue(second, {NUMBER}))
         IN  IF use # "exec" THEN use
             ELSE IF first.value >= FbSize THEN "thrown"
             ELSE Use(Place("RAM", framebuffer_start + final_pixel_index(first)))

Fbset ==
    /\ Executing(FBSET)
    /\ PC' = second.next
    /\ outcome' = FbsetOutcome
    /\ IF outcome' = "exec"
       THEN Store(Place("RAM", framebuffer_start + final_pixel_index(first)),
                  Cell(Value(second, {NUMBER})))
       ELSE UNCHANGED data
    /\ UNCHANGED <<comparison, between, SP, running>>

\* With no window open, FBSYNC follows a garbage pointer; only if that happens
\* to be null, and every pixel names a color, does it do nothing.
Fbsync ==
    /\ Executing(FBSYNC)
    /\ PC' = Addr(PC + 1)
    /\ \/ outcome' = "undefined"
       \/ /\ \A i \in 0 .. (FbSize - 1) : RAM[framebuffer_start + i] < Colors
          /\ UNCHANGED outcome
    /\ UNCHANGED <<data, comparison, between, SP, running>>

-----------------------------------------------------------------------------
(* The end of exec.                                                           *)

Halt ==
    /\ Executing(HALT)
    /\ PC' = Addr(PC + 1)
    /\ running' = FALSE
    /\ UNCHANGED <<data, comparison, between, SP, outcome>>

Opcodes == {NOP, MOV, PRINT, PRINTFLUSH, ADD, SUB, MUL, DIV, INPUT, JMP, CMP, JE, JNE,
            JG, JNG, SPUSH, SPOP, HALLOC, HFREE, CALL, RET, FBSET, FBSYNC, HALT}

InvalidInstruction ==
    /\ PC < last_code_sector
    /\ Executing(RAM[PC])
    /\ RAM[PC] \notin Opcodes
    /\ PC' = Addr(PC + 1)
    /\ outcome' = "thrown"
    /\ UNCHANGED <<data, comparison, between, SP, running>>

\* The loop ends.  If the program has set the GUI byte, exec waits for a window
\* through the garbage pointer.
Finish ==
    /\ outcome = "exec"
    /\ heap_op = "none"
    /\ ~ running \/ PC >= last_code_sector
    /\ \/ outcome' = "finished" /\ PC' = first_sector
       \/ get_gui /\ outcome' = "undefined" /\ UNCHANGED PC
    /\ UNCHANGED <<data, comparison, between, SP, running>>

-----------------------------------------------------------------------------
\* What load_program leaves: the image at first_sector, the first heap header
\* after it, PC at the entry point its first two bytes give, an empty stack.
Init ==
    /\ \E image \in Images :
         /\ RAM = WithFirstHeader([a \in 0 .. (RamSize - 1) |->
                                      IF a \in DOMAIN image THEN image[a] ELSE 0])
         /\ PC = Addr(first_sector + Join(image[first_sector], image[first_sector + 1]))
    /\ registers = [i \in Registers |-> 0]
    /\ flags = [zero |-> FALSE, sign |-> FALSE]
    /\ SP = stack_top
    /\ running = TRUE
    /\ outcome = "exec"
    /\ heap_op = "none" /\ cursor = 0 /\ size = 0
    /\ dest = NoArgument
    /\ pushed = <<>>
    /\ compared = <<0, 1>>

Next ==
    \/ Nop \/ Mov \/ PrintValue \/ PrintFlush \/ Add \/ Sub \/ Mul \/ Div \/ DivByZero
    \/ Input \/ Jmp \/ Cmp \/ Je \/ Jne \/ Jg \/ Jng \/ Spush \/ Spop
    \/ Halloc \/ HallocStore \/ Hfree \/ HeapLoop \/ Call \/ CallNonLabel \/ Ret
    \/ Fbset \/ Fbsync \/ Halt \/ InvalidInstruction \/ Finish

Spec == Init /\ [][Next]_vars

-----------------------------------------------------------------------------
TypeOK ==
    /\ RAM \in [0 .. (RamSize - 1) -> MemCell]
    /\ registers \in [Registers -> MemCell]
    /\ flags \in [zero : BOOLEAN, sign : BOOLEAN]
    /\ PC \in MemAddr /\ SP \in MemAddr
    /\ running \in BOOLEAN
    /\ outcome \in {"exec", "finished", "thrown", "undefined"}
    /\ heap_op \in HeapOps /\ cursor \in MemAddr /\ size \in MemAddr
    /\ dest \in RawArgument
    /\ pushed \in Seq(MemCell)
    /\ compared \in MemCell \X MemCell

\* While the program runs, the stack pointer never leaves the stack, whatever
\* the program pushes, pops, calls and returns from: "Stack overflow!" and
\* "Stack underflow!" are thrown in time.
StackInBounds ==
    outcome \in {"exec", "finished"} => stack_limit =< SP /\ SP =< stack_top

\* The stack holds the bytes that were pushed and not popped, in order, unless
\* an instruction that names one of its bytes stored there: no other push, no
\* framebuffer write and, on a chain of headers the program has left alone, no
\* pass of HALLOC or HFREE changes them.  The last heap chunk ends three bytes
\* above stack_limit and HALLOC may write a header there, so those three bytes
\* are left out.
StackHoldsPushes ==
    outcome = "exec" =>
        /\ Len(pushed) = stack_top - SP
        /\ \A k \in 1 .. Len(pushed) :
              SP + k - 1 >= stack_limit + heap_header_block_size =>
                  RAM[SP + k - 1] = pushed[k]

\* A step that throws changes no byte of RAM, no register and no flag: its
\* checks come before its first store.  (HALLOC takes several steps, and only
\* the last one looks at its destination: if that throws, the chunk is taken.)
ThrowsLeaveNoTrace ==
    [][outcome = "exec" /\ outcome' = "thrown" => UNCHANGED <<RAM, registers, flags>>]_vars

\* A conditional jump goes by the operands of the last CMP, as numbers of 0 to
\* 255, whatever ran in between.
Goes(op, test) ==
    Executing(op) =>
        /\ ~ test => PC' = first.next /\ outcome' = "exec"
        /\ test /\ outcome' = "exec" =>
               PC' = Addr(first_sector + Value(first, {NUMBER, ADDRESS}))
JumpsFollowComparison ==
    [][/\ Goes(JE, compared[1] = compared[2])
       /\ Goes(JNE, compared[1] # compared[2])
       /\ Goes(JG, compared[1] > compared[2])
       /\ Goes(JNG, compared[1] =< compared[2])]_vars

\* What README.md promises of a process: it changes only its own memory, but
\* for the framebuffer through FBSET and the GUI byte ("RAM Sandboxing").
StaysInItsSandbox ==
    [][\A a \in 0 .. (RamSize - 1) : RAM'[a] # RAM[a] =>
          \/ first_sector =< a /\ a < stack_top
          \/ a = gui_byte
          \/ a >= framebuffer_start /\ Executing(FBSET)]_vars

\* What README.md promises of FBSET: an index of 4096 or more is refused
\* ("Hardware-Enforced Sanitization").
FramebufferIndexChecked ==
    [][Executing(FBSET) /\ UseIndex(first) = "exec" /\ final_pixel_index(first) >= FbSize
          => outcome' = "thrown"]_vars
=============================================================================

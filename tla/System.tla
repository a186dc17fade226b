------------------------------- MODULE System -------------------------------
(***************************************************************************)
(* Several processes in one RAM: VM::load_program_in_ram with the Loader   *)
(* and the MemoryManager, VM::exec from outside, VM::set_gui, VM::reset.   *)
(* A program is any sequence of stores, relative to its first_sector;      *)
(* Processor has what it really does.  What the machine promises to a      *)
(* process it promises only if the programs are Confined to their own      *)
(* memory, and Processor shows that the machine does not hold them to it.  *)
(*                                                                         *)
(* A MemAddr is Word's, so the arena of the manager is in its range.       *)
(***************************************************************************)
EXTENDS Word, Sequences

CONSTANTS
    RamSize,
    FbSize,      \* FRAMEBUFFER_TOT_SIZE
    HeapSize,    \* PROGRAM_HEAP_STARTING_SIZE_BYTES
    StackSize,   \* PROGRAM_STACK_SIZE_BYTES
    Binaries,    \* the files: sequences of cells
    Stored,      \* what programs store
    Touched(_)   \* where: distances from first_sector, for a given size

FREE == 0

gui_byte == RamSize - FbSize - 1
ArenaSize == RamSize - FbSize - 1

TotalWithoutStack(binary) == Len(binary) + HeapSize
total_program_size(binary) == Len(binary) + HeapSize + StackSize

ASSUME SystemAssumption ==
    /\ {RamSize, FbSize, HeapSize, StackSize} \subseteq Nat
    /\ 3 =< HeapSize   \* the first header is in the heap
    /\ FbSize + 1 < RamSize /\ RamSize =< AddrRange
    /\ Binaries \subseteq Seq(MemCell)
    /\ \A b \in Binaries : Len(b) >= 2
    /\ Stored \subseteq MemCell
    /\ \A b \in Binaries : Touched(total_program_size(b)) \subseteq Nat

\* Every program stores only into its own memory.
Confined ==
    \A b \in Binaries :
        Touched(total_program_size(b)) \subseteq 0 .. (total_program_size(b) - 1)

VARIABLES
    free_list, owned, returned,   \* the MemoryManager's
    RAM,
    next_ready_pid,
    processes,   \* in the order they were loaded
    executing    \* the index of the process that exec runs, or 0

manager == <<free_list, owned, returned>>
vars == <<manager, RAM, next_ready_pid, processes, executing>>

Manager == INSTANCE MemoryManager
               WITH Requests <- {total_program_size(b) : b \in Binaries}

\* A process, with its file and whether it was ever run; its other fields are
\* functions of these.
Process == [pid : Nat, binary : Binaries, first_sector : MemAddr, PC : MemAddr,
            running : BOOLEAN, ran : BOOLEAN]
allocated_memory(p) == Len(p.binary) + HeapSize + StackSize
last_code_sector(p) == p.first_sector + Len(p.binary)

-----------------------------------------------------------------------------
HeaderUnmasked == <<High(HeapSize), HeapSize, FREE>>
\* The header of the heap's only chunk.
FirstHeader == <<High(HeapSize), Low(HeapSize), FREE>>

Image(binary) == binary \o FirstHeader

EntrySwapped(binary) == Join(binary[2], binary[1])
entry_point(binary) == Join(binary[1], binary[2])

Loaded(binary, first) ==
    [a \in DOMAIN RAM |->
        IF a - first + 1 \in 1 .. Len(Image(binary))
        THEN Image(binary)[a - first + 1]
        ELSE RAM[a]]

\* Loader::load_program, when the manager has room and when it throws.
LoadProgram(binary) ==
    /\ executing = 0
    /\ Manager!Allocate(total_program_size(binary))
    /\ RAM' = Loaded(binary, returned')
    /\ processes' = Append(processes,
           [pid |-> next_ready_pid, binary |-> binary, first_sector |-> returned',
            PC |-> Addr(returned' + entry_point(binary)),
            running |-> TRUE, ran |-> FALSE])
    /\ next_ready_pid' = next_ready_pid + 1
    /\ UNCHANGED executing

LoadFails(binary) ==
    /\ executing = 0
    /\ Manager!AllocateFails(total_program_size(binary))
    /\ UNCHANGED <<RAM, next_ready_pid, processes, executing>>

\* exec is called, for the first time or again.
Exec(i) ==
    /\ executing = 0
    /\ executing' = i
    /\ processes' = [processes EXCEPT ![i].ran = TRUE]
    /\ UNCHANGED <<manager, RAM, next_ready_pid>>

\* A process that has halted does nothing when it is run again.  Nothing checks
\* the address; one past RAM is undefined.
Store(v) ==
    /\ executing # 0
    /\ processes[executing].running
    /\ \E o \in Touched(allocated_memory(processes[executing])) :
           LET a == Addr(processes[executing].first_sector + o)
           IN  a \in DOMAIN RAM /\ RAM' = [RAM EXCEPT ![a] = v]
    /\ UNCHANGED <<manager, next_ready_pid, processes, executing>>

\* exec ends, by HALT or at the end of the code, and pushes PC back.
Return(halted) ==
    /\ executing # 0
    /\ processes' = [processes EXCEPT
           ![executing].running = @ /\ ~ halted,
           ![executing].PC = processes[executing].first_sector]
    /\ executing' = 0
    /\ UNCHANGED <<manager, RAM, next_ready_pid>>

\* An exception leaves PC after what the throwing instruction has fetched.  That
\* one began before last_code_sector, not always in the code, for CALL, RET and
\* the jumps go anywhere; it has at most two arguments of three bytes.
Throw ==
    /\ executing # 0
    /\ processes[executing].running
    /\ \E PC \in MemAddr :
           /\ PC =< last_code_sector(processes[executing]) + 6
           /\ processes' = [processes EXCEPT ![executing].PC = PC]
    /\ executing' = 0
    /\ UNCHANGED <<manager, RAM, next_ready_pid>>

\* VM::reset.  Its comment forbids to run a process after it; RAM stays.
Reset ==
    /\ executing = 0
    /\ Manager!Reset
    /\ next_ready_pid' = 1
    /\ processes' = <<>>
    /\ UNCHANGED <<RAM, executing>>

SetGuiOneBelow(status) ==
    /\ executing = 0
    /\ RAM' = [RAM EXCEPT ![gui_byte - 1] = status]
    /\ UNCHANGED <<manager, next_ready_pid, processes, executing>>
set_gui(status) ==
    /\ executing = 0
    /\ RAM' = [RAM EXCEPT ![gui_byte] = status]
    /\ UNCHANGED <<manager, next_ready_pid, processes, executing>>

Init ==
    /\ Manager!Init
    /\ RAM = [a \in 0 .. (RamSize - 1) |-> 0]
    /\ next_ready_pid = 1
    /\ processes = <<>>
    /\ executing = 0

Next ==
    \/ \E b \in Binaries : LoadProgram(b) \/ LoadFails(b)
    \/ \E i \in 1 .. Len(processes) : Exec(i)
    \/ \E v \in Stored : Store(v)
    \/ \E halted \in BOOLEAN : Return(halted)
    \/ Throw
    \/ Reset
    \/ \E status \in {0, 1} : set_gui(status)

Spec == Init /\ [][Next]_vars

-----------------------------------------------------------------------------
TypeOK ==
    /\ Manager!TypeOK
    /\ RAM \in [0 .. (RamSize - 1) -> MemCell]
    /\ next_ready_pid \in Nat
    /\ processes \in Seq(Process)
    /\ executing \in 0 .. Len(processes)

\* The manager and the processes agree: what it has handed out are the regions
\* that the processes think are theirs, and those share no byte.
RegionsOwned ==
    /\ owned = {Manager!Block(processes[i].first_sector, allocated_memory(processes[i])) :
                    i \in 1 .. Len(processes)}
    /\ \A i, j \in 1 .. Len(processes) : i < j =>
           LET p == processes[i]
               q == processes[j]
           IN  \/ p.first_sector + allocated_memory(p) =< q.first_sector
               \/ q.first_sector + allocated_memory(q) =< p.first_sector

\* A process that has never run has its image in RAM, PC where the first two
\* bytes of its file say, and a heap that is one free chunk, however many
\* processes were loaded, run or refused since (if the programs are Confined).
ReadyToRun ==
    \A i \in 1 .. Len(processes) :
        LET p == processes[i]
        IN  ~ p.ran =>
                /\ \A k \in 1 .. Len(p.binary) : RAM[p.first_sector + k - 1] = p.binary[k]
                /\ p.PC = Addr(p.first_sector
                                   + Join(RAM[p.first_sector], RAM[p.first_sector + 1]))
                /\ LET heap == last_code_sector(p)
                   IN  Join(RAM[heap], RAM[heap + 1]) = HeapSize /\ RAM[heap + 2] = FREE

MemoryOf(p) == [o \in 0 .. (allocated_memory(p) - 1) |-> RAM[p.first_sector + o]]

Isolated ==
    INSTANCE IsolatedProcesses
        WITH Images <- {Image(b) : b \in Binaries},
             SizeOf <- LAMBDA image : Len(image) - 3 + HeapSize + StackSize,
             memory <- [i \in 1 .. Len(processes) |-> MemoryOf(processes[i])]

\* The regions of one RAM are as good as a memory for each process, as long as
\* programs keep to their own (Confined, which exec does not enforce).
ImplementsIsolation == Isolated!Spec
=============================================================================

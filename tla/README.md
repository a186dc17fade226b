# Verification of custom-isa-8bit-vm

TLA+ modules, TLC runs and TLAPS proofs for the virtual machine under
`custom-isa-8bit-vm/`. Paths below are relative to that directory; "docs" is the
repository's top-level `README.md`.

## The system

A program is compiled (`src/Brainfvck.cpp`, `src/Assembler.cpp`) to a binary,
loaded into the one RAM vector of the `VM` (`include/Loader.hpp`) and run by
`VM::exec` (`src/VM.cpp`), one process at a time, single-threaded. RAM is 64000
bytes: the arena of the memory manager, one GUI byte, the 4096-byte framebuffer.
A process is one region of the arena:

    first_sector   last_code_sector = heap_start   heap_limit = stack_limit   first_sector + allocated_memory
        | 2-byte entry point, code  |     heap (1000)     |     stack (1000)     |

| Component | State | Operations | Hard behaviour | What makes it correct |
|---|---|---|---|---|
| `MemoryManager` | address-ordered `std::list` of free blocks | `allocate`, `free`, `reset`, `check_integrity` | long call sequences, splitting and coalescing at the edges | no byte leaked or owned twice; holes coalesced; first fit |
| Process heap (`HALLOC`, `HFREE`) | chunk headers and payloads inside RAM | two loops over the headers | the data structure lives in bytes that the program can write; 16-bit dimensions in 8-bit cells; the first header is three bytes too long | headers tile the heap; global coalescing; payloads survive; loops end |
| Processor (`VM::exec`) | registers, flags, PC, SP, RAM, `running` | fetch, decode, 24 opcodes, exceptions | exceptions between two effects, 16-bit wrap, unchecked indexes | stack bounds and content, no effect of a throwing step, jumps |
| Loader and `Process` | next pid; the process's addresses | `load_program`, `reset` | several processes in one RAM, stale RAM after `reset`, running a process twice | isolation, a usable entry point |
| Display (minifb window, keyboard) | window pointer, `_last_key`, framebuffer bytes, GUI byte | open, `FBSYNC`, `INPUT`, the wait loop, close | the user closes the window at any time; uninitialized or destroyed window used | no use of a dead window |
| Assembler | label map, emitted bytes | two passes | sizes counted in pass 1 and bytes emitted in pass 2 must agree | every label is the offset of its instruction |
| Brainfvck compiler | instruction list | parse, optimize, emit | loop rewriting must keep the meaning; operands must stay bytes | the optimized program computes the same |
| `main`, instruction table | none | compile, load, exec, print | none | opcode numbers agree with `exec`'s switch |
| minifb | - | vendored | - | - |

Interactions: the loader calls `MemoryManager::allocate` and writes the process's
image and first heap header into RAM; `exec` keeps the heap and stack in the same
RAM; the keyboard callback writes `_last_key` from inside `mfb_update_ex`; nobody
calls `MemoryManager::free`, and `VM::reset` gives everything back at once.

`PROJECT.json` lists the hazards, each with its line and the properties that cover it.

## Modules

| Module | Models | Correspondence |
|---|---|---|
| `RegionAllocator` | no code: the abstract first-fit allocator | `owned` regions, `Grant`, `Refuse`, `Release`, `Clear`; `Slack` is what a grant may add to a request |
| `MemoryManager` | `src/MemoryManager.cpp` | `free_list` is the list; `owned` the callers' regions; one action per method and outcome |
| `MemoryManagerProofs` | - | theorems and proofs about `MemoryManager` |
| `Word` | `include/types.hpp` | bytes and 16-bit addresses; `CellRange` is 256 in the code |
| `HeapManager` | the loops of `HALLOC` and `HFREE` (`src/VM.cpp` 404-568) | one action per pass of a loop; `cursor` is `first_part_of_free_heap` or `current_chunk`, `size` is `size_to_alloc.value`, `heap_op` which loop runs |
| `Heap` | `HeapManager` with a program that respects what it owns | `owned`, `pointers`, `returned` are ghosts; `Fill` is the program's `MOV`s into a region |
| `Processor` | all of `VM::exec`, headless | one action per opcode (two where an outcome differs in kind); `outcome` says whether `exec` still runs, returned, threw, or did something undefined; `pushed` and `compared` are ghosts |
| `InstructionSet` | the instruction table of `src/main.cpp`, `include/Type.hpp` | opcodes, arities, argument types, and the lines of assembly that the compiler writes and the assembler reads |
| `Assembler` | `Assembler::asm_to_opcodes`, `instruction_to_opcode` | `pass` says which loop runs; one action per kind of line and pass, and per exception; `dimension_at` is a ghost: where the first pass believed each line to be |
| `BrainfuckLanguage` | no code: what a Brainfuck program means on this machine's tape | one action per command |
| `Brainfvck` | `src/Brainfvck.cpp` | `compile`, `apply_loop_optimizations` and `apply_optimizations` as functions from lines to lines; a loop of the code is a recursive function of how often it was gone through |
| `BrainfvckRun` | the compiled code next to its program | the code's lines as `exec` runs them; the two meet at `.`, `,` and the end |
| `IsolatedProcesses` | no code: processes with a memory each | `memory[i]` changes only by stores of process `i` |
| `System` | `include/Loader.hpp`, `include/Process.hpp`, `VM::exec` from outside, `VM::set_gui`, `VM::reset` | INSTANCE of `MemoryManager`; `processes` holds what `main` keeps; a program is any sequence of stores, `Touched` says where |
| `Display` | the MiniFB calls of `VM::exec` and the keyboard callback | `at` is where `exec` is between two calls; `window` the local pointer; the user's `Press` and `Close` come at any moment |
| `CommonProofs` | - | lemmas that several of the next use: 8- and 16-bit values, recursion over a range of numbers, sequences that grow, simulations, and what changes add to the cells of a tape |
| `ProcessorProofs`, `HeapProofs`, `DisplayProofs`, `SystemProofs`, `AssemblerProofs`, `BrainfvckProofs` | - | theorems and proofs about `Processor`, `Heap`, `Display`, `System`, `Assembler` and `BrainfvckRun` |
| `MCMemoryManager`, `MCHeap`, `MCProcessor`, `MCAssembler`, `MCBrainfvckRun`, `MCSystem`, `MCDisplay` | - | the values TLC uses |

`Processor` and `Heap` both extend `HeapManager`: the same loop actions are driven
once by a program that keeps to its regions (`Heap`) and once by arbitrary
instructions (`Processor`). `MemoryManager` and `Heap` both implement `RegionAllocator`,
and `System` is built on `MemoryManager`. `Processor`, `Assembler` and `Brainfvck`
share `InstructionSet`; `Assembler` is given programs that `Brainfvck` compiled, reads
its bytes back with the processor's `fetch_argument`, and so closes the chain from
Brainfuck to bytes in RAM.

Modelling choices worth knowing:

- A pass of a heap loop is a step. Nothing runs between two passes in the code, so
  this shows every intermediate state of the headers without adding behaviours.
- The two fetches and the effect of another instruction are one step.
- Undefined behaviour (an index past a vector's end, the uninitialized window
  pointer) ends the run with `outcome = "undefined"`: nothing is claimed about what
  follows. Where the build may also do something defined (a null window pointer),
  that is a second outcome. In `Display` it is the place `"undefined"`, which `exec`
  does not leave.
- `Assembler` starts from lines without comments and commas. An argument is a shape
  (number, register, name, symbol; in brackets or not) and a value; a name begins with
  a letter or `_`, a symbol does not, which is all that the two passes tell apart.
- `BrainfvckRun` runs lines, not bytes: `LabelsMeetCode` of the `assembler` run is why a
  jump to a label is a jump to its line. It starts only where every operand fits a byte
  (`OperandsAreBytes`), for a longer run of one command is where the assembler writes a
  `NUMBER_16` that the first pass did not count (see the violations).
- The turns that program and code take in `BrainfvckRun` are the model's: they make the
  two meet, and neither can delay the other once it waits.
- In `Display` a press of an arrow is its number, and an entry of `COLORS` its index; a
  program is free to do anything to the pixels and to the GUI byte, and `keeps_mode`
  remembers whether it left that byte alone.
- `mfb_update_ex` may fail with the window open before it draws or looks at the user's
  events (a buffer or image it cannot make); then the screen, the keys and the window
  stay as they were, and `FBSYNC` goes on. `mfb_wait_sync` looks at the events first.
- In `System` a program stores at any distance from `first_sector` that `Touched` names.
  `Confined` says that these are inside its own memory. `exec` does not hold it to that
  (`processor_sandbox`), so what a process is promised, `ReadyToRun` and
  `ImplementsIsolation`, is checked and proved under `Confined` only: it is what loading,
  running, throwing and resetting guarantee to programs that behave. Who owns what is
  proved for all programs.
- Definitions named in `PROJECT.json` under "mutants" as "as" (`LastFit`,
  `CmpInOneByte`, ...) are wrong variants of the definition that follows them. They
  are used by no specification; they show which slip each property would catch.

## Runs

| Run | Question | Result |
|---|---|---|
| `memory_manager` | Do `allocate`, `free` and `reset`, in any order, keep every byte in exactly one place, coalesced, and implement first fit? | holds |
| `heap` | Do `HALLOC` and `HFREE` keep the chain of headers tiling the heap, coalesce completely, leave payloads alone, end, and implement first fit? | holds |
| `heap_double_free` | Is every pointer `HFREE` accepts one of an owned region (docs l. 46)? | violated |
| `processor` | Over all programs of three instructions from a menu: does the stack stay in bounds and keep its bytes (but for the lowest three), does a throwing step leave no trace, do jumps follow the last comparison? | holds |
| `processor_sandbox` | Does a process change only its own memory (docs l. 9)? | violated |
| `processor_framebuffer` | Is an index past the framebuffer refused (docs l. 56)? | violated |
| `assembler` | Does the first pass count what the second emits, does the processor fetch back every argument, does the header lead to `start`? | holds for numbers below 256 |
| `assembler_numbers` | Is the address of a label that of its code whatever numbers occur (docs l. 35 and 54)? | violated |
| `brainfvck` | Do the compiled and optimized code and the program come to the same I/O with the same tape, and is exactly what has unmatched brackets rejected? | holds |
| `display` | When can `exec` use a dead window or a bad colour, are keys read once and in order, is every frame shown whole, does a close end the wait loop? | holds |
| `display_window` | Is a window that `mfb_update_ex` found closed left alone (`external/minifb/README.md` l. 40)? | violated |
| `system` | Do processes and manager agree on who owns what, and, if programs store only to their own memory, is a loaded process ready to run whatever the others do and one RAM as good as a memory for each process? | holds |

Bounds, and why they are enough:

- `memory_manager`: an arena of 8 bytes with requests of 1, 2, 3 and 5: up to eight
  blocks, every combination of free neighbours on either side of a freed block,
  exhausted and partly used blocks, refusals with enough bytes but no hole.
- `heap`: 12 bytes of chain (`HeapEnd - heap_start`), so up to four chunks of size
  zero, sizes 0, 1 and 4, cells of 5 values so that a dimension needs both header
  bytes and a 16-bit address wraps at 25. The program stores OWNED everywhere it may,
  the byte that best imitates a header. `FreesStale = FALSE` lets the program free a
  pointer twice only while its old header still reads FREE: what the docs promise to
  catch. `TRUE` drops that, for `heap_double_free`.
- `processor`: real 8-bit cells; a code area of three six-byte slots and HALT, a heap
  of 8 bytes, a stack of 7, a framebuffer of 4. The menu (46 instructions) has every
  opcode, every argument type, immediates where a place is needed, register 9, a
  damaged heap header, an unknown opcode. Programs loop (backward jumps, CALL to
  themselves, RET into data), so runs are much longer than three instructions: the
  longest has about 2300 steps.
- `assembler`: every program of up to three lines from a menu of 14, which has `start`,
  two more labels, one of them a symbol, every shape of argument, a `.skip` of 300 bytes (an
  address of two bytes), malformed `.skip`s and an arity that no instruction has; and two
  whole programs of the Brainfuck compiler. A label before, between or after two other
  lines is all that a wrong count needs.
- `brainfvck`: a tape of four cells of four values, so that pointer and cells wrap within
  a few steps, and a header of 1, 1, so that the first two cells are not zero. 567
  programs: all of up to three characters, a loop around every body of up to three steps,
  and the multiplying loops with their near misses; `,` reads every value, so each loop is
  entered with every count.
- `display`: two pixels (a frame can be torn), two colours and a byte past them, two
  presses, two runs: enough for a key left over from one run to be read in the next, a
  window left open by an exception, and closing before, between and after the calls.
- `system`: a RAM of 16 bytes that holds one process of each size or two of the smaller
  but not three, cells of 4 values so that addresses need two; programs overwrite their
  first byte (the entry point) and their last (next to the neighbour's first). `reset` and
  a new load over old bytes follow from there. The framebuffer, which `System` does not
  touch, is empty.
- Deadlock is not checked for `heap` (a thrown "Heap overflow!" ends the process),
  `processor` (`exec` returns or throws), `assembler` (it returns or throws),
  `brainfvck` (a program ends) and `display` (after undefined behaviour nothing is
  claimed, and the runs are bounded). In `memory_manager` and `system` it is.

Fairness. `Heap` has `WF_vars(Loop)`: a loop that has begun runs on, because `exec` is
single-threaded and looks at nothing else until the loop is over; `LoopsEnd` is what
follows from it. `BrainfvckRun` has `WF_vars(Next)`: a running program and running code
go on. `Display` has `WF_vars(Exec)`: the wait loop and `FBSYNC` go on calling MiniFB,
whose calls return. `CloseEndsWaiting` is what follows: a close in the wait loop leads to
`mfb_close`; that this then meets a window MiniFB has destroyed is `display_window`. Nothing is assumed of the user or of what programs do: they need not
press, close or end.

### What the violations show

Each is a disagreement between the docs and the code, quoted in `PROJECT.json`
under "findings". A stale pointer is accepted when its old header byte has become a
payload byte equal to 1; addresses relative to `first_sector` are not bounded from
above; `FBSET` compares the argument rather than the index it denotes; a number of 256
or more is counted as two bytes and emitted as three, so every later label is short by
one; `FBSYNC`, the wait loop and `mfb_close` go on using a window that MiniFB destroyed
when the user closed it.

Three more statements of the docs do not describe the code, and the models follow the
code; no run is spent on them. Line 47 has a null opcode raise an exception, while opcode
0 is `NOP` (`src/VM.cpp` 175-178; action `Nop`). Line 39 has the stack isolated, while the
first chunk's dimension counts its own header (`include/Loader.hpp` 38-43), so that the last
chunk ends in the stack's three lowest bytes and HALLOC may write a header over what was
pushed there (`StackHoldsPushes` and `StackKept` leave these bytes out; without the
exemption TLC finds a return address overwritten in a stack of four bytes). Line 21 has
`SPUSH` and `SPOP` move 16-bit data, while of two bytes the cell fills or keeps only the low
one (`src/VM.cpp` 90-131; actions `Spush`, `Spop`).

## Proofs

All theorems are checked by tlapm for every value of the constants that satisfies
the modules' assumptions (`SizeAssumption`, `CellRangeAssumption`, `HeapAssumption`,
`ProcessorAssumption`, `DisplayAssumption`,
`SystemAssumption`, `AssemblerAssumption`, `BrainfvckAssumption`; the code's values satisfy them, TLC evaluates them).

`MemoryManagerProofs`. Neither the type, nor the separation of holes, nor the
accounting of bytes is inductive alone: that `free` meets no overlapping neighbour
needs the accounting, and that the accounting survives `Coalesced` needs the order.
`IInv == TypeOK /\ Separated /\ Accounted` is. Each action replaces a few
neighbouring elements of the list by at most one, so the proof goes through
`Splice`: which elements the new list has (`SpliceProperties`) and when it is tidy
again (`SpliceTidy`). From `IInv` follow `TypeCorrect`, `AlwaysSeparated`,
`AlwaysAccounted`, `IntegrityHolds` (the code's own `check_integrity` is never false)
and `Refinement`: a hole is always inside one block (`HoleInOneBlock`), so the first
block that fits is the lowest hole that fits.

`ProcessorProofs` (with facts about 8- and 16-bit values from `CommonProofs`). The type of
PC, SP and RAM and the bounds of the stack depend on each other: a push subtracts in
16 bits, and only because SP is at least `stack_limit`, and that at least 2, does it
not wrap past the check; RET's two bytes are in RAM because SP is below `stack_top`;
a pop shortens the ghost `pushed` because its length is the stack's depth. So
`IInv == TypeOK /\ StackInBounds /\ DepthIsCounted` is proved inductive with one lemma
per instruction or family, over lemmas on what fetching (`FetchType`), resolving
(`PlaceType`), storing (`StoreType`), pushing and popping (`PushKeeps`, `PopKeeps`)
and a pass of a heap loop (`HeapStepType`) return. From it: `TypeCorrect`,
`StackStaysInBounds` and, with `FlagsTell` (only CMP touches the flags, and they tell
how its operands compare), `JumpsAreRight`. `NoTrace` needs no invariant: it goes
through every action. `StackKept` (the stack's bytes above its three lowest are those pushed, as long as the chain of headers is intact) has an invariant
of its own, `Kept`: a store changes RAM and the ghost alike (`StoreMatches`), a push and a
pop shift both (`PushMatches`, `PopMatches`), and what is left is where HALLOC splits.
The header it splits off lies inside the chunk, and the chunk below the stack, only if
the loop stands on a header of a chain that reaches `HeapEnd` (`OnChain`), since elsewhere
the two bytes it takes for a dimension can be anything. All hold for every image, corrupted heap and layout. The
assumption `heap_start + 5 < RamSize` makes the longest instruction end in RAM; in the
code a heap and a stack of 1000 bytes follow the program.

A first attempt at `StackKept` failed for a reason worth keeping: `ChunkStarts` went by
`next_chunk`, which wraps at 16 bits, so a program that writes the dimension 0xFFFF made
a chunk that "ends" two bytes on, the chain counted as intact, and HALLOC split that
chunk far above the heap. TLC confirms it with a program of six instructions. The chain
is now followed only while no chunk ends past the heap, and such a program has damaged
it.

`HeapProofs`. `ChunkStarts` follows the headers recursively, and
a step that writes a header changes what it returns as a whole. So the invariant speaks
of a set S of addresses instead (`Tiling`): S lies in the heap, has both ends, and each of
its elements but the last leads to the next one (`Chain`); each is marked FREE or OWNED
and the owned regions are the chunks marked OWNED; a running loop stands on one of them;
HFREE's loop has left no two free neighbours behind it (`Merging`) and HALLOC's has passed
only chunks that are too small (`Searching`). A split adds one element to S, a merge takes
one out, and the lemmas say which headers a write leaves alone. `ChainIsChunkStarts` leads
back: there is only one such S, `ChunkStarts`. It is shown from the greatest address at
which the two differ; that the recursive definition has a solution at all is
`ChunkStartsUnfolds`. No induction theorem is needed: a nonempty set of numbers
with a bound has a greatest element (`GreatestOfBounded`, from the library's `WFMin`). From
the invariant follow `ChainCoversHeap`, `FreeChunksAreApart`, `DataIsKept` and the
refinement `HeapRefinesRegions`, in which the passes of a loop stutter, HALLOC's last one
is `Grant` or `Refuse` (all chunks before it are owned or too small, and chunks being apart
no hole is larger than one of them) and HFREE's first one is `Release`. They assume
`FreesStale = FALSE`, a program that does not free a pointer twice once its old header reads OWNED
again; without it they are false (`heap_double_free`). `TypeCorrect` needs no such assumption.

`DisplayProofs`. The invariant is three independent ones. `KeysInv`: a press is
delivered before it is read, and what waits in `_last_key` is later than what was read
(`KeysReadOnce`). `WindowInv`: a window is dead only after the user closed it and
unopened only in a headless run, where a program that leaves the GUI byte alone never
gets past the tests before a call (`UndefinedOnlyThen`). `PixelsInv`: the copy
is the framebuffer that this run's last `FBSYNC` found (the ghost `synced`), which failed
waits and updates do not change; and between `FBSYNC`'s copy and its update it is the present
framebuffer, since nothing but those calls runs (`FramesAreWhole`). They hold for any number of
pixels, colours, presses and runs.

`SystemProofs`. The invariant is the manager's own, cited from `MemoryManagerProofs`
through INSTANCE, with `TypeOK`, `RegionsOwned`, `RunnerRan` and, if `Confined`, `ReadyToRun`. `RunnerRan`: the
process that runs has run, without which a store could spoil a process that is still to
run first. `AllocateFresh` puts a new region apart from all owned ones and inside the
arena, `ImageWritten` keeps what a load writes inside that region, and whether a process
is ready depends on nothing but its own region (`ReadyKept`); so loads, stores and
`set_gui` reduce to "no byte of the others changed". The same facts give the refinement,
`Isolation`: mapped to one memory per process, a load appends one that begins with the
image, a store changes one cell of the memory of the process that runs, and `exec`'s
entry and exits only switch. All hold for any RAM size, number of processes and
binaries. `TypeCorrect` and `RegionsStayOwned` hold wherever programs store; `AlwaysReady`
and `Isolation` have `Confined` as their hypothesis, that programs store only inside their own
memory, and would be false without it. Only `StoreHits` looks inside it.

`AssemblerProofs`. The two passes use different code to tell what an argument is, and
`SameSize` shows when they agree on its size: unless it is a number of 256 or more or a
label that is not a name. The invariant carries this from one pass to the other through
the ghost `dimension_at`: each line the first pass met is as long as what the second
will emit (`SizesAgree`), each label met has the address of its line (`LabelsNoted`), and
the second pass has emitted what was counted so far (`Emitted`). No induction over lines
is left, for both passes go one line per step. `LabelsAreRight` follows for programs of
any length, assuming that the size of a `.skip` is a natural number, as what
`std::stoull` returns is. For `ReadsBack` the invariant also says that the bytes of each
instruction emitted so far fetch back as its arguments (`Readable`), which later bytes do not
change; with two bytes for an address this needs that joining `High` and `Low` gives the address
back (`JoinBytes`). For `StartsAtStart` it says what the label map has for `start` once that line
was met (`LabelsDefined`) and that the header was written from it (`HeaderWritten`). A `start`
at a multiple of 65536 would read as address 0, which the code takes for "no such label"; a
program that long has no 16-bit addresses anyway, hence the antecedent `Addressable`. A register's
number is a byte, as in `register_map`.

`BrainfvckProofs`. The code of a program of any length does what the program does
(`OptimizationsCannotBeSeen`), although the compiler rewrites it twice. The library's
induction theorems cannot be used (they take an operator), so each pass, a recursive
function, is shown to have values by the least length at which they would be missing
(`StepsHaveRun`, from the library's `WFMin`), and `GrowingKeeps` says that what a pass has
written stays where it is. Whatever of this argument mentions no definition of the compiler
is in `CommonProofs`. The argument then has four parts.

1. Which lines there are. `compile`'s stack of numbers is as high as the brackets are
   deep (`StackIsDepth`), so it throws exactly when they do not match
   (`CompilerRejectsUnbalanced`), and a pair of brackets is the pair that the language's
   `Closing` and `Opening` choose. What `compile` writes is `Sound`: it ends in HALT, has
   only lines of certain kinds, no label twice, and each label and jump in a block of three
   lines whose other block is there. Folding keeps it so (`FoldingIsSound`).
2. That jumps keep their labels. A loop that is replaced contains no bracket but its own, so
   a label is taken away only together with every jump to it (`BracketsTogether`,
   `ReplacedRuns`). With it `BrainfvckTypeCorrect`.
3. Three simulations between functions: the language as `AfterCommand` on its states, the machine as
   `AfterLine`, `Way(.., x)` what is reached from x before it waits, and `Simulates`, which
   says of a relation that whoever follows comes to related states again and to an end where
   the other one does. `LinesFollow`: the lines of a character do what the character does.
   `FoldsFollow`: the folded code may be behind by what its accumulator still holds, at one
   cell or at the pointer, and has made up for it before every line that stays; the flags
   that outlive a run that cancels out do no harm, because nothing is pending then.
   `ReplacedFollow`: a loop of steps that takes one from its first cell and returns there
   ends, and the multiple of the first cell that its replacement adds to each other cell is
   what the rounds add up to (`LoopRuns`, `LoopEmpties`, `EmissionRuns`). On a tape
   that wraps around, a far offset could be the first cell again; since the first and the
   last move of the replacement are bytes, no offset is that far (`OffsetsAreBytes`), and two
   offsets that are one cell just add up. The registers B and C and the zero flag may differ
   afterwards, and no line reads them before setting them.
4. The invariant `Paired`: program and code have come from states which the three relate
   one after the other (`Joint`). It is inductive because going on stays on the `Way`; when
   both wait, `SimulatesToEnd` three times and `WayEndsOnce` say that they are related
   (`Meet`), and after they wrote or read the next lines are related again (`MeetAgain`).

It needs what `Init` says, that the operands of the code are bytes (`OperandsAreBytes`), and holds
for every range of a cell above 2 and every pair of header bytes.

Only model-checked: `LoopsEnd`, `WaitTogether` and `CloseEndsWaiting`, which are liveness. Of
everything else that a passing run checks there is a theorem. `WaitTogether`'s safety part is in
`Simulates`: where the program comes to a character or its end, the code does after
finitely many lines; that both go on is left to fairness.

## Not modelled

- `Process::update`: nobody calls it, and it ends in a TODO.
- File reading and writing, console output and `PRINT`'s text: I/O without state. So
  `asm_to_bin`, `asm_file_to_code` and the fixed sequence of `main` are left out.
- Tokenisation below the shapes: commas without a space after them, stray brackets,
  an instruction whose last argument ends in `:`.
- Brainfuck programs with an operand of 256 or more (a run of 256 equal characters,
  folded): outside `OperandsAreBytes`. The assembler's side of it is `assembler_numbers`.
- minifb is vendored. Its two calls that `exec` makes in a loop are modelled in `Display`
  from the X11 back end; the other back ends and what `mfb_open_ex` and `mfb_close` do
  inside are not.

## What could come next

Every component is modelled, and every safety property and refinement that a run checks is
proved. What is left is of another kind: the other back ends of MiniFB, Brainfuck programs with
operands beyond a byte together with the assembler that miscounts them, and the liveness
properties, for which no proof system is at hand.

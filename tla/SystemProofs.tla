---------------------------- MODULE SystemProofs ----------------------------
(***************************************************************************)
(* Theorems about System, for every RAM, every set of binaries and any     *)
(* number of processes.  What the manager guarantees is cited from         *)
(* MemoryManagerProofs.  What a process finds in its memory is proved for  *)
(* Confined programs only; who owns what, for all.                         *)
(***************************************************************************)
EXTENDS System, CommonProofs, SequenceTheorems

MP == INSTANCE MemoryManagerProofs WITH Requests <- {total_program_size(b) : b \in Binaries}

\* A program changes RAM only once it runs: without this, ReadyToRun would not
\* survive a store.
RunnerRan == executing # 0 => processes[executing].ran

IInv == MP!IInv /\ TypeOK /\ RegionsOwned /\ RunnerRan /\ (Confined => ReadyToRun)

\* p is ready to run in ram.
ReadyIn(ram, p) ==
    ~ p.ran =>
        /\ \A k \in 1 .. Len(p.binary) : ram[p.first_sector + k - 1] = p.binary[k]
        /\ p.PC = Addr(p.first_sector + Join(ram[p.first_sector], ram[p.first_sector + 1]))
        /\ Join(ram[last_code_sector(p)], ram[last_code_sector(p) + 1]) = HeapSize
        /\ ram[last_code_sector(p) + 2] = FREE

Ram == [0 .. (RamSize - 1) -> MemCell]
Indices == 1 .. Len(processes)
EndOf(p) == p.first_sector + allocated_memory(p)

-----------------------------------------------------------------------------
(* The layout. *)

LEMMA SizesFit ==
    /\ ArenaSize \in Nat \ {0} /\ AddrRange \in Nat /\ ArenaSize =< AddrRange
    /\ ArenaSize < RamSize /\ gui_byte = ArenaSize /\ RamSize \in Nat /\ RamSize =< AddrRange
    /\ {total_program_size(b) : b \in Binaries} \subseteq Nat \ {0}
<1>1. \A b \in Binaries : Len(b) \in Nat
  BY SystemAssumption, LenProperties
<1>2. \A b \in Binaries : total_program_size(b) \in Nat \ {0}
  BY <1>1, SystemAssumption DEF total_program_size
<1>. QED
  BY <1>2, SystemAssumption, WordRanges DEF ArenaSize, gui_byte

LEMMA BinarySizes ==
    ASSUME NEW b \in Binaries
    PROVE  /\ b \in Seq(MemCell) /\ Len(b) \in Nat /\ 2 =< Len(b)
           /\ HeapSize \in Nat /\ StackSize \in Nat /\ 3 =< HeapSize
           /\ total_program_size(b) = Len(b) + HeapSize + StackSize
           /\ total_program_size(b) \in Nat \ {0}
           /\ Len(b) + 3 =< total_program_size(b)
<1>1. b \in Seq(MemCell) /\ 2 =< Len(b)
  BY SystemAssumption
<1>2. Len(b) \in Nat
  BY <1>1, LenProperties
<1>. QED
  BY <1>1, <1>2, SystemAssumption DEF total_program_size

LEMMA ProcessSizes ==
    ASSUME NEW p \in Process
    PROVE  /\ p.binary \in Binaries /\ p.first_sector \in Nat
           /\ allocated_memory(p) = total_program_size(p.binary)
           /\ last_code_sector(p) = p.first_sector + Len(p.binary)
BY WordRanges DEF Process, MemAddr, allocated_memory, total_program_size, last_code_sector

\* Whether a process is ready depends only on its own memory.
LEMMA ReadyKept ==
    ASSUME NEW p \in Process, NEW ram, NEW other, ReadyIn(ram, p),
           \A a \in Nat : p.first_sector =< a /\ a < EndOf(p) => other[a] = ram[a]
    PROVE  ReadyIn(other, p)
<1>1. /\ p.binary \in Binaries /\ p.first_sector \in Nat
      /\ allocated_memory(p) = total_program_size(p.binary)
      /\ last_code_sector(p) = p.first_sector + Len(p.binary)
  BY ProcessSizes
<1>2. /\ Len(p.binary) \in Nat /\ 2 =< Len(p.binary)
      /\ EndOf(p) \in Nat /\ p.first_sector + Len(p.binary) + 3 =< EndOf(p)
  <2>1. /\ Len(p.binary) \in Nat /\ 2 =< Len(p.binary)
        /\ total_program_size(p.binary) \in Nat
        /\ Len(p.binary) + 3 =< total_program_size(p.binary)
    BY <1>1, BinarySizes
  <2>. QED
    BY <1>1, <2>1 DEF EndOf
<1>3. ASSUME NEW o \in Nat, o < Len(p.binary) + 3
      PROVE  other[p.first_sector + o] = ram[p.first_sector + o]
  <2>1. /\ p.first_sector + o \in Nat /\ p.first_sector =< p.first_sector + o
        /\ p.first_sector + o < EndOf(p)
    BY <1>1, <1>2, <1>3
  <2>. QED
    BY <2>1
<1>4. \A k \in 1 .. Len(p.binary) : other[p.first_sector + k - 1] = ram[p.first_sector + k - 1]
  <2>. TAKE k \in 1 .. Len(p.binary)
  <2>1. k - 1 \in Nat /\ k - 1 < Len(p.binary) + 3
        /\ p.first_sector + (k - 1) = p.first_sector + k - 1
    BY <1>1, <1>2
  <2>. QED
    BY <1>3, <2>1
<1>5. /\ other[p.first_sector] = ram[p.first_sector]
      /\ other[p.first_sector + 1] = ram[p.first_sector + 1]
  BY <1>1, <1>2, <1>3
<1>6. /\ other[last_code_sector(p)] = ram[last_code_sector(p)]
      /\ other[last_code_sector(p) + 1] = ram[last_code_sector(p) + 1]
      /\ other[last_code_sector(p) + 2] = ram[last_code_sector(p) + 2]
  <2>. DEFINE n == Len(p.binary)
  <2>1. other[p.first_sector + n] = ram[p.first_sector + n]
    BY <1>2, <1>3
  <2>2. other[p.first_sector + (n + 1)] = ram[p.first_sector + (n + 1)]
    BY <1>2, <1>3
  <2>3. other[p.first_sector + (n + 2)] = ram[p.first_sector + (n + 2)]
    BY <1>2, <1>3
  <2>4. /\ last_code_sector(p) + 1 = p.first_sector + (n + 1)
        /\ last_code_sector(p) + 2 = p.first_sector + (n + 2)
    BY <1>1, <1>2
  <2>. QED
    BY <1>1, <2>1, <2>2, <2>3, <2>4
<1>. QED
  BY <1>4, <1>5, <1>6 DEF ReadyIn

-----------------------------------------------------------------------------
(* What the manager and the processes know of each other. *)

\* The memory of a loaded process lies in the arena.
LEMMA ProcessInside ==
    ASSUME IInv, NEW i \in Indices
    PROVE  /\ processes[i] \in Process
           /\ processes[i].first_sector \in Nat
           /\ EndOf(processes[i]) \in Nat
           /\ processes[i].first_sector < EndOf(processes[i])
           /\ EndOf(processes[i]) =< ArenaSize
<1>. DEFINE p == processes[i]
<1>1. p \in Process
  BY ElementOfSeq DEF IInv, TypeOK, Indices
<1>. HIDE DEF p
<1>2. /\ p.first_sector \in Nat /\ allocated_memory(p) = total_program_size(p.binary)
      /\ total_program_size(p.binary) \in Nat \ {0}
  BY <1>1, ProcessSizes, BinarySizes
<1>3. Manager!Block(p.first_sector, allocated_memory(p)) \in owned
  BY DEF IInv, RegionsOwned, Indices, p
<1>4. p.first_sector + allocated_memory(p) =< ArenaSize
  <2>. DEFINE b == Manager!Block(p.first_sector, allocated_memory(p))
  <2>1. b.start_address + b.size =< ArenaSize
    BY <1>3, SizesFit, MP!OwnedInside DEF IInv
  <2>. QED
    BY <2>1 DEF Manager!Block
<1>. QED
  BY <1>1, <1>2, <1>4 DEF EndOf, p

\* The processes change, but not where they are: the regions stay theirs.
LEMMA RegionsKept ==
    ASSUME IInv, owned' = owned, Len(processes') = Len(processes),
           \A i \in Indices : /\ processes'[i].first_sector = processes[i].first_sector
                             /\ allocated_memory(processes[i])' = allocated_memory(processes[i])
    PROVE  RegionsOwned'
BY DEF IInv, RegionsOwned, Indices

\* The running process changes, but for its region and its program.
LEMMA ProcessUpdated ==
    ASSUME IInv, NEW i \in Indices, NEW q \in Process,
           processes' = [processes EXCEPT ![i] = q],
           q.first_sector = processes[i].first_sector, q.binary = processes[i].binary, q.ran,
           executing' \in {0, i}, UNCHANGED <<manager, RAM, next_ready_pid>>
    PROVE  IInv'
<1>1. /\ processes' \in Seq(Process) /\ Len(processes') = Len(processes)
      /\ processes'[i] = q /\ \A j \in Indices : j # i => processes'[j] = processes[j]
      /\ Len(processes) \in Nat /\ processes \in Seq(Process)
  BY ExceptSeq, LenProperties DEF IInv, TypeOK, Indices
<1>2. RegionsOwned'
  <2>1. \A j \in Indices : /\ processes'[j].first_sector = processes[j].first_sector
                          /\ allocated_memory(processes[j])' = allocated_memory(processes[j])
    BY <1>1 DEF allocated_memory
  <2>. QED
    BY <1>1, <2>1, RegionsKept DEF manager
<1>3. TypeOK'
  BY <1>1 DEF IInv, TypeOK, manager, Manager!TypeOK, Indices
<1>4. Confined => ReadyToRun'
  BY <1>1 DEF IInv, ReadyToRun, Indices, last_code_sector
<1>5. RunnerRan'
  BY <1>1 DEF RunnerRan, Indices
<1>6. MP!IInv'
  BY SizesFit, MP!NextInvariant DEF IInv, manager, MP!vars
<1>. QED
  BY <1>2, <1>3, <1>4, <1>5, <1>6 DEF IInv

\* One byte of RAM changes that no process still to be run owns, if programs are
\* confined.
LEMMA ByteChanged ==
    ASSUME IInv, NEW a \in 0 .. (RamSize - 1), NEW v \in MemCell,
           RAM' = [RAM EXCEPT ![a] = v],
           UNCHANGED <<manager, next_ready_pid, processes, executing>>,
           Confined => \A i \in Indices : ~ processes[i].ran =>
                           a < processes[i].first_sector \/ EndOf(processes[i]) =< a
    PROVE  IInv'
<1>1. RAM' \in Ram /\ \A c : c # a => RAM'[c] = RAM[c]
  BY DEF IInv, TypeOK, Ram
<1>2. TypeOK' /\ RunnerRan'
  BY <1>1 DEF IInv, TypeOK, Ram, RunnerRan, manager, Manager!TypeOK
<1>3. RegionsOwned'
  BY DEF IInv, RegionsOwned, manager
<1>4. Confined => ReadyToRun'
  <2>. SUFFICES ASSUME Confined, NEW i \in Indices PROVE ReadyIn(RAM', processes[i])
    BY DEF ReadyToRun, ReadyIn, Indices, last_code_sector
  <2>1. CASE processes[i].ran
    BY <2>1 DEF ReadyIn
  <2>2. CASE ~ processes[i].ran
    <3>1. ReadyIn(RAM, processes[i])
      BY DEF IInv, ReadyToRun, ReadyIn, Indices
    <3>2. \A c \in Nat : processes[i].first_sector =< c /\ c < EndOf(processes[i]) =>
                           RAM'[c] = RAM[c]
      BY <1>1, <2>2, ProcessInside, SizesFit
    <3>. QED
      BY <3>1, <3>2, ReadyKept, ProcessInside
  <2>. QED
    BY <2>1, <2>2
<1>5. MP!IInv'
  BY SizesFit, MP!NextInvariant DEF IInv, manager, MP!vars
<1>. QED
  BY <1>2, <1>3, <1>4, <1>5 DEF IInv

-----------------------------------------------------------------------------
(* Loading. *)

\* An image is the file and a header.
LEMMA ImageSeq ==
    ASSUME NEW b \in Binaries
    PROVE  /\ Image(b) \in Seq(MemCell) /\ Len(Image(b)) = Len(b) + 3
           /\ \A k \in 1 .. Len(b) : Image(b)[k] = b[k]
           /\ Image(b)[Len(b) + 1] = High(HeapSize) /\ Image(b)[Len(b) + 2] = Low(HeapSize)
           /\ Image(b)[Len(b) + 3] = FREE
<1>1. b \in Seq(MemCell) /\ Len(b) \in Nat /\ HeapSize \in Nat
  BY BinarySizes
<1>2. FirstHeader \in Seq(MemCell) /\ Len(FirstHeader) = 3
  <2>1. High(HeapSize) \in MemCell /\ Low(HeapSize) \in MemCell
    BY <1>1, ByteTypes
  <2>2. FREE \in MemCell
    BY WordRanges DEF FREE, MemCell
  <2>. QED
    BY <2>1, <2>2 DEF FirstHeader
<1>. QED
  BY <1>1, <1>2, ConcatProperties DEF Image, FirstHeader

\* What load_program writes: the image and the header, inside the region.
LEMMA ImageWritten ==
    ASSUME RAM \in Ram, NEW b \in Binaries, NEW first \in Nat,
           first + total_program_size(b) =< ArenaSize
    PROVE  /\ Loaded(b, first) \in Ram
           /\ \A a \in 0 .. (RamSize - 1) :
                  a < first \/ first + total_program_size(b) =< a =>
                      Loaded(b, first)[a] = RAM[a]
           /\ \A k \in 1 .. Len(b) : Loaded(b, first)[first + k - 1] = b[k]
           /\ Loaded(b, first)[first + Len(b)] = High(HeapSize)
           /\ Loaded(b, first)[first + Len(b) + 1] = Low(HeapSize)
           /\ Loaded(b, first)[first + Len(b) + 2] = FREE
<1>. DEFINE image == Image(b)
            size == total_program_size(b)
            loaded == Loaded(b, first)
<1>1. /\ b \in Seq(MemCell) /\ Len(b) \in Nat /\ HeapSize \in Nat
      /\ size \in Nat \ {0} /\ Len(b) + 3 =< size
  BY BinarySizes
<1>3. /\ image \in Seq(MemCell) /\ Len(image) = Len(b) + 3
      /\ \A k \in 1 .. Len(b) : image[k] = b[k]
      /\ image[Len(b) + 1] = High(HeapSize) /\ image[Len(b) + 2] = Low(HeapSize)
      /\ image[Len(b) + 3] = FREE
  BY ImageSeq
<1>4. \A k \in 1 .. Len(image) : image[k] \in MemCell
  BY <1>3, ElementOfSeq
<1>5. DOMAIN RAM = 0 .. (RamSize - 1)
  BY DEF Ram
<1>6. ArenaSize \in Nat /\ RamSize \in Nat /\ ArenaSize < RamSize
  BY SizesFit
<1>. HIDE DEF image, size
<1>7. loaded = [a \in 0 .. (RamSize - 1) |->
                   IF a - first + 1 \in 1 .. Len(image) THEN image[a - first + 1] ELSE RAM[a]]
  BY <1>5 DEF Loaded, image
<1>. HIDE DEF loaded
<1>8. loaded \in Ram
  BY <1>4, <1>7 DEF Ram
<1>9. ASSUME NEW a \in 0 .. (RamSize - 1), a < first \/ first + size =< a
      PROVE  loaded[a] = RAM[a]
  <2>1. ~ (a - first + 1 \in 1 .. Len(image))
    BY <1>1, <1>3, <1>6, <1>9
  <2>. QED
    BY <1>7, <2>1
<1>10. ASSUME NEW k \in 1 .. Len(image)
       PROVE  loaded[first + k - 1] = image[k]
  <2>1. first + k - 1 \in 0 .. (RamSize - 1) /\ (first + k - 1) - first + 1 = k
    BY <1>1, <1>3, <1>6 DEF size
  <2>. QED
    BY <1>7, <2>1
<1>11. /\ Len(b) + 1 \in 1 .. Len(image) /\ Len(b) + 2 \in 1 .. Len(image)
       /\ Len(b) + 3 \in 1 .. Len(image)
       /\ first + (Len(b) + 1) - 1 = first + Len(b)
       /\ first + (Len(b) + 2) - 1 = first + Len(b) + 1
       /\ first + (Len(b) + 3) - 1 = first + Len(b) + 2
  BY <1>1, <1>3
<1>12. \A k \in 1 .. Len(b) : loaded[first + k - 1] = b[k]
  BY <1>1, <1>3, <1>10
<1>13. /\ loaded[first + Len(b)] = High(HeapSize)
       /\ loaded[first + Len(b) + 1] = Low(HeapSize)
       /\ loaded[first + Len(b) + 2] = FREE
  BY <1>3, <1>10, <1>11
<1>. QED
  BY <1>8, <1>9, <1>12, <1>13 DEF loaded, size

LEMMA LoadKeeps ==
    ASSUME IInv, NEW b \in Binaries, LoadProgram(b)
    PROVE  IInv'
<1>. DEFINE size == total_program_size(b)
            first == returned'
            new == [pid |-> next_ready_pid, binary |-> b, first_sector |-> first,
                    PC |-> Addr(first + entry_point(b)), running |-> TRUE, ran |-> FALSE]
            n == Len(processes)
<1>1. /\ executing = 0 /\ executing' = 0
      /\ MP!Allocate(size)
      /\ RAM' = Loaded(b, first) /\ processes' = Append(processes, new)
      /\ next_ready_pid' = next_ready_pid + 1
  BY DEF LoadProgram, Manager!Allocate, MP!Allocate, Manager!FirstFit, MP!FirstFit,
         Manager!Splice, MP!Splice, Manager!Rest, MP!Rest, Manager!Block, MP!Block
<1>2. /\ b \in Seq(MemCell) /\ Len(b) \in Nat /\ 2 =< Len(b) /\ size \in Nat \ {0}
      /\ size = Len(b) + HeapSize + StackSize
  BY BinarySizes
<1>3. /\ first \in Nat /\ first + size =< ArenaSize
      /\ owned' = owned \cup {Manager!Block(first, size)}
      /\ \A c \in owned : c.start_address + c.size =< first \/ first + size =< c.start_address
  BY <1>1, <1>2, SizesFit, MP!AllocateFresh DEF IInv, MP!Block, Manager!Block
<1>4. MP!IInv'
  BY <1>1, SizesFit, MP!AllocateInvariant DEF IInv
<1>5. first \in MemAddr
  BY <1>2, <1>3, SizesFit DEF MemAddr
<1>6. b[1] \in MemCell /\ b[2] \in MemCell
  BY <1>2, ElementOfSeq
<1>7. entry_point(b) \in Nat
  BY <1>6, JoinType, WordRanges DEF entry_point, MemAddr
<1>8. new \in Process
  <2>1. Addr(first + entry_point(b)) \in MemAddr
    BY <1>3, <1>7, ConversionTypes
  <2>. QED
    BY <2>1, <1>5 DEF IInv, TypeOK, Process
<1>. HIDE DEF size, first, new
<1>9. /\ processes' \in Seq(Process) /\ Len(processes') = n + 1 /\ n \in Nat
      /\ processes'[n + 1] = new /\ \A i \in Indices : processes'[i] = processes[i]
  BY <1>1, <1>8, AppendProperties, LenProperties DEF IInv, TypeOK, Indices
<1>10. /\ new.first_sector = first /\ new.binary = b /\ ~ new.ran
       /\ new.PC = Addr(first + entry_point(b))
       /\ allocated_memory(new) = size /\ last_code_sector(new) = first + Len(b)
       /\ EndOf(new) = first + size
  BY <1>2 DEF new, allocated_memory, last_code_sector, EndOf
<1>11. /\ RAM' \in Ram
       /\ \A a \in 0 .. (RamSize - 1) : a < first \/ first + size =< a => RAM'[a] = RAM[a]
       /\ \A k \in 1 .. Len(b) : RAM'[first + k - 1] = b[k]
       /\ RAM'[first + Len(b)] = High(HeapSize)
       /\ RAM'[first + Len(b) + 1] = Low(HeapSize)
       /\ RAM'[first + Len(b) + 2] = FREE
  BY <1>1, <1>3, ImageWritten DEF IInv, TypeOK, Ram, size
<1>12. ASSUME NEW i \in Indices
       PROVE  EndOf(processes[i]) =< first \/ first + size =< processes[i].first_sector
  <2>. DEFINE c == Manager!Block(processes[i].first_sector, allocated_memory(processes[i]))
  <2>1. c \in owned
    BY DEF IInv, RegionsOwned, Indices
  <2>2. c.start_address + c.size =< first \/ first + size =< c.start_address
    BY <1>3, <2>1
  <2>. QED
    BY <2>2 DEF Manager!Block, EndOf
<1>13. TypeOK'
  <2>1. Manager!TypeOK'
    BY <1>4 DEF MP!IInv, MP!TypeOK, Manager!TypeOK, MP!MemoryBlock, Manager!MemoryBlock,
        MP!MemAddr, Manager!MemAddr, MP!Arena, Manager!Arena, MP!Failed, Manager!Failed
  <2>2. next_ready_pid' \in Nat /\ executing' \in 0 .. Len(processes')
    BY <1>1, <1>9 DEF IInv, TypeOK
  <2>. QED
    BY <2>1, <2>2, <1>9, <1>11 DEF TypeOK, Ram
<1>14. RegionsOwned'
  <2>. DEFINE BlockOf(p) == Manager!Block(p.first_sector, allocated_memory(p))
  <2>1. owned = {BlockOf(processes[i]) : i \in Indices}
    BY DEF IInv, RegionsOwned, Indices
  <2>2. Indices = 1 .. n /\ 1 .. Len(processes') = Indices \cup {n + 1}
    BY <1>9 DEF Indices
  <2>3. BlockOf(new) = Manager!Block(first, size)
    BY <1>10
  <2>4. owned' = {BlockOf(processes'[i]) : i \in 1 .. Len(processes')}
    <3>. HIDE DEF BlockOf, n
    <3>1. {BlockOf(processes'[i]) : i \in 1 .. Len(processes')}
              = {BlockOf(processes'[i]) : i \in Indices} \cup {BlockOf(processes'[n + 1])}
      BY <2>2
    <3>2. {BlockOf(processes'[i]) : i \in Indices} = {BlockOf(processes[i]) : i \in Indices}
      BY <1>9
    <3>. QED
      BY <3>1, <3>2, <1>3, <1>9, <2>1, <2>3
  <2>5. ASSUME NEW i \in 1 .. Len(processes'), NEW j \in 1 .. Len(processes'), i < j
        PROVE  \/ EndOf(processes'[i]) =< processes'[j].first_sector
               \/ EndOf(processes'[j]) =< processes'[i].first_sector
    <3>1. i \in Indices
      BY <2>5, <1>9, <2>2
    <3>2. CASE j \in Indices
      BY <2>5, <1>9, <3>1, <3>2 DEF IInv, RegionsOwned, Indices, EndOf
    <3>3. CASE j = n + 1
      BY <1>9, <1>10, <1>12, <3>1, <3>3
    <3>. QED
      BY <2>2, <3>2, <3>3
  <2>. QED
    BY <2>4, <2>5 DEF RegionsOwned, EndOf, allocated_memory
<1>15. Confined => ReadyToRun'
  <2>. SUFFICES ASSUME Confined, NEW i \in 1 .. Len(processes') PROVE ReadyIn(RAM', processes'[i])
    BY DEF ReadyToRun, ReadyIn, last_code_sector
  <2>1. CASE i \in Indices
    <3>1. ReadyIn(RAM, processes[i])
      BY <2>1 DEF IInv, ReadyToRun, ReadyIn, Indices
    <3>2. ASSUME NEW a \in Nat, processes[i].first_sector =< a, a < EndOf(processes[i])
          PROVE  RAM'[a] = RAM[a]
      <4>1. /\ processes[i].first_sector \in Nat /\ EndOf(processes[i]) \in Nat
            /\ EndOf(processes[i]) =< ArenaSize
            /\ ArenaSize < RamSize /\ ArenaSize \in Nat /\ RamSize \in Nat
        BY <2>1, ProcessInside, SizesFit
      <4>2. EndOf(processes[i]) =< first \/ first + size =< processes[i].first_sector
        BY <1>12, <2>1
      <4>3. a \in 0 .. (RamSize - 1) /\ (a < first \/ first + size =< a)
        BY <1>2, <1>3, <3>2, <4>1, <4>2
      <4>. QED
        BY <1>11, <4>3
    <3>. QED
      BY <1>9, <2>1, <3>1, <3>2, ReadyKept, ProcessInside
  <2>2. CASE i = n + 1
    <3>1. RAM'[first] = b[1] /\ RAM'[first + 1] = b[2]
      <4>1. RAM'[first + 1 - 1] = b[1] /\ RAM'[first + 2 - 1] = b[2]
        BY <1>2, <1>11
      <4>2. first + 1 - 1 = first /\ first + 2 - 1 = first + 1
        BY <1>3
      <4>. QED
        BY <4>1, <4>2
    <3>2. Join(High(HeapSize), Low(HeapSize)) = HeapSize
      <4>1. HeapSize \in MemAddr
        <5>1. /\ HeapSize \in Nat /\ StackSize \in Nat /\ ArenaSize \in Nat
              /\ AddrRange \in Nat /\ ArenaSize =< AddrRange
          BY SystemAssumption, SizesFit
        <5>2. HeapSize < AddrRange
          BY <1>2, <1>3, <5>1
        <5>. QED
          BY <5>1, <5>2 DEF MemAddr
      <4>. QED
        BY <4>1, JoinBytes
    <3>. QED
      BY <1>9, <1>10, <1>11, <2>2, <3>1, <3>2 DEF ReadyIn, entry_point
  <2>. QED
    BY <1>9, <2>1, <2>2 DEF Indices
<1>16. RunnerRan'
  BY <1>1 DEF RunnerRan
<1>. QED
  BY <1>4, <1>13, <1>14, <1>15, <1>16 DEF IInv

LEMMA LoadFailsKeeps ==
    ASSUME IInv, NEW b \in Binaries, LoadFails(b)
    PROVE  IInv'
<1>1. UNCHANGED <<free_list, owned, RAM, next_ready_pid, processes, executing>> /\ returned' = -1
  BY DEF LoadFails, Manager!AllocateFails, Manager!Failed
<1>2. MP!AllocateFails(total_program_size(b))
  BY DEF LoadFails, Manager!AllocateFails, MP!AllocateFails, Manager!Failed, MP!Failed
<1>3. MP!IInv'
  BY <1>2, SizesFit, MP!NextInvariant DEF IInv, MP!Next
<1>4. TypeOK' /\ RegionsOwned' /\ (Confined => ReadyToRun') /\ RunnerRan'
  BY <1>1 DEF IInv, TypeOK, Manager!TypeOK, Manager!Failed, RegionsOwned, ReadyToRun, RunnerRan,
      last_code_sector, allocated_memory
<1>. QED
  BY <1>3, <1>4 DEF IInv

-----------------------------------------------------------------------------
(* Running. *)

LEMMA ExecKeeps ==
    ASSUME IInv, NEW i \in Indices, Exec(i)
    PROVE  IInv'
<1>. DEFINE q == [processes[i] EXCEPT !.ran = TRUE]
<1>1. processes[i] \in Process
  BY ProcessInside
<1>2. q \in Process /\ q.first_sector = processes[i].first_sector
      /\ q.binary = processes[i].binary /\ q.ran
  BY <1>1 DEF Process
<1>3. /\ processes' = [processes EXCEPT ![i] = q] /\ executing' \in {0, i}
      /\ UNCHANGED <<manager, RAM, next_ready_pid>>
  BY DEF Exec
<1>. QED
  BY <1>2, <1>3, ProcessUpdated

\* The process that runs is a loaded one, and has run.
LEMMA Runner ==
    ASSUME IInv, executing # 0
    PROVE  executing \in Indices /\ processes[executing] \in Process /\ processes[executing].ran
<1>1. executing \in Indices
  BY LenProperties DEF IInv, TypeOK, Indices
<1>. QED
  BY <1>1, ProcessInside DEF IInv, RunnerRan

LEMMA ReturnKeeps ==
    ASSUME IInv, NEW halted \in BOOLEAN, Return(halted)
    PROVE  IInv'
<1>. DEFINE i == executing
            q == [processes[i] EXCEPT !.running = @ /\ ~ halted, !.PC = processes[i].first_sector]
<1>1. i \in Indices /\ processes[i] \in Process /\ processes[i].ran
  BY Runner DEF Return
<1>2. q \in Process /\ q.first_sector = processes[i].first_sector
      /\ q.binary = processes[i].binary /\ q.ran
  BY <1>1 DEF Process
<1>3. /\ processes' = [processes EXCEPT ![i] = q] /\ executing' \in {0, i}
      /\ UNCHANGED <<manager, RAM, next_ready_pid>>
  BY <1>1 DEF Return, Process
<1>. QED
  BY <1>1, <1>2, <1>3, ProcessUpdated

LEMMA ThrowKeeps ==
    ASSUME IInv, Throw
    PROVE  IInv'
<1>. DEFINE i == executing
            p == processes[i]
<1>1. i \in Indices /\ p \in Process /\ p.ran
  BY Runner DEF Throw
<1>2. PICK PC \in MemAddr : processes' = [processes EXCEPT ![i].PC = PC]
  BY DEF Throw
<1>. DEFINE q == [p EXCEPT !.PC = PC]
<1>3. q \in Process /\ q.first_sector = p.first_sector /\ q.binary = p.binary /\ q.ran
  BY <1>1 DEF Process
<1>4. /\ processes' = [processes EXCEPT ![i] = q] /\ executing' \in {0, i}
      /\ UNCHANGED <<manager, RAM, next_ready_pid>>
  BY <1>2 DEF Throw
<1>. QED
  BY <1>1, <1>3, <1>4, ProcessUpdated

\* Two loaded processes share no byte.
LEMMA RegionsApart ==
    ASSUME IInv, NEW i \in Indices, NEW j \in Indices, i # j
    PROVE  \/ EndOf(processes[i]) =< processes[j].first_sector
           \/ EndOf(processes[j]) =< processes[i].first_sector
<1>1. i < j \/ j < i
  BY DEF Indices
<1>. QED
  BY <1>1 DEF IInv, RegionsOwned, Indices, EndOf

\* A store of a confined program hits the program's own memory.
LEMMA StoreHits ==
    ASSUME IInv, Confined, NEW i \in Indices,
           NEW o \in Touched(allocated_memory(processes[i]))
    PROVE  /\ o \in 0 .. (allocated_memory(processes[i]) - 1)
           /\ Addr(processes[i].first_sector + o) = processes[i].first_sector + o
           /\ processes[i].first_sector + o < EndOf(processes[i])
<1>. DEFINE p == processes[i]
<1>1. /\ p \in Process /\ p.first_sector \in Nat /\ EndOf(p) \in Nat /\ EndOf(p) =< ArenaSize
  BY ProcessInside
<1>. HIDE DEF p
<1>2. /\ p.binary \in Binaries /\ allocated_memory(p) = total_program_size(p.binary)
      /\ allocated_memory(p) \in Nat
  BY <1>1, ProcessSizes, BinarySizes
<1>3. o \in 0 .. (allocated_memory(p) - 1)
  <2>1. o \in Touched(total_program_size(p.binary))
    BY <1>2 DEF p
  <2>. QED
    BY <1>2, <2>1 DEF Confined
<1>4. p.first_sector + o \in Nat /\ p.first_sector + o < EndOf(p)
  BY <1>1, <1>2, <1>3 DEF EndOf
<1>5. p.first_sector + o \in MemAddr
  BY <1>1, <1>4, SizesFit DEF MemAddr
<1>. QED
  BY <1>3, <1>4, <1>5, AddrOfAddr DEF p

LEMMA StoreKeeps ==
    ASSUME IInv, NEW v \in Stored, Store(v)
    PROVE  IInv'
<1>. DEFINE i == executing
            p == processes[i]
<1>1. i \in Indices /\ p \in Process /\ p.ran
  BY Runner DEF Store
<1>2. PICK o \in Touched(allocated_memory(p)) :
          /\ Addr(p.first_sector + o) \in DOMAIN RAM
          /\ RAM' = [RAM EXCEPT ![Addr(p.first_sector + o)] = v]
  BY DEF Store
<1>. DEFINE a == Addr(p.first_sector + o)
<1>3. a \in 0 .. (RamSize - 1)
  BY <1>2 DEF IInv, TypeOK
<1>4. v \in MemCell
  BY SystemAssumption
<1>5. ASSUME Confined, NEW j \in Indices, ~ processes[j].ran
      PROVE  a < processes[j].first_sector \/ EndOf(processes[j]) =< a
  <2>1. /\ o \in 0 .. (allocated_memory(p) - 1)
        /\ a = p.first_sector + o /\ a < EndOf(p)
    BY <1>1, <1>5, StoreHits
  <2>2. i # j
    BY <1>1, <1>5
  <2>3. \/ EndOf(p) =< processes[j].first_sector
        \/ EndOf(processes[j]) =< p.first_sector
    BY <1>1, <2>2, <1>5, RegionsApart
  <2>4. /\ processes[j].first_sector \in Nat /\ EndOf(processes[j]) \in Nat
        /\ p.first_sector \in Nat /\ EndOf(p) \in Nat
    BY <1>1, <1>5, ProcessInside
  <2>. HIDE DEF a, p, i
  <2>5. o \in Int /\ 0 =< o
    BY <2>1
  <2>. QED
    BY <2>1, <2>3, <2>4, <2>5
<1>6. UNCHANGED <<manager, next_ready_pid, processes, executing>>
  BY DEF Store
<1>7. RAM' = [RAM EXCEPT ![a] = v]
  BY <1>2
<1>. HIDE DEF a
<1>. QED
  BY <1>3, <1>4, <1>5, <1>6, <1>7, ByteChanged

-----------------------------------------------------------------------------
(* The machine. *)

LEMMA SetGuiKeeps ==
    ASSUME IInv, NEW status \in {0, 1}, set_gui(status)
    PROVE  IInv'
<1>1. gui_byte \in 0 .. (RamSize - 1) /\ status \in MemCell
  BY SizesFit, WordRanges DEF MemCell
<1>2. ASSUME NEW i \in Indices PROVE EndOf(processes[i]) =< gui_byte
  BY ProcessInside, SizesFit
<1>3. /\ RAM' = [RAM EXCEPT ![gui_byte] = status]
      /\ UNCHANGED <<manager, next_ready_pid, processes, executing>>
  BY DEF set_gui
<1>. QED
  BY <1>1, <1>2, <1>3, ByteChanged

LEMMA ResetKeeps ==
    ASSUME IInv, Reset
    PROVE  IInv'
<1>1. /\ owned' = {} /\ processes' = <<>> /\ next_ready_pid' = 1
      /\ executing = 0 /\ executing' = 0 /\ RAM' = RAM
  BY DEF Reset, Manager!Reset
<1>2. MP!Reset
  BY DEF Reset, Manager!Reset, MP!Reset, Manager!Block, MP!Block
<1>3. MP!IInv'
  BY <1>2, SizesFit, MP!ResetInvariant DEF IInv
<1>4. Manager!TypeOK'
  BY <1>3 DEF MP!IInv, MP!TypeOK, Manager!TypeOK, MP!MemoryBlock, Manager!MemoryBlock,
      MP!MemAddr, Manager!MemAddr, MP!Arena, Manager!Arena, MP!Failed, Manager!Failed
<1>5. processes' \in Seq(Process) /\ Len(processes') = 0
  BY <1>1, EmptySeq
<1>6. TypeOK'
  BY <1>1, <1>4, <1>5 DEF IInv, TypeOK
<1>7. RegionsOwned' /\ ReadyToRun' /\ RunnerRan'
  BY <1>1, <1>5 DEF RegionsOwned, ReadyToRun, RunnerRan
<1>. QED
  BY <1>3, <1>6, <1>7 DEF IInv

LEMMA InitKeeps == Init => IInv
<1>. SUFFICES ASSUME Init PROVE IInv
  OBVIOUS
<1>1. MP!Init
  BY DEF Init, Manager!Init, MP!Init, Manager!Block, MP!Block, Manager!Failed, MP!Failed
<1>2. MP!IInv
  BY <1>1, SizesFit, MP!InitInvariant
<1>3. Manager!TypeOK
  BY <1>2 DEF MP!IInv, MP!TypeOK, Manager!TypeOK, MP!MemoryBlock, Manager!MemoryBlock,
      MP!MemAddr, Manager!MemAddr, MP!Arena, Manager!Arena, MP!Failed, Manager!Failed
<1>4. /\ owned = {} /\ processes = <<>> /\ next_ready_pid = 1 /\ executing = 0
      /\ RAM = [a \in 0 .. (RamSize - 1) |-> 0]
  BY DEF Init, Manager!Init
<1>5. processes \in Seq(Process) /\ Len(processes) = 0
  BY <1>4, EmptySeq
<1>6. RAM \in [0 .. (RamSize - 1) -> MemCell]
  BY <1>4, WordRanges DEF MemCell
<1>7. TypeOK
  BY <1>3, <1>4, <1>5, <1>6 DEF TypeOK
<1>8. RegionsOwned /\ ReadyToRun /\ RunnerRan
  BY <1>4, <1>5 DEF RegionsOwned, ReadyToRun, RunnerRan
<1>. QED
  BY <1>2, <1>7, <1>8 DEF IInv

LEMMA StutterKeeps ==
    ASSUME IInv, UNCHANGED vars
    PROVE  IInv'
<1>1. UNCHANGED <<free_list, owned, returned, RAM, next_ready_pid, processes, executing>>
  BY DEF vars, manager
<1>2. MP!IInv'
  BY <1>1, SizesFit, MP!NextInvariant DEF IInv, MP!vars
<1>3. TypeOK' /\ RegionsOwned' /\ (Confined => ReadyToRun') /\ RunnerRan'
  BY <1>1 DEF IInv, TypeOK, Manager!TypeOK, RegionsOwned, ReadyToRun, RunnerRan,
      last_code_sector, allocated_memory
<1>. QED
  BY <1>2, <1>3 DEF IInv

LEMMA NextKeeps == IInv /\ [Next]_vars => IInv'
<1>. SUFFICES ASSUME IInv, [Next]_vars PROVE IInv'
  OBVIOUS
<1>1. ASSUME NEW b \in Binaries, LoadProgram(b) \/ LoadFails(b) PROVE IInv'
  BY <1>1, LoadKeeps, LoadFailsKeeps
<1>2. ASSUME NEW i \in 1 .. Len(processes), Exec(i) PROVE IInv'
  BY <1>2, ExecKeeps DEF Indices
<1>3. ASSUME NEW v \in Stored, Store(v) PROVE IInv'
  BY <1>3, StoreKeeps
<1>4. ASSUME NEW halted \in BOOLEAN, Return(halted) PROVE IInv'
  BY <1>4, ReturnKeeps
<1>5. CASE Throw
  BY <1>5, ThrowKeeps
<1>6. CASE Reset
  BY <1>6, ResetKeeps
<1>7. ASSUME NEW status \in {0, 1}, set_gui(status) PROVE IInv'
  BY <1>7, SetGuiKeeps
<1>8. CASE UNCHANGED vars
  BY <1>8, StutterKeeps
<1>. QED
  BY <1>1, <1>2, <1>3, <1>4, <1>5, <1>6, <1>7, <1>8 DEF Next

LEMMA AlwaysIInv == Spec => []IInv
BY InitKeeps, NextKeeps, PTL DEF Spec

\* The variables keep their types: no PC and no first_sector wraps, every cell
\* of RAM is written with a byte.
THEOREM TypeCorrect == Spec => []TypeOK
<1>1. IInv => TypeOK
  BY DEF IInv
<1>. QED
  BY <1>1, AlwaysIInv, PTL

\* The regions that the processes think are theirs are those the manager has
\* handed out, and share no byte, whatever was loaded, refused or reset.
THEOREM RegionsStayOwned == Spec => []RegionsOwned
<1>1. IInv => RegionsOwned
  BY DEF IInv
<1>. QED
  BY <1>1, AlwaysIInv, PTL

\* If every program stores only into its own memory, which nothing enforces, a
\* process that waits for its first exec keeps its image, its entry point and
\* its empty heap through the loads, refusals, runs, exceptions and GUI changes
\* of the others in the same RAM.
THEOREM AlwaysReady == Confined => (Spec => []ReadyToRun)
<1>. SUFFICES ASSUME Confined PROVE Spec => []ReadyToRun
  OBVIOUS
<1>1. IInv => ReadyToRun
  BY DEF IInv
<1>. QED
  BY <1>1, AlwaysIInv, PTL

-----------------------------------------------------------------------------
(* Isolation. *)

MemoryIn(ram, p) == [o \in 0 .. (allocated_memory(p) - 1) |-> ram[p.first_sector + o]]
Memories(ram, ps) == [i \in 1 .. Len(ps) |-> MemoryIn(ram, ps[i])]

\* The mapped memories are a sequence, as long as the processes.
LEMMA MemoriesSeq ==
    ASSUME NEW ram, NEW ps, Len(ps) \in Nat
    PROVE  /\ Len(Memories(ram, ps)) = Len(ps) /\ DOMAIN Memories(ram, ps) = 1 .. Len(ps)
           /\ \A i \in 1 .. Len(ps) : Memories(ram, ps)[i] = MemoryIn(ram, ps[i])
           /\ Memories(ram, ps) \in Seq({MemoryIn(ram, ps[i]) : i \in 1 .. Len(ps)})
<1>. DEFINE n == Len(ps)
            S == {MemoryIn(ram, ps[i]) : i \in 1 .. n}
            f(i) == MemoryIn(ram, ps[i])
            s == [i \in 1 .. n |-> f(i)]
<1>0. \A i \in 1 .. n : f(i) \in S
  OBVIOUS
<1>. HIDE DEF n, S, f
<1>1. n \in Nat
  BY DEF n
<1>2. s \in Seq(S)
  BY <1>0, <1>1
<1>3. DOMAIN s = 1 .. n /\ \A i \in 1 .. n : s[i] = f(i)
  OBVIOUS
<1>. HIDE DEF s
<1>4. Len(s) = n
  BY <1>1, <1>2, <1>3, LenProperties
<1>5. Memories(ram, ps) = s
  BY DEF Memories, s, f, n
<1>. QED
  BY <1>2, <1>3, <1>4, <1>5 DEF f, n, S

LEMMA MappedMemory ==
    [i \in 1 .. Len(processes) |-> MemoryOf(processes[i])] = Memories(RAM, processes)
BY DEF Memories, MemoryIn, MemoryOf

\* No processes, no memories.
LEMMA NoMemories ==
    ASSUME NEW ram, NEW ps, ps = <<>>
    PROVE  Memories(ram, ps) = <<>>
<1>. DEFINE S == {MemoryIn(ram, ps[i]) : i \in 1 .. Len(ps)}
            s == Memories(ram, ps)
<1>1. Len(ps) = 0
  OBVIOUS
<1>2. s \in Seq(S) /\ Len(s) = 0
  BY <1>1, MemoriesSeq
<1>. HIDE DEF S, s
<1>3. s = <<>>
  BY <1>2, EmptySeq
<1>. QED
  BY <1>3 DEF s

\* A memory is as it was when no byte of its region has changed.
LEMMA MemoryKept ==
    ASSUME NEW p \in Process, NEW ram, NEW other,
           \A a \in Nat : p.first_sector =< a /\ a < EndOf(p) => other[a] = ram[a]
    PROVE  MemoryIn(other, p) = MemoryIn(ram, p)
<1>1. p.first_sector \in Nat /\ allocated_memory(p) \in Nat
  BY ProcessSizes, BinarySizes
<1>2. ASSUME NEW o \in 0 .. (allocated_memory(p) - 1)
      PROVE  other[p.first_sector + o] = ram[p.first_sector + o]
  BY <1>1, <1>2 DEF EndOf
<1>. QED
  BY <1>2 DEF MemoryIn

LEMMA InitIsolated == Init => Isolated!Init
<1>. SUFFICES ASSUME Init PROVE Isolated!Init
  OBVIOUS
<1>1. processes = <<>> /\ executing = 0
  BY DEF Init
<1>2. Memories(RAM, processes) = <<>>
  BY <1>1, NoMemories
<1>. QED
  BY <1>1, <1>2, MappedMemory DEF Isolated!Init

LEMMA ResetIsolated == Reset => Isolated!Reset
<1>. SUFFICES ASSUME Reset PROVE Isolated!Reset
  OBVIOUS
<1>1. processes' = <<>> /\ executing' = 0
  BY DEF Reset
<1>2. Memories(RAM', processes') = <<>>
  BY <1>1, NoMemories
<1>. QED
  BY <1>1, <1>2 DEF Isolated!Reset, Memories, MemoryIn, MemoryOf, allocated_memory

\* Who runs changes, and nothing else that the memories are made of.
LEMMA ProcessesChange ==
    ASSUME IInv, IInv', RAM' = RAM, Len(processes') = Len(processes),
           \A i \in Indices : /\ processes'[i].first_sector = processes[i].first_sector
                             /\ processes'[i].binary = processes[i].binary
    PROVE  Isolated!Switch
<1>1. Len(processes) \in Nat /\ executing' \in 0 .. Len(processes)
  BY LenProperties DEF IInv, TypeOK
<1>2. \A i \in Indices : MemoryIn(RAM', processes'[i]) = MemoryIn(RAM, processes[i])
  BY DEF MemoryIn, allocated_memory
<1>3. Memories(RAM', processes') = Memories(RAM, processes)
  <2>. HIDE DEF MemoryIn
  <2>. QED
    BY <1>1, <1>2 DEF Memories, Indices
<1>4. Len(Memories(RAM, processes)) = Len(processes)
  BY <1>1, MemoriesSeq
<1>. QED
  BY <1>1, <1>3, <1>4
  DEF Isolated!Switch, Memories, MemoryIn, MemoryOf, allocated_memory

\* One byte of RAM changes that no process owns.
LEMMA ByteOutside ==
    ASSUME IInv, NEW a \in Nat, NEW v, RAM' = [RAM EXCEPT ![a] = v],
           UNCHANGED <<processes, executing>>,
           \A i \in Indices : EndOf(processes[i]) =< a
    PROVE  Memories(RAM', processes) = Memories(RAM, processes)
<1>1. \A c : c # a => RAM'[c] = RAM[c]
  BY DEF IInv, TypeOK
<1>2. ASSUME NEW i \in Indices
      PROVE  MemoryIn(RAM', processes[i]) = MemoryIn(RAM, processes[i])
  <2>1. \A c \in Nat : processes[i].first_sector =< c /\ c < EndOf(processes[i]) =>
                          RAM'[c] = RAM[c]
    BY <1>1, ProcessInside
  <2>. QED
    BY <2>1, MemoryKept, ProcessInside
<1>. QED
  BY <1>2 DEF Memories, Indices

LEMMA LoadIsolated ==
    ASSUME IInv, IInv', NEW b \in Binaries, LoadProgram(b)
    PROVE  Isolated!Load(Image(b))
<1>. DEFINE size == total_program_size(b)
            first == returned'
            n == Len(processes)
            new == processes'[n + 1]
            M == Memories(RAM, processes)
            MM == Memories(RAM', processes')
<1>1. /\ executing' = executing
      /\ MP!Allocate(size) /\ RAM' = Loaded(b, first)
  BY DEF LoadProgram, Manager!Allocate, MP!Allocate, Manager!FirstFit, MP!FirstFit,
         Manager!Splice, MP!Splice, Manager!Rest, MP!Rest, Manager!Block, MP!Block
<1>2. /\ n \in Nat /\ Len(processes') = n + 1
      /\ \A i \in Indices : processes'[i] = processes[i]
      /\ new.binary = b /\ new.first_sector = first
  BY AppendProperties, LenProperties DEF LoadProgram, IInv, TypeOK, Indices
<1>3. /\ b \in Seq(MemCell) /\ Len(b) \in Nat /\ size \in Nat \ {0}
      /\ size = Len(b) + HeapSize + StackSize /\ HeapSize \in Nat /\ StackSize \in Nat
      /\ Len(b) + 3 =< size
  BY BinarySizes
<1>4. /\ first \in Nat /\ first + size =< ArenaSize
      /\ \A c \in owned : c.start_address + c.size =< first \/ first + size =< c.start_address
  BY <1>1, <1>3, SizesFit, MP!AllocateFresh DEF IInv
<1>5. ASSUME NEW i \in Indices
      PROVE  EndOf(processes[i]) =< first \/ first + size =< processes[i].first_sector
  <2>. DEFINE c == Manager!Block(processes[i].first_sector, allocated_memory(processes[i]))
  <2>1. c \in owned
    BY DEF IInv, RegionsOwned, Indices
  <2>2. c.start_address + c.size =< first \/ first + size =< c.start_address
    BY <1>4, <2>1
  <2>. QED
    BY <2>2 DEF Manager!Block, EndOf
<1>. HIDE DEF size, first, new
<1>6. Len(Image(b)) = Len(b) + 3 /\ Image(b) \in Seq(MemCell)
  BY ImageSeq
<1>7. /\ Len(MM) = n + 1 /\ Len(M) = n
      /\ \A i \in 1 .. (n + 1) : MM[i] = MemoryIn(RAM', processes'[i])
      /\ \A i \in 1 .. n : M[i] = MemoryIn(RAM, processes[i])
  <2>1. /\ Len(M) = n /\ \A i \in 1 .. n : M[i] = MemoryIn(RAM, processes[i])
    BY <1>2, MemoriesSeq
  <2>2. Len(processes') \in Nat
    BY <1>2
  <2>3. /\ Len(MM) = Len(processes')
        /\ \A i \in 1 .. Len(processes') : MM[i] = MemoryIn(RAM', processes'[i])
    BY <2>2, MemoriesSeq
  <2>. QED
    BY <1>2, <2>1, <2>3
<1>8. \A a \in 0 .. (RamSize - 1) : a < first \/ first + size =< a => RAM'[a] = RAM[a]
  <2>1. RAM \in Ram /\ first + total_program_size(b) =< ArenaSize
    BY <1>4 DEF IInv, TypeOK, Ram, size
  <2>. QED
    BY <1>1, <1>4, <2>1, ImageWritten DEF size
<1>9. ASSUME NEW i \in Indices PROVE MM[i] = M[i]
  <2>1. \A a \in Nat : processes[i].first_sector =< a /\ a < EndOf(processes[i]) =>
                         RAM'[a] = RAM[a]
    BY <1>3, <1>4, <1>5, <1>8, ProcessInside, SizesFit
  <2>2. MemoryIn(RAM', processes[i]) = MemoryIn(RAM, processes[i])
    BY <2>1, MemoryKept, ProcessInside
  <2>3. i \in 1 .. n /\ i \in 1 .. (n + 1)
    BY <1>2 DEF Indices
  <2>. QED
    BY <1>2, <1>7, <2>2, <2>3
<1>10. MM[n + 1] = [o \in 0 .. (size - 1) |-> RAM'[first + o]]
  <2>1. MM[n + 1] = MemoryIn(RAM', new)
    BY <1>2, <1>7 DEF new
  <2>2. allocated_memory(new) = size
    BY <1>2, <1>3 DEF allocated_memory
  <2>. QED
    BY <1>2, <2>1, <2>2 DEF MemoryIn
<1>11. ASSUME NEW k \in 1 .. Len(Image(b)) PROVE MM[n + 1][k - 1] = Image(b)[k]
  <2>1. k - 1 \in 0 .. (size - 1)
    BY <1>3, <1>6
  <2>2. MM[n + 1][k - 1] = RAM'[first + (k - 1)]
    BY <1>10, <2>1
  <2>3. /\ first + (k - 1) \in DOMAIN RAM /\ (first + (k - 1)) - first + 1 = k
    BY <1>3, <1>4, <1>6, SizesFit DEF IInv, TypeOK
  <2>. QED
    BY <1>1, <2>2, <2>3 DEF Loaded
<1>12. DOMAIN MM[n + 1] = 0 .. ((Len(Image(b)) - 3 + HeapSize + StackSize) - 1)
  <2>1. size - 1 = (Len(Image(b)) - 3 + HeapSize + StackSize) - 1
    BY <1>3, <1>6
  <2>. QED
    BY <1>10, <2>1
<1>. DEFINE memory == [i \in 1 .. Len(processes) |-> MemoryOf(processes[i])]
<1>13. M = memory /\ MM = memory'
  BY DEF M, MM, memory, Memories, MemoryIn, MemoryOf, allocated_memory
<1>. HIDE DEF M, MM, memory
<1>14. (Len(M) + 1) - 1 = n /\ Len(memory) = n
  BY <1>2, <1>7, <1>13
<1>15. Len(memory') = Len(memory) + 1
  BY <1>7, <1>13
<1>16. \A i \in 1 .. ((Len(memory) + 1) - 1) : memory'[i] = memory[i]
  <2>1. \A i \in 1 .. n : MM[i] = M[i]
    BY <1>9 DEF Indices
  <2>. HIDE DEF n
  <2>. QED
    BY <2>1, <1>13, <1>14
<1>. HIDE DEF n
<1>17. DOMAIN memory'[Len(memory) + 1] = 0 .. ((Len(Image(b)) - 3 + HeapSize + StackSize) - 1)
  BY <1>12, <1>13, <1>14
<1>18. \A k \in 1 .. Len(Image(b)) : memory'[Len(memory) + 1][k - 1] = Image(b)[k]
  BY <1>11, <1>13, <1>14
<1>. QED
  BY <1>1, <1>15, <1>16, <1>17, <1>18 DEF Isolated!Load, memory

LEMMA StoreIsolated ==
    ASSUME Confined, IInv, NEW v \in Stored, Store(v)
    PROVE  Isolated!Store
<1>. DEFINE e == executing
            p == processes[e]
            n == Len(processes)
            M == Memories(RAM, processes)
            MM == Memories(RAM', processes')
<1>1. e \in Indices /\ p \in Process /\ executing # 0 /\ n \in Nat
  BY Runner, LenProperties DEF Store, IInv, TypeOK
<1>2. PICK o \in Touched(allocated_memory(p)) :
          RAM' = [RAM EXCEPT ![p.first_sector + o] = v]
  BY <1>1, StoreHits DEF Store
<1>3. processes' = processes /\ executing' = executing
  BY DEF Store
<1>4. o \in 0 .. (allocated_memory(p) - 1)
  BY <1>1, <1>2, StoreHits
<1>. DEFINE a == p.first_sector + o
<1>5. /\ p.first_sector \in Nat /\ allocated_memory(p) \in Nat /\ a \in Nat
      /\ p.first_sector =< a /\ a < EndOf(p)
  <2>. HIDE DEF p
  <2>1. p.first_sector \in Nat /\ allocated_memory(p) \in Nat
    BY <1>1, ProcessSizes, BinarySizes
  <2>. QED
    BY <1>4, <2>1 DEF EndOf
<1>. HIDE DEF a
<1>6. \A c : c # a => RAM'[c] = RAM[c]
  BY <1>2 DEF IInv, TypeOK, a
<1>7. /\ Len(M) = n /\ DOMAIN M = 1 .. n /\ DOMAIN MM = 1 .. n
      /\ \A i \in 1 .. n : M[i] = MemoryIn(RAM, processes[i])
      /\ \A i \in 1 .. n : MM[i] = MemoryIn(RAM', processes[i])
  BY <1>1, <1>3, MemoriesSeq
<1>8. ASSUME NEW i \in Indices, i # e PROVE MM[i] = M[i]
  <2>1. \/ EndOf(p) =< processes[i].first_sector
        \/ EndOf(processes[i]) =< p.first_sector
    BY <1>1, <1>8, RegionsApart
  <2>2. EndOf(processes[i]) \in Nat /\ processes[i].first_sector \in Nat /\ EndOf(p) \in Nat
    BY <1>1, ProcessInside
  <2>. HIDE DEF p
  <2>3. ASSUME NEW c \in Nat, processes[i].first_sector =< c, c < EndOf(processes[i])
        PROVE  RAM'[c] = RAM[c]
    <3>1. c # a
      BY <1>5, <2>1, <2>2, <2>3
    <3>. QED
      BY <1>6, <3>1
  <2>4. MemoryIn(RAM', processes[i]) = MemoryIn(RAM, processes[i])
    BY <2>3, MemoryKept, ProcessInside
  <2>. QED
    BY <1>7, <2>4 DEF Indices
<1>9. MM[e] = [M[e] EXCEPT ![o] = MM[e][o]]
  <2>1. /\ M[e] = MemoryIn(RAM, p) /\ MM[e] = MemoryIn(RAM', p)
    BY <1>1, <1>7 DEF Indices
  <2>2. \A k \in 0 .. (allocated_memory(p) - 1) : k # o =>
            RAM'[p.first_sector + k] = RAM[p.first_sector + k]
    BY <1>4, <1>5, <1>6 DEF a
  <2>. HIDE DEF p, M, MM
  <2>3. /\ M[e] = [k \in 0 .. (allocated_memory(p) - 1) |-> RAM[p.first_sector + k]]
        /\ MM[e] = [k \in 0 .. (allocated_memory(p) - 1) |-> RAM'[p.first_sector + k]]
    BY <2>1 DEF MemoryIn
  <2>. QED
    BY <2>2, <2>3
<1>10. o \in DOMAIN M[e]
  BY <1>1, <1>4, <1>7 DEF MemoryIn, Indices
<1>11. MM = [M EXCEPT ![e][o] = MM[e][o]]
  <2>1. MM = [i \in 1 .. n |-> MM[i]] /\ M = [i \in 1 .. n |-> M[i]]
    BY <1>1, <1>3 DEF Memories
  <2>2. \A i \in 1 .. n : i # e => MM[i] = M[i]
    BY <1>8 DEF Indices
  <2>3. e \in 1 .. n
    BY <1>1 DEF Indices
  <2>. HIDE DEF MM, M, n, e, p
  <2>. QED
    BY <1>7, <1>9, <2>1, <2>2, <2>3
<1>12. /\ M = [i \in 1 .. Len(processes) |-> MemoryOf(processes[i])]
       /\ MM = [i \in 1 .. Len(processes) |-> MemoryOf(processes[i])]'
  BY DEF Memories, MemoryIn, MemoryOf, allocated_memory
<1>. HIDE DEF M, MM
<1>. QED
  BY <1>1, <1>3, <1>10, <1>11, <1>12 DEF Isolated!Store

LEMMA NextIsolated ==
    ASSUME Confined, IInv, IInv', [Next]_vars
    PROVE  \/ Isolated!Next
           \/ UNCHANGED <<[i \in 1 .. Len(processes) |-> MemoryOf(processes[i])], executing>>
<1>1. ASSUME NEW b \in Binaries, LoadProgram(b) PROVE Isolated!Next
  BY <1>1, LoadIsolated DEF Isolated!Next
<1>2. ASSUME NEW b \in Binaries, LoadFails(b)
      PROVE  UNCHANGED <<[i \in 1 .. Len(processes) |-> MemoryOf(processes[i])], executing>>
  BY <1>2 DEF LoadFails, MemoryOf, allocated_memory
<1>3. ASSUME NEW i \in 1 .. Len(processes), Exec(i) PROVE Isolated!Next
  <2>1. processes[i] \in Process /\ processes \in Seq(Process)
    BY ProcessInside DEF Indices, IInv, TypeOK
  <2>2. /\ RAM' = RAM /\ Len(processes') = Len(processes)
        /\ \A j \in Indices : /\ processes'[j].first_sector = processes[j].first_sector
                              /\ processes'[j].binary = processes[j].binary
    BY <1>3, <2>1 DEF Exec, Process, Indices
  <2>. QED
    BY <2>2, ProcessesChange DEF Isolated!Next
<1>4. ASSUME NEW halted \in BOOLEAN, Return(halted) PROVE Isolated!Next
  <2>1. processes \in Seq(Process)
    BY DEF IInv, TypeOK
  <2>2. /\ RAM' = RAM /\ Len(processes') = Len(processes)
        /\ \A j \in Indices : /\ processes'[j].first_sector = processes[j].first_sector
                              /\ processes'[j].binary = processes[j].binary
    BY <1>4, <2>1, ProcessInside DEF Return, Process, Indices
  <2>. QED
    BY <2>2, ProcessesChange DEF Isolated!Next
<1>5. CASE Throw
  <2>1. processes \in Seq(Process)
    BY DEF IInv, TypeOK
  <2>2. /\ RAM' = RAM /\ Len(processes') = Len(processes)
        /\ \A j \in Indices : /\ processes'[j].first_sector = processes[j].first_sector
                              /\ processes'[j].binary = processes[j].binary
    BY <1>5, <2>1, ProcessInside DEF Throw, Process, Indices
  <2>. QED
    BY <2>2, ProcessesChange DEF Isolated!Next
<1>6. ASSUME NEW v \in Stored, Store(v) PROVE Isolated!Next
  BY <1>6, StoreIsolated DEF Isolated!Next
<1>7. CASE Reset
  BY <1>7, ResetIsolated DEF Isolated!Next
<1>8. ASSUME NEW status \in {0, 1}, set_gui(status)
      PROVE  UNCHANGED <<[i \in 1 .. Len(processes) |-> MemoryOf(processes[i])], executing>>
  <2>1. /\ RAM' = [RAM EXCEPT ![gui_byte] = status] /\ UNCHANGED <<processes, executing>>
    BY <1>8 DEF set_gui
  <2>2. Memories(RAM', processes) = Memories(RAM, processes)
    <3>1. \A i \in Indices : EndOf(processes[i]) =< gui_byte
      BY ProcessInside, SizesFit
    <3>. QED
      BY <2>1, <3>1, ByteOutside, SizesFit
  <2>. QED
    BY <2>1, <2>2 DEF Memories, MemoryIn, MemoryOf, allocated_memory
<1>9. CASE UNCHANGED vars
  BY <1>9 DEF vars, MemoryOf, allocated_memory
<1>. QED
  BY <1>1, <1>2, <1>3, <1>4, <1>5, <1>6, <1>7, <1>8, <1>9 DEF Next

\* If every program stores only into its own memory, which nothing enforces, the
\* regions of one RAM are as good as a memory for each process: what one process
\* stores, and every load, refusal, exec, exception and reset, is a step that
\* IsolatedProcesses allows.
THEOREM Isolation == Confined => (Spec => ImplementsIsolation)
<1>. SUFFICES ASSUME Confined PROVE Spec => ImplementsIsolation
  OBVIOUS
<1>1. Init => Isolated!Init
  BY InitIsolated
<1>2. IInv /\ IInv' /\ [Next]_vars
          => [Isolated!Next]_<<[i \in 1 .. Len(processes) |-> MemoryOf(processes[i])], executing>>
  BY NextIsolated
<1>. QED
  BY <1>1, <1>2, AlwaysIInv, PTL DEF Spec, ImplementsIsolation, Isolated!Spec
=============================================================================

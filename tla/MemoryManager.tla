--------------------------- MODULE MemoryManager ---------------------------
(***************************************************************************)
(* The whole-RAM allocator (src/MemoryManager.cpp).  It keeps the free     *)
(* bytes of the arena, RAM minus the framebuffer and the GUI byte, as an   *)
(* address-ordered list of blocks; Loader::load_program asks it for the    *)
(* bytes of each process and VM::reset gives everything back at once.      *)
(* `owned` is the callers' side: the regions handed out and not given      *)
(* back (the first_sector and allocated fields of each Process).           *)
(***************************************************************************)
EXTENDS Integers, Sequences

CONSTANTS
    ArenaSize,  \* RAM.size() - FRAMEBUFFER_TOT_SIZE - 1, in bytes
    AddrRange,  \* number of values of a MemAddr, 2^16 in the code
    Requests    \* the sizes load_program asks for

\* A MemAddr can name every byte of the arena (59903 of 65536 in the code) and
\* a program's total size is never zero, its heap and stack being part of it.
ASSUME SizeAssumption ==
    /\ ArenaSize \in Nat \ {0}
    /\ AddrRange \in Nat
    /\ ArenaSize =< AddrRange
    /\ Requests \subseteq Nat \ {0}

VARIABLES
    free_list,  \* std::list<MemoryBlock>, in address order
    owned,      \* the blocks the callers hold
    returned    \* what the last allocate did: the address returned, or a throw

vars == <<free_list, owned, returned>>

Failed == -1   \* no address

Arena == 0 .. (ArenaSize - 1)
MemAddr == 0 .. (AddrRange - 1)
MemoryBlock == [start_address : MemAddr, size : Nat \ {0}]

Block(start, size) == [start_address |-> start, size |-> size]
End(b) == b.start_address + b.size
Bytes(b) == b.start_address .. (End(b) - 1)

\* s with its elements lo .. hi-1 replaced by those of mid.
Splice(s, lo, hi, mid) == SubSeq(s, 1, lo - 1) \o mid \o SubSeq(s, hi, Len(s))

-----------------------------------------------------------------------------
Init ==
    /\ free_list = <<Block(0, ArenaSize)>>
    /\ owned = {}
    /\ returned = Failed

\* The scan of allocate stops at the first block that is large enough.
LastFit(i, bytes) ==
    /\ free_list[i].size >= bytes
    /\ \A j \in (i + 1) .. Len(free_list) : free_list[j].size < bytes
FirstFit(i, bytes) ==
    /\ free_list[i].size >= bytes
    /\ \A j \in 1 .. (i - 1) : free_list[j].size < bytes

\* What is left of block b once its first bytes are taken: an exhausted block
\* leaves the list.
RestWithoutErase(b, bytes) ==
    <<Block((b.start_address + bytes) % AddrRange, b.size - bytes)>>
RestInPlace(b, bytes) ==
    IF b.size = bytes THEN <<>> ELSE <<Block(b.start_address, b.size - bytes)>>
Rest(b, bytes) ==
    IF b.size = bytes
    THEN <<>>
    ELSE <<Block((b.start_address + bytes) % AddrRange, b.size - bytes)>>

Allocate(bytes) ==
    \E i \in 1 .. Len(free_list) :
        /\ FirstFit(i, bytes)
        /\ free_list' = Splice(free_list, i, i + 1, Rest(free_list[i], bytes))
        /\ owned' = owned \cup {Block(free_list[i].start_address, bytes)}
        /\ returned' = free_list[i].start_address

AllocateFails(bytes) ==
    /\ \A i \in 1 .. Len(free_list) : free_list[i].size < bytes
    /\ returned' = Failed
    /\ UNCHANGED <<free_list, owned>>

\* The scan of free stops at the first block at or above the freed address.
LowerBound(i, start) ==
    /\ \A j \in 1 .. (i - 1) : free_list[j].start_address < start
    /\ i =< Len(free_list) => free_list[i].start_address >= start

JoinsPrev(i, b) == i > 1 /\ End(free_list[i - 1]) = b.start_address

\* The freed block reaches the one after it.
JoinsNextUnlessPrev(i, b) ==
    /\ ~ JoinsPrev(i, b)
    /\ i =< Len(free_list) /\ free_list[i].start_address = End(b)
JoinsNext(i, b) == i =< Len(free_list) /\ free_list[i].start_address = End(b)

\* The list once b is freed at place i: b and the neighbours it touches become
\* one block.
Coalesced(i, b) ==
    LET lo == IF JoinsPrev(i, b) THEN i - 1 ELSE i
        hi == IF JoinsNext(i, b) THEN i + 1 ELSE i
        first == IF lo < i THEN free_list[lo].start_address ELSE b.start_address
        beyond == IF hi > i THEN End(free_list[i]) ELSE End(b)
    IN Splice(free_list, lo, hi, <<Block(first, beyond - first)>>)

Free(b) ==
    /\ b \in owned
    /\ \E i \in 1 .. (Len(free_list) + 1) :
        /\ LowerBound(i, b.start_address)
        /\ free_list' = Coalesced(i, b)
    /\ owned' = owned \ {b}
    /\ UNCHANGED returned

Reset ==
    /\ free_list' = <<Block(0, ArenaSize)>>
    /\ owned' = {}
    /\ UNCHANGED returned

Next ==
    \/ \E bytes \in Requests : Allocate(bytes) \/ AllocateFails(bytes)
    \/ \E b \in owned : Free(b)
    \/ Reset

Spec == Init /\ [][Next]_vars

-----------------------------------------------------------------------------
\* MemoryManager::check_integrity.
check_integrity ==
    \A i \in 2 .. Len(free_list) :
        /\ free_list[i - 1].start_address =< free_list[i].start_address
        /\ End(free_list[i - 1]) =< free_list[i].start_address

\* The type invariant: the list holds blocks with a 16-bit start and at least
\* one byte, the callers hold blocks of the arena.
TypeOK ==
    /\ free_list \in Seq(MemoryBlock)
    /\ owned \subseteq [start_address : Arena, size : 1 .. ArenaSize]
    /\ returned \in Arena \cup {Failed}

\* The list is in address order, inside the arena, and no two of its blocks
\* touch: free coalesces on both sides, so a hole is always one block.
Separated ==
    /\ \A i \in 1 .. Len(free_list) : End(free_list[i]) =< ArenaSize
    /\ \A i, j \in 1 .. Len(free_list) :
           i < j => End(free_list[i]) < free_list[j].start_address

InFreeList(a) == \E i \in 1 .. Len(free_list) : a \in Bytes(free_list[i])
InOwned(a) == \E b \in owned : a \in Bytes(b)

\* Every byte of the arena is in the free list or in a region some caller
\* owns, never in both, never in neither and never in two owned regions: no
\* allocate, free or reset leaks a byte or hands one out twice.
Accounted ==
    /\ \A a \in Arena : InFreeList(a) <=> ~ InOwned(a)
    /\ \A b \in owned : Bytes(b) \subseteq Arena
    /\ \A b, c \in owned : b # c => Bytes(b) \cap Bytes(c) = {}

Regions == INSTANCE RegionAllocator WITH Slack <- 0

\* The list-based allocator implements the abstract one: first fit, and
\* allocate throws only when no hole of the arena holds the request.
ImplementsRegions == Regions!Spec
=============================================================================

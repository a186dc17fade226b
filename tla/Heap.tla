-------------------------------- MODULE Heap --------------------------------
(***************************************************************************)
(* A process's heap and a program that uses it: it asks for regions, keeps *)
(* the pointers, fills the regions it owns with bytes of its own and gives *)
(* them back.  HALLOC and HFREE run pass by pass (HeapManager).            *)
(***************************************************************************)
EXTENDS HeapManager, FiniteSets

CONSTANTS
    Sizes,      \* the sizes the program asks for: an 8-bit number or cell
    Payloads,   \* the bytes the program fills its regions with
    FreesStale  \* whether the program may free a pointer it has given back

ASSUME ClientAssumption ==
    /\ Sizes \subseteq MemCell
    /\ Payloads \subseteq MemCell
    /\ FreesStale \in BOOLEAN

VARIABLES
    owned,     \* the chunks the program owns, header included
    pointers,  \* every payload address HALLOC has ever returned
    returned   \* where the last HALLOC's chunk starts, or Failed

vars == <<heap_vars, owned, pointers, returned>>

Failed == -1

Chunk(c) == [start_address |-> c, size |-> heap_header_block_size + dimension(c)]
Payload(r) == (r.start_address + heap_header_block_size)
                  .. (r.start_address + r.size - 1)
PointerTo(r) == r.start_address + heap_header_block_size

-----------------------------------------------------------------------------
Init ==
    /\ RAM = WithFirstHeader([a \in 0 .. (RamSize - 1) |-> 0])
    /\ heap_op = "none"
    /\ cursor = 0
    /\ size = 0
    /\ owned = {}
    /\ pointers = {}
    /\ returned = Failed

Halloc ==
    /\ \E n \in Sizes : BeginHalloc(n)
    /\ UNCHANGED <<owned, pointers, returned>>

Skip == HallocSkip /\ UNCHANGED <<owned, pointers, returned>>

Take ==
    /\ HallocTake
    /\ owned' = owned \cup
          {[start_address |-> cursor, size |-> heap_header_block_size + size']}
    /\ pointers' = pointers \cup {cursor'}
    /\ returned' = cursor

Overflow ==
    /\ HallocOverflow
    /\ returned' = Failed
    /\ UNCHANGED <<owned, pointers>>

Return == HallocReturn /\ UNCHANGED <<owned, pointers, returned>>

\* A careful program may still free a pointer twice, as long as the header it
\* left behind is there to tell.
MayFree(p) ==
    \/ p \in {PointerTo(r) : r \in owned}
    \/ FreesStale
    \/ status(HeaderOf(p)) # OWNED

Hfree(p) ==
    /\ MayFree(p)
    /\ BeginHfree(p)
    /\ owned' = {r \in owned : PointerTo(r) # p}
    /\ UNCHANGED <<pointers, returned>>

DoubleFree(p) ==
    /\ MayFree(p)
    /\ HfreeThrows(p)
    /\ UNCHANGED <<owned, pointers, returned>>

Merge == HfreeMerge /\ UNCHANGED <<owned, pointers, returned>>
Advance == HfreeAdvance /\ UNCHANGED <<owned, pointers, returned>>
Done == HfreeDone /\ UNCHANGED <<owned, pointers, returned>>

\* The program stores v in every byte of a region it owns.
Fill(r, v) ==
    /\ heap_op = "none"
    /\ RAM' = [a \in DOMAIN RAM |-> IF a \in Payload(r) THEN v ELSE RAM[a]]
    /\ UNCHANGED <<heap_op, cursor, size, owned, pointers, returned>>

Loop == Skip \/ Take \/ Overflow \/ Return \/ Merge \/ Advance \/ Done

Next ==
    \/ Halloc
    \/ \E p \in pointers : Hfree(p) \/ DoubleFree(p)
    \/ \E r \in owned, v \in Payloads : Fill(r, v)
    \/ Loop

\* The interpreter runs a loop to its end before it looks at anything else.
Spec == Init /\ [][Next]_vars /\ WF_vars(Loop)

-----------------------------------------------------------------------------
TypeOK ==
    /\ RAM \in [0 .. (RamSize - 1) -> MemCell]
    /\ heap_op \in HeapOps
    /\ cursor \in MemAddr
    /\ size \in MemAddr
    /\ owned \subseteq [start_address : MemAddr, size : Nat]
    /\ pointers \subseteq MemAddr
    /\ returned \in MemAddr \cup {Failed}

\* The chain of headers covers the heap exactly: it ends at HeapEnd, the chunks
\* marked OWNED are the regions the program owns, and the others are FREE.
Tiled ==
    LET chunks == ChunkStarts \ {HeapEnd}
    IN  /\ ChainIntact
        /\ \A c \in chunks : status(c) \in {FREE, OWNED}
        /\ owned = {Chunk(c) : c \in {d \in chunks : status(d) = OWNED}}

\* Global coalescing: whenever no loop runs, no two free chunks are neighbours.
Coalesced ==
    heap_op = "none" =>
        \A c \in ChunkStarts \ {HeapEnd} :
            status(c) = FREE /\ next_chunk(c) # HeapEnd => status(next_chunk(c)) # FREE

\* HALLOC and HFREE change no byte of a region the program owns before and
\* after, and no byte outside the heap.
DataUntouched ==
    [][Loop \/ (\E p \in pointers : Hfree(p)) =>
         /\ \A r \in owned \cap owned' : \A a \in Payload(r) : RAM'[a] = RAM[a]
         /\ \A a \in DOMAIN RAM \ (heap_start .. (HeapEnd - 1)) : RAM'[a] = RAM[a]
      ]_vars

\* Every HALLOC and every HFREE comes to an end.
LoopsEnd == heap_op \in {"halloc", "hfree", "granted"} ~> heap_op \in {"none", "thrown"}

\* What README.md promises of HFREE: a pointer is accepted only if it is that of
\* a region the program owns ("Double Free & Invalid Free Protection").
FreesOnlyOwned ==
    [][heap_op = "none" /\ heap_op' = "hfree" => owned' # owned]_vars

Regions ==
    INSTANCE RegionAllocator WITH
        Arena <- heap_start .. (HeapEnd - 1),
        Requests <- {n + heap_header_block_size : n \in Sizes},
        Slack <- heap_header_block_size

\* The chain of headers implements the abstract allocator, a request being
\* three bytes longer than the size asked for: first fit, no grant that
\* overlaps another, and "Heap overflow!" only when no hole is large enough.
ImplementsRegions == Regions!Spec
=============================================================================

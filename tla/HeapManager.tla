---------------------------- MODULE HeapManager ----------------------------
(***************************************************************************)
(* HALLOC and HFREE (src/VM.cpp, VM::exec), one action for each pass of    *)
(* their loops.  A process's heap is a chain of chunks: a header of two    *)
(* bytes of dimension and one of status, then `dimension` bytes of         *)
(* payload.  The headers live in RAM, within reach of the program, so they *)
(* are kept here byte by byte.                                             *)
(***************************************************************************)
EXTENDS Word

CONSTANTS
    RamSize,     \* RAM.size()
    heap_start,  \* Process::heap_start
    heap_limit   \* Process::heap_limit

ASSUME HeapAssumption ==
    /\ RamSize \in Nat /\ heap_start \in Nat /\ heap_limit \in Nat
    /\ heap_start < heap_limit
    /\ heap_limit + 3 < RamSize
    /\ RamSize =< AddrRange

VARIABLES
    RAM,
    heap_op,  \* the loop that runs: none, halloc or hfree, or how one ended
    cursor,   \* first_part_of_free_heap, current_chunk: 0 between two loops
    size      \* size_to_alloc.value: 0 between two loops

heap_vars == <<RAM, heap_op, cursor, size>>

FREE == 0
OWNED == 1
heap_header_block_size == 3

HeapOps == {"none", "halloc", "hfree", "granted", "thrown", "undefined"}

dimension(c) == Join(RAM[c], RAM[c + 1])
status(c) == RAM[c + 2]
NextWithoutHeader(c) == Addr(c + dimension(c))
next_chunk(c) == Addr(c + heap_header_block_size + dimension(c))

\* ram with a header written at c.
WithDimension(ram, c, dim) == [ram EXCEPT ![c] = High(dim), ![c + 1] = Low(dim)]
WithHeader(ram, c, dim, st) == [WithDimension(ram, c, dim) EXCEPT ![c + 2] = st]

\* What Loader::load_program leaves for the first HALLOC: one free chunk whose
\* dimension is that of the whole heap, its header not deducted.
WithFirstHeader(ram) == WithHeader(ram, heap_start, heap_limit - heap_start, FREE)

\* One past the last byte of the last chunk: the first header counts the heap's
\* bytes without its own three, so the chain ends three bytes after heap_limit.
HeapEnd == heap_limit + heap_header_block_size

\* Where the chunk at c ends, and whether there can be one there.
ChunkEnd(c) == c + heap_header_block_size + dimension(c)
Leads(c) == c < HeapEnd /\ ChunkEnd(c) =< HeapEnd

\* The chunk headers met from heap_start on, as far as they make sense: up to one
\* whose chunk would end past the heap.
ChunkStarts ==
    LET from[c \in 0 .. HeapEnd] ==
            {c} \cup IF Leads(c) THEN from[next_chunk(c)] ELSE {}
    IN from[heap_start]

\* Nothing but HALLOC and HFREE has written to the headers, or not so that it
\* shows in where they are.
ChainIntact == HeapEnd \in ChunkStarts

-----------------------------------------------------------------------------
BeginHalloc(n) ==
    /\ heap_op = "none"
    /\ heap_op' = "halloc"
    /\ cursor' = heap_start
    /\ size' = n
    /\ UNCHANGED RAM

HallocOverflow ==
    /\ heap_op = "halloc"
    /\ cursor >= heap_limit
    /\ heap_op' = "thrown"
    /\ UNCHANGED <<RAM, cursor, size>>

SuitsLarger(c) == status(c) # OWNED /\ dimension(c) > size
Suits(c) == status(c) # OWNED /\ dimension(c) >= size

HallocSkip ==
    /\ heap_op = "halloc"
    /\ cursor < heap_limit
    /\ ~ Suits(cursor)
    /\ cursor' = next_chunk(cursor)
    /\ UNCHANGED <<RAM, heap_op, size>>

\* How much of a chunk is granted: the request, or the whole chunk when what
\* would be left has no room for a header and a byte.
GrantedAlways(c) == size
Granted(c) ==
    IF dimension(c) > size + heap_header_block_size THEN size ELSE dimension(c)

\* The rest of the chunk becomes a free chunk of its own.
SplitOff(ram, c) ==
    IF Granted(c) = dimension(c)
    THEN ram
    ELSE WithHeader(ram, c + heap_header_block_size + size,
                    dimension(c) - heap_header_block_size - size, FREE)

\* The header of what is left can be past the end of RAM, if the program has
\* written a larger dimension into the chunk's header.
SplitInRam(c) ==
    Granted(c) # dimension(c) => c + heap_header_block_size + size + 2 < RamSize

HallocTake ==
    /\ heap_op = "halloc"
    /\ cursor < heap_limit
    /\ Suits(cursor)
    /\ SplitInRam(cursor)
    /\ RAM' = WithHeader(SplitOff(RAM, cursor), cursor, Granted(cursor), OWNED)
    /\ size' = Granted(cursor)
    /\ cursor' = cursor + heap_header_block_size
    /\ heap_op' = "granted"

HallocUndefined ==
    /\ heap_op = "halloc"
    /\ cursor < heap_limit
    /\ Suits(cursor)
    /\ ~ SplitInRam(cursor)
    /\ heap_op' = "undefined"
    /\ UNCHANGED <<RAM, cursor, size>>

\* The address in cursor has been stored where the program wants it.
HallocReturn ==
    /\ heap_op = "granted"
    /\ heap_op' = "none"
    /\ cursor' = 0
    /\ size' = 0
    /\ UNCHANGED RAM

\* actual_regstart, for the address the program was given.
HeaderOf(p) == Addr(p - heap_header_block_size)

BeginHfree(p) ==
    /\ heap_op = "none"
    /\ HeaderOf(p) + 2 < RamSize
    /\ status(HeaderOf(p)) = OWNED
    /\ RAM' = [RAM EXCEPT ![HeaderOf(p) + 2] = FREE]
    /\ heap_op' = "hfree"
    /\ cursor' = heap_start
    /\ UNCHANGED size

HfreeThrows(p) ==
    /\ heap_op = "none"
    /\ HeaderOf(p) + 2 < RamSize
    /\ status(HeaderOf(p)) # OWNED
    /\ heap_op' = "thrown"
    /\ UNCHANGED <<RAM, cursor, size>>

\* The header's address is past the end of RAM, which is a std::vector.
HfreeUndefined(p) ==
    /\ heap_op = "none"
    /\ HeaderOf(p) + 2 >= RamSize
    /\ heap_op' = "undefined"
    /\ UNCHANGED <<RAM, cursor, size>>

HasNext == cursor < heap_limit /\ next_chunk(cursor) < heap_limit
BothFree == status(cursor) = FREE /\ status(next_chunk(cursor)) = FREE

MergedWithoutHeader(c) == dimension(c) + dimension(next_chunk(c))
Merged(c) == dimension(c) + heap_header_block_size + dimension(next_chunk(c))

\* The chunk absorbs the next one and is looked at again.
HfreeMergeAndAdvance ==
    /\ heap_op = "hfree"
    /\ HasNext
    /\ BothFree
    /\ RAM' = WithDimension(RAM, cursor, Merged(cursor))
    /\ cursor' = next_chunk(cursor)
    /\ UNCHANGED <<heap_op, size>>
HfreeMerge ==
    /\ heap_op = "hfree"
    /\ HasNext
    /\ BothFree
    /\ RAM' = WithDimension(RAM, cursor, Merged(cursor))
    /\ UNCHANGED <<heap_op, cursor, size>>

HfreeAdvance ==
    /\ heap_op = "hfree"
    /\ HasNext
    /\ ~ BothFree
    /\ cursor' = next_chunk(cursor)
    /\ UNCHANGED <<RAM, heap_op, size>>

HfreeDone ==
    /\ heap_op = "hfree"
    /\ ~ HasNext
    /\ heap_op' = "none"
    /\ cursor' = 0
    /\ UNCHANGED <<RAM, size>>

\* One pass of a loop that is running.
HeapStep ==
    \/ HallocOverflow \/ HallocSkip \/ HallocTake \/ HallocUndefined
    \/ HfreeMerge \/ HfreeAdvance \/ HfreeDone
=============================================================================

----------------------------- MODULE HeapProofs -----------------------------
(***************************************************************************)
(* Proofs about the chunk chain of HALLOC and HFREE, for every heap, every *)
(* set of request sizes and every content of the regions.                  *)
(*                                                                         *)
(* ChunkStarts follows the headers from heap_start on; the proofs speak of *)
(* the set of chunk starts instead, which a step changes by one element at *)
(* most.  Chain says what makes a set of addresses the chunk starts, and   *)
(* ChainIsChunkStarts that there is then only one such set: ChunkStarts.   *)
(***************************************************************************)
EXTENDS Heap, CommonProofs

Ram == [0 .. (RamSize - 1) -> MemCell]

\* The heap lies in RAM, and every address of RAM is 16-bit.
LEMMA HeapRanges ==
    /\ RamSize \in Nat /\ heap_start \in Nat /\ heap_limit \in Nat /\ HeapEnd \in Nat
    /\ heap_start < heap_limit /\ HeapEnd = heap_limit + 3
    /\ HeapEnd < RamSize /\ RamSize =< AddrRange
BY HeapAssumption DEF HeapEnd, heap_header_block_size

\* A header that lies in RAM holds an address.
LEMMA ChunkDimension ==
    ASSUME RAM \in Ram, NEW c \in Nat, c + 1 < RamSize
    PROVE  dimension(c) \in MemAddr /\ dimension(c) \in Nat
<1>1. c \in 0 .. (RamSize - 1) /\ c + 1 \in 0 .. (RamSize - 1)
  BY HeapRanges
<1>2. RAM[c] \in MemCell /\ RAM[c + 1] \in MemCell
  BY <1>1 DEF Ram
<1>3. dimension(c) \in MemAddr
  BY <1>2, JoinType DEF dimension
<1>. QED
  BY <1>3, WordRanges DEF MemAddr

\* No address wraps where the definition of ChunkStarts goes on.
LEMMA LeadsOn ==
    ASSUME RAM \in Ram, NEW c \in 0 .. HeapEnd, Leads(c)
    PROVE  /\ next_chunk(c) = ChunkEnd(c) /\ ChunkEnd(c) \in 0 .. HeapEnd
           /\ c < ChunkEnd(c)
<1>1. c \in Nat /\ c + 1 < RamSize /\ HeapEnd \in Nat
  BY HeapRanges DEF Leads
<1>2. dimension(c) \in Nat /\ ChunkEnd(c) = c + 3 + dimension(c)
  BY <1>1, ChunkDimension DEF ChunkEnd, heap_header_block_size
<1>3. ChunkEnd(c) \in Nat /\ ChunkEnd(c) =< HeapEnd /\ c < ChunkEnd(c)
  BY <1>1, <1>2 DEF Leads
<1>4. ChunkEnd(c) \in MemAddr
  BY <1>3, HeapRanges, WordRanges DEF MemAddr
<1>5. next_chunk(c) = ChunkEnd(c)
  BY <1>4, AddrOfAddr DEF next_chunk, ChunkEnd
<1>. QED
  BY <1>1, <1>3, <1>5

\* What the definition of ChunkStarts says of an address, given what it says of
\* the others.
Follows(c, from) ==
    {c} \cup IF Leads(c) THEN from[next_chunk(c)] ELSE {}

\* The recursive definition of ChunkStarts has a solution.
LEMMA ChunkStartsUnfolds ==
    ASSUME RAM \in Ram
    PROVE
    \E from : /\ from = [c \in 0 .. HeapEnd |-> Follows(c, from)]
              /\ ChunkStarts = from[heap_start]
<1>. DEFINE leading == {c \in 0 .. HeapEnd : Leads(c)}
            next == [c \in leading |-> next_chunk(c)]
            Solves(f) == f = [c \in 0 .. HeapEnd |-> Follows(c, f)]
<1>1. next \in [leading -> 0 .. HeapEnd]
  <2>1. ASSUME NEW c \in leading PROVE next_chunk(c) \in 0 .. HeapEnd
    BY <2>1, LeadsOn
  <2>. QED
    BY <2>1
<1>2. PICK f : Reachable(f, HeapEnd, leading, next)
  <2>. HIDE DEF leading, next
  <2>1. HeapEnd \in Nat /\ leading \in SUBSET (0 .. HeapEnd)
    BY HeapRanges DEF leading
  <2>. QED
    BY <1>1, <2>1, WayUnfolds
<1>3. Solves(f)
  <2>1. \A c \in 0 .. HeapEnd :
           Follows(c, f) = {c} \cup IF c \in leading THEN f[next[c]] ELSE {}
    BY DEF Follows
  <2>. HIDE DEF leading, next
  <2>. QED
    BY <1>2, <2>1 DEF Reachable
<1>. DEFINE from == CHOOSE g : Solves(g)
<1>4. Solves(from)
  <2>. HIDE DEF Solves
  <2>. QED
    BY <1>3
<1>5. ChunkStarts = from[heap_start]
  BY Zenon DEF ChunkStarts, Follows
<1>. QED
  <2>. HIDE DEF from
  <2>. QED
    BY <1>4, <1>5

-----------------------------------------------------------------------------
\* The addresses of S are the headers of chunks that follow each other from
\* heap_start to HeapEnd without a gap.
Chain(S) ==
    /\ S \subseteq heap_start .. HeapEnd
    /\ heap_start \in S /\ HeapEnd \in S
    /\ \A c \in S \ {HeapEnd} : c < heap_limit /\ ChunkEnd(c) \in S
    /\ \A c, d \in S : c < d => ChunkEnd(c) =< d

Marked(S) == \A c \in S \ {HeapEnd} : status(c) \in {FREE, OWNED}

Owners(S) == owned = {Chunk(c) : c \in {d \in S \ {HeapEnd} : status(d) = OWNED}}

\* A loop stands on a header.
OnChain(S) == heap_op \in {"halloc", "hfree"} => cursor \in S

\* HFREE's loop has left no two free neighbours behind it, and no other
\* operation does.
Merging(S) ==
    \A c \in S \ {HeapEnd} :
        /\ heap_op = "hfree" => c < cursor
        /\ ChunkEnd(c) # HeapEnd
        /\ status(c) = FREE
        => status(ChunkEnd(c)) # FREE

\* HALLOC's loop has passed only chunks that do not suit.
Searching(S) ==
    heap_op = "halloc" =>
        /\ size \in Sizes
        /\ \A c \in S \ {HeapEnd} : c < cursor /\ status(c) = FREE => dimension(c) < size

Tiling(S) ==
    Chain(S) /\ Marked(S) /\ Owners(S) /\ OnChain(S) /\ Merging(S) /\ Searching(S)

IInv == TypeOK /\ \E S : Tiling(S)

-----------------------------------------------------------------------------
\* A header that lies in RAM holds an address and a cell.
LEMMA HeaderTypes ==
    ASSUME TypeOK, NEW c \in Nat, c + 2 < RamSize
    PROVE  dimension(c) \in MemAddr /\ dimension(c) \in Nat /\ status(c) \in MemCell
<1>1. c \in 0 .. (RamSize - 1) /\ c + 1 \in 0 .. (RamSize - 1) /\ c + 2 \in 0 .. (RamSize - 1)
  BY HeapRanges
<1>2. RAM[c] \in MemCell /\ RAM[c + 1] \in MemCell /\ RAM[c + 2] \in MemCell
  BY <1>1 DEF TypeOK
<1>3. dimension(c) \in MemAddr
  BY <1>2, JoinType DEF dimension
<1>4. dimension(c) \in Nat
  BY <1>3, WordRanges DEF MemAddr
<1>. QED
  BY <1>2, <1>3, <1>4 DEF status

\* A chain runs from heap_start to HeapEnd.
LEMMA ChainBounds ==
    ASSUME NEW S, Chain(S)
    PROVE  /\ heap_start \in S /\ HeapEnd \in S
           /\ \A d \in S : d \in Nat /\ heap_start =< d /\ d =< HeapEnd
BY HeapRanges DEF Chain

\* On a chain no address wraps.
LEMMA ChainSteps ==
    ASSUME TypeOK, NEW S, Chain(S), NEW c \in S, c # HeapEnd
    PROVE  /\ c \in Nat /\ c + 2 < RamSize
           /\ heap_start =< c /\ c < heap_limit
           /\ dimension(c) \in Nat /\ status(c) \in MemCell
           /\ ChunkEnd(c) \in S /\ ChunkEnd(c) \in Nat
           /\ ChunkEnd(c) = c + 3 + dimension(c)
           /\ c < ChunkEnd(c) /\ ChunkEnd(c) =< HeapEnd
           /\ next_chunk(c) = ChunkEnd(c)
<1>1. c \in Nat /\ heap_start =< c /\ c < heap_limit /\ c + 2 < RamSize
  BY HeapRanges DEF Chain
<1>2. dimension(c) \in Nat /\ status(c) \in MemCell
  BY <1>1, HeaderTypes
<1>3. ChunkEnd(c) \in S
  BY DEF Chain
<1>4. ChunkEnd(c) = c + 3 + dimension(c)
  BY DEF ChunkEnd, heap_header_block_size
<1>5. ChunkEnd(c) =< HeapEnd
  BY <1>3, HeapRanges DEF Chain
<1>6. ChunkEnd(c) \in Nat /\ c < ChunkEnd(c)
  BY <1>1, <1>2, <1>4
<1>7. ChunkEnd(c) \in MemAddr
  BY <1>5, <1>6, HeapRanges, WordRanges DEF MemAddr
<1>8. next_chunk(c) = ChunkEnd(c)
  BY <1>7, AddrOfAddr DEF next_chunk, ChunkEnd
<1>. QED
  BY <1>1, <1>2, <1>3, <1>4, <1>5, <1>6, <1>8

\* Every element of a chain but the last has the next one above it.
LEMMA ChainOrder ==
    ASSUME NEW S, Chain(S), NEW c \in S, NEW d \in S, c < d
    PROVE  ChunkEnd(c) =< d
BY DEF Chain

\* A chain covers the heap: every byte belongs to one of its chunks.
LEMMA ChainCovers ==
    ASSUME TypeOK, NEW S, Chain(S), NEW a \in heap_start .. (HeapEnd - 1)
    PROVE  \E c \in S \ {HeapEnd} : c =< a /\ a < ChunkEnd(c)
<1>. DEFINE below == {d \in S : d =< a}
<1>1. a \in Nat /\ heap_start =< a /\ a < HeapEnd
  BY HeapRanges
<1>2. below \in SUBSET (0 .. a) /\ heap_start \in below
  BY <1>1, HeapRanges, ChainBounds
<1>3. PICK m \in below : \A k \in below : k =< m
  <2>. HIDE DEF below
  <2>. QED
    BY <1>1, <1>2, GreatestOfBounded
<1>4. m \in S /\ m # HeapEnd /\ m =< a
  BY <1>1, <1>3, HeapRanges
<1>5. ChunkEnd(m) \in S /\ ChunkEnd(m) \in Nat /\ m \in Nat /\ m < ChunkEnd(m)
  BY <1>4, ChainSteps
<1>6. a < ChunkEnd(m)
  <2>1. CASE ChunkEnd(m) =< a
    <3>1. ChunkEnd(m) =< m
      BY <1>3, <1>5, <2>1
    <3>. QED
      BY <1>5, <3>1
  <2>. QED
    BY <1>1, <1>5, <2>1
<1>. QED
  BY <1>4, <1>6

\* A chain holds every chunk start and nothing else.
LEMMA ChainIsChunkStarts ==
    ASSUME TypeOK, NEW S, Chain(S)
    PROVE  ChunkStarts = S
<1>1. PICK from : /\ from = [c \in 0 .. HeapEnd |-> Follows(c, from)]
                  /\ ChunkStarts = from[heap_start]
  BY ChunkStartsUnfolds DEF TypeOK, Ram
<1>2. S \subseteq 0 .. HeapEnd /\ heap_start \in S
  BY HeapRanges DEF Chain
<1>3. \A c \in S : from[c] = Follows(c, from)
  BY <1>1, <1>2
<1>. DEFINE After(c) == {d \in S : c =< d}
            wrong == {c \in S : from[c] # After(c)}
<1>4. wrong = {}
  <2>. SUFFICES ASSUME wrong # {} PROVE FALSE
    OBVIOUS
  <2>1. PICK m \in wrong : \A k \in wrong : k =< m
    <3>. wrong \in SUBSET (0 .. HeapEnd)
      BY <1>2
    <3>. HIDE DEF wrong
    <3>. QED
      BY HeapRanges, GreatestOfBounded
  <2>2. m \in S /\ m \in 0 .. HeapEnd
    BY <1>2
  <2>3. from[m] = Follows(m, from)
    BY <1>3, <2>2
  <2>4. CASE m = HeapEnd
    <3>1. Follows(m, from) = {m}
      BY <2>4, HeapRanges DEF Follows, Leads
    <3>2. After(m) = {m}
      <4>1. HeapEnd \in Nat /\ \A d \in S : d \in Nat /\ d =< HeapEnd
        BY ChainBounds, HeapRanges
      <4>2. ASSUME NEW d \in S PROVE m =< d <=> d = m
        BY <2>4, <4>1
      <4>. QED
        BY <2>2, <4>2
    <3>. QED
      BY <2>1, <2>3, <3>1, <3>2
  <2>5. CASE m # HeapEnd
    <3>. DEFINE n == ChunkEnd(m)
    <3>1. n \in S /\ n \in Nat /\ m < n /\ n =< HeapEnd /\ next_chunk(m) = n
      BY <2>2, <2>5, ChainSteps
    <3>2. \A d \in S : m < d => n =< d
      BY <2>2, ChainOrder
    <3>. HIDE DEF n
    <3>3. Follows(m, from) = {m} \cup from[n]
      <4>1. m < HeapEnd /\ ChunkEnd(m) =< HeapEnd
        BY <2>2, <2>5, ChainSteps, HeapRanges
      <4>. QED
        BY <3>1, <4>1 DEF Follows, Leads
    <3>4. from[n] = After(n)
      <4>1. n \notin wrong
        BY <2>1, <2>2, <3>1
      <4>. QED
        BY <3>1, <4>1
    <3>5. After(m) = {m} \cup After(n)
      <4>1. m \in Nat /\ \A d \in S : d \in Nat
        BY <2>2, ChainBounds
      <4>2. ASSUME NEW d \in S PROVE m =< d <=> d = m \/ n =< d
        <5>1. d \in Nat /\ (m < d => n =< d)
          BY <3>2, <4>1
        <5>. QED
          BY <3>1, <4>1, <5>1
      <4>. QED
        BY <2>2, <4>2
    <3>. QED
      BY <2>1, <2>3, <3>3, <3>4, <3>5
  <2>. QED
    BY <2>4, <2>5
<1>5. from[heap_start] = After(heap_start)
  BY <1>2, <1>4
<1>6. After(heap_start) = S
  BY ChainBounds
<1>. QED
  BY <1>1, <1>5, <1>6

-----------------------------------------------------------------------------
\* Writing a header leaves cells in RAM.
LEMMA HeaderWritten ==
    ASSUME NEW ram \in [0 .. (RamSize - 1) -> MemCell],
           NEW c, NEW dim \in Nat, NEW st \in MemCell
    PROVE  /\ WithDimension(ram, c, dim) \in [0 .. (RamSize - 1) -> MemCell]
           /\ WithHeader(ram, c, dim, st) \in [0 .. (RamSize - 1) -> MemCell]
BY ByteTypes DEF WithDimension, WithHeader

\* FREE and OWNED are cells.
LEMMA StatusTypes == FREE \in MemCell /\ OWNED \in MemCell /\ FREE # OWNED
BY WordRanges DEF FREE, OWNED, MemCell

LEMMA TypeInit == Init => TypeOK
<1>. SUFFICES ASSUME Init PROVE TypeOK
  OBVIOUS
<1>1. 0 \in MemCell /\ 0 \in MemAddr
  BY WordRanges DEF MemCell, MemAddr
<1>2. [a \in 0 .. (RamSize - 1) |-> 0] \in [0 .. (RamSize - 1) -> MemCell]
  BY <1>1
<1>3. heap_limit - heap_start \in Nat
  BY HeapRanges
<1>4. RAM \in [0 .. (RamSize - 1) -> MemCell]
  BY <1>2, <1>3, HeaderWritten, StatusTypes DEF Init, WithFirstHeader
<1>. QED
  BY <1>1, <1>4 DEF Init, TypeOK, HeapOps

\* What HALLOC's loop knows of the chunk it takes.
LEMMA Taking ==
    ASSUME TypeOK, HallocTake
    PROVE  /\ cursor \in Nat /\ cursor + 2 < RamSize /\ cursor < heap_limit
           /\ size \in Nat /\ dimension(cursor) \in Nat
           /\ status(cursor) # OWNED /\ size =< dimension(cursor)
           /\ size' = Granted(cursor) /\ cursor' = cursor + 3
           /\ \/ /\ dimension(cursor) > size + 3
                 /\ size' = size
                 /\ SplitOff(RAM, cursor) =
                        WithHeader(RAM, cursor + 3 + size, dimension(cursor) - 3 - size, FREE)
              \/ /\ dimension(cursor) =< size + 3
                 /\ size' = dimension(cursor)
                 /\ SplitOff(RAM, cursor) = RAM
           /\ RAM' = WithHeader(SplitOff(RAM, cursor), cursor, size', OWNED)
<1>1. cursor \in Nat /\ size \in Nat /\ cursor < heap_limit /\ cursor + 2 < RamSize
  BY HeapRanges, WordRanges DEF TypeOK, MemAddr, HallocTake
<1>2. dimension(cursor) \in Nat
  BY <1>1, HeaderTypes
<1>3. status(cursor) # OWNED /\ size =< dimension(cursor)
  BY <1>1, <1>2 DEF HallocTake, Suits
<1>4. CASE dimension(cursor) > size + 3
  <2>1. Granted(cursor) = size
    BY <1>4 DEF Granted, heap_header_block_size
  <2>2. SplitOff(RAM, cursor) =
            WithHeader(RAM, cursor + 3 + size, dimension(cursor) - 3 - size, FREE)
    BY <1>1, <1>2, <1>4, <2>1 DEF SplitOff, heap_header_block_size
  <2>. QED
    BY <1>1, <1>2, <1>3, <1>4, <2>1, <2>2 DEF HallocTake, heap_header_block_size
<1>5. CASE dimension(cursor) =< size + 3
  <2>1. Granted(cursor) = dimension(cursor)
    BY <1>1, <1>2, <1>5 DEF Granted, heap_header_block_size
  <2>2. SplitOff(RAM, cursor) = RAM
    BY <2>1 DEF SplitOff
  <2>. QED
    BY <1>1, <1>2, <1>3, <1>5, <2>1, <2>2 DEF HallocTake, heap_header_block_size
<1>. QED
  BY <1>1, <1>2, <1>4, <1>5

LEMMA TypeStep == TypeOK /\ [Next]_vars => TypeOK'
<1>. SUFFICES ASSUME TypeOK, [Next]_vars PROVE TypeOK'
  OBVIOUS
<1>0. /\ RAM \in [0 .. (RamSize - 1) -> MemCell] /\ cursor \in Nat /\ size \in Nat
      /\ 0 \in MemAddr /\ heap_start \in MemAddr
  BY HeapRanges, WordRanges DEF TypeOK, MemAddr
<1>1. ASSUME NEW n \in Sizes, BeginHalloc(n), UNCHANGED <<owned, pointers, returned>>
      PROVE  TypeOK'
  <2>1. n \in MemAddr
    BY ClientAssumption, CellIsAddr
  <2>. QED
    BY <1>0, <1>1, <2>1 DEF BeginHalloc, TypeOK, HeapOps
<1>2. ASSUME cursor < heap_limit PROVE next_chunk(cursor) \in MemAddr
  <2>1. dimension(cursor) \in Nat
    BY <1>0, <1>2, HeapRanges, HeaderTypes
  <2>2. cursor + heap_header_block_size + dimension(cursor) \in Int
    BY <1>0, <2>1 DEF heap_header_block_size
  <2>. QED
    BY <2>2, ConversionTypes DEF next_chunk
<1>3. CASE Skip
  <2>1. cursor' \in MemAddr
    BY <1>2, <1>3 DEF Skip, HallocSkip
  <2>. QED
    BY <1>3, <2>1 DEF Skip, HallocSkip, TypeOK
<1>4. CASE Take
  <2>1. HallocTake
    BY <1>4 DEF Take
  <2>2. cursor \in Nat /\ size \in Nat /\ cursor < heap_limit /\ dimension(cursor) \in Nat
    BY <2>1, Taking
  <2>3. dimension(cursor) \in MemAddr
    BY <2>2, HeaderTypes, HeapRanges
  <2>4. size' \in MemAddr /\ size' \in Nat
    BY <2>1, <2>2, <2>3, Taking DEF TypeOK
  <2>5. cursor' \in MemAddr
    BY <2>1, <2>2, Taking, HeapRanges, WordRanges DEF MemAddr
  <2>6. SplitOff(RAM, cursor) \in [0 .. (RamSize - 1) -> MemCell]
    <3>1. CASE dimension(cursor) > size + 3
      <4>1. dimension(cursor) - 3 - size \in Nat
        BY <2>2, <3>1
      <4>2. SplitOff(RAM, cursor) =
                WithHeader(RAM, cursor + 3 + size, dimension(cursor) - 3 - size, FREE)
        BY <2>1, <2>2, <3>1, Taking
      <4>3. WithHeader(RAM, cursor + 3 + size, dimension(cursor) - 3 - size, FREE)
                \in [0 .. (RamSize - 1) -> MemCell]
        BY <1>0, <4>1, StatusTypes, HeaderWritten
      <4>. QED
        BY <4>2, <4>3
    <3>2. CASE dimension(cursor) =< size + 3
      <4>1. SplitOff(RAM, cursor) = RAM
        BY <2>1, <2>2, <3>2, Taking
      <4>. QED
        BY <1>0, <4>1
    <3>. QED
      BY <2>2, <3>1, <3>2
  <2>7. RAM' \in [0 .. (RamSize - 1) -> MemCell]
    <3>. DEFINE base == SplitOff(RAM, cursor)
                granted == size'
    <3>1. granted \in Nat /\ base \in [0 .. (RamSize - 1) -> MemCell] /\ OWNED \in MemCell
      BY <2>4, <2>6, StatusTypes
    <3>2. RAM' = WithHeader(base, cursor, granted, OWNED)
      BY <2>1, Taking
    <3>. HIDE DEF base, granted
    <3>. QED
      BY <3>1, <3>2, HeaderWritten
  <2>8. [start_address |-> cursor, size |-> heap_header_block_size + size']
            \in [start_address : MemAddr, size : Nat]
    <3>1. cursor \in MemAddr
      BY DEF TypeOK
    <3>2. heap_header_block_size + size' \in Nat
      <4>1. \A n \in Nat : heap_header_block_size + n \in Nat
        BY DEF heap_header_block_size
      <4>. QED
        BY <2>4, <4>1
    <3>. QED
      BY <3>1, <3>2
  <2>9. heap_op' \in HeapOps
    BY <2>1 DEF HallocTake, HeapOps
  <2>. QED
    BY <1>4, <2>4, <2>5, <2>7, <2>8, <2>9 DEF Take, TypeOK
<1>5. CASE Overflow
  BY <1>5 DEF Overflow, HallocOverflow, TypeOK, HeapOps
<1>6. CASE Return
  BY <1>0, <1>6 DEF Return, HallocReturn, TypeOK, HeapOps
<1>7. ASSUME NEW p \in pointers, Hfree(p) PROVE TypeOK'
  <2>1. RAM' \in [0 .. (RamSize - 1) -> MemCell]
    BY <1>0, <1>7, StatusTypes DEF Hfree, BeginHfree
  <2>. QED
    BY <1>0, <1>7, <2>1 DEF Hfree, BeginHfree, TypeOK, HeapOps
<1>8. ASSUME NEW p \in pointers, DoubleFree(p) PROVE TypeOK'
  BY <1>8 DEF DoubleFree, HfreeThrows, TypeOK, HeapOps
<1>9. CASE Merge
  <2>1. cursor < heap_limit /\ next_chunk(cursor) < heap_limit
    BY <1>9 DEF Merge, HfreeMerge, HasNext
  <2>2. next_chunk(cursor) \in Nat
    BY <1>2, <2>1, WordRanges DEF MemAddr
  <2>3. dimension(cursor) \in Nat /\ dimension(next_chunk(cursor)) \in Nat
    BY <1>0, <2>1, <2>2, HeapRanges, HeaderTypes
  <2>4. Merged(cursor) \in Nat
    BY <2>3 DEF Merged, heap_header_block_size
  <2>5. RAM' \in [0 .. (RamSize - 1) -> MemCell]
    BY <1>0, <1>9, <2>4, HeaderWritten, StatusTypes DEF Merge, HfreeMerge
  <2>. QED
    BY <1>9, <2>5 DEF Merge, HfreeMerge, TypeOK
<1>10. CASE Advance
  <2>1. cursor' \in MemAddr
    BY <1>2, <1>10 DEF Advance, HfreeAdvance, HasNext
  <2>. QED
    BY <1>10, <2>1 DEF Advance, HfreeAdvance, TypeOK
<1>11. CASE Done
  BY <1>0, <1>11 DEF Done, HfreeDone, TypeOK, HeapOps
<1>12. ASSUME NEW r \in owned, NEW v \in Payloads, Fill(r, v) PROVE TypeOK'
  <2>1. v \in MemCell
    BY ClientAssumption
  <2>2. RAM' \in [0 .. (RamSize - 1) -> MemCell]
    BY <1>0, <1>12, <2>1 DEF Fill
  <2>. QED
    BY <1>12, <2>2 DEF Fill, TypeOK
<1>13. CASE UNCHANGED vars
  BY <1>13 DEF vars, heap_vars, TypeOK
<1>. QED
  BY <1>1, <1>3, <1>4, <1>5, <1>6, <1>7, <1>8, <1>9, <1>10, <1>11, <1>12, <1>13
  DEF Next, Halloc, Loop

\* Headers and cursors keep their types, whatever sizes the program asks for
\* and whatever it stores in its regions, and also if it frees a stale pointer:
\* no loop of HALLOC or HFREE computes an address or a byte out of its range.
THEOREM TypeCorrect == Spec => []TypeOK
BY TypeInit, TypeStep, PTL DEF Spec

-----------------------------------------------------------------------------
\* What a dimension that was written reads as.
LEMMA DimensionReads ==
    ASSUME NEW ram \in [0 .. (RamSize - 1) -> MemCell],
           NEW c \in Nat, c + 2 < RamSize, NEW dim \in MemAddr
    PROVE  /\ Join(WithDimension(ram, c, dim)[c], WithDimension(ram, c, dim)[c + 1]) = dim
           /\ \A a \in 0 .. (RamSize - 1) :
                  a # c /\ a # c + 1 => WithDimension(ram, c, dim)[a] = ram[a]
<1>1. c \in 0 .. (RamSize - 1) /\ c + 1 \in 0 .. (RamSize - 1)
  BY HeapRanges
<1>2. c # c + 1
  OBVIOUS
<1>3. Join(High(dim), Low(dim)) = dim
  BY JoinBytes
<1>4. /\ WithDimension(ram, c, dim)[c] = High(dim)
      /\ WithDimension(ram, c, dim)[c + 1] = Low(dim)
      /\ \A a \in 0 .. (RamSize - 1) :
             a # c /\ a # c + 1 => WithDimension(ram, c, dim)[a] = ram[a]
  BY <1>1, <1>2 DEF WithDimension
<1>. QED
  BY <1>3, <1>4

\* What a header that was written reads as.
LEMMA HeaderReads ==
    ASSUME NEW ram \in [0 .. (RamSize - 1) -> MemCell],
           NEW c \in Nat, c + 2 < RamSize, NEW dim \in MemAddr, NEW st \in MemCell
    PROVE  /\ Join(WithHeader(ram, c, dim, st)[c], WithHeader(ram, c, dim, st)[c + 1]) = dim
           /\ WithHeader(ram, c, dim, st)[c + 2] = st
           /\ \A a \in 0 .. (RamSize - 1) :
                  a # c /\ a # c + 1 /\ a # c + 2 => WithHeader(ram, c, dim, st)[a] = ram[a]
<1>1. c \in 0 .. (RamSize - 1) /\ c + 1 \in 0 .. (RamSize - 1) /\ c + 2 \in 0 .. (RamSize - 1)
  BY HeapRanges
<1>2. c # c + 1 /\ c # c + 2 /\ c + 1 # c + 2
  OBVIOUS
<1>3. Join(High(dim), Low(dim)) = dim
  BY JoinBytes
<1>4. /\ WithHeader(ram, c, dim, st)[c] = High(dim)
      /\ WithHeader(ram, c, dim, st)[c + 1] = Low(dim)
      /\ WithHeader(ram, c, dim, st)[c + 2] = st
      /\ \A a \in 0 .. (RamSize - 1) :
             a # c /\ a # c + 1 /\ a # c + 2 => WithHeader(ram, c, dim, st)[a] = ram[a]
  BY <1>1, <1>2 DEF WithHeader, WithDimension
<1>. QED
  BY <1>3, <1>4

\* Two chunks of a chain share no byte.
LEMMA ChunksApart ==
    ASSUME TypeOK, NEW S, Chain(S),
           NEW c \in S, c # HeapEnd, NEW d \in S, d # HeapEnd, c # d
    PROVE  ChunkEnd(c) =< d \/ ChunkEnd(d) =< c
BY ChainBounds, ChainOrder

\* The header of a chunk that a step does not write.
LEMMA HeaderKept ==
    ASSUME NEW c, RAM'[c] = RAM[c], RAM'[c + 1] = RAM[c + 1], RAM'[c + 2] = RAM[c + 2]
    PROVE  dimension(c)' = dimension(c) /\ status(c)' = status(c)
BY DEF dimension, status

\* A step that keeps the dimensions keeps the chain.
LEMMA SameDimensions ==
    ASSUME NEW S, Chain(S), \A c \in S \ {HeapEnd} : dimension(c)' = dimension(c)
    PROVE  /\ Chain(S)'
           /\ \A c \in S \ {HeapEnd} : ChunkEnd(c)' = ChunkEnd(c) /\ Chunk(c)' = Chunk(c)
<1>1. \A c \in S \ {HeapEnd} : ChunkEnd(c)' = ChunkEnd(c) /\ Chunk(c)' = Chunk(c)
  BY DEF ChunkEnd, Chunk
<1>2. \A c, d \in S : c < d => c # HeapEnd
  BY ChainBounds, HeapRanges
<1>. QED
  BY <1>1, <1>2 DEF Chain

\* A step that keeps the headers and the program's regions.
LEMMA SameHeaders ==
    ASSUME NEW S, Chain(S), Marked(S), Owners(S), owned' = owned,
           \A c \in S \ {HeapEnd} : dimension(c)' = dimension(c) /\ status(c)' = status(c)
    PROVE  /\ Chain(S)' /\ Marked(S)' /\ Owners(S)'
           /\ \A c \in S \ {HeapEnd} : ChunkEnd(c)' = ChunkEnd(c)
<1>1. Chain(S)' /\ \A c \in S \ {HeapEnd} : ChunkEnd(c)' = ChunkEnd(c) /\ Chunk(c)' = Chunk(c)
  BY SameDimensions
<1>2. Marked(S)'
  BY DEF Marked
<1>3. {Chunk(c) : c \in {d \in S \ {HeapEnd} : status(d) = OWNED}}'
        = {Chunk(c) : c \in {d \in S \ {HeapEnd} : status(d) = OWNED}}
  BY <1>1
<1>4. Owners(S)'
  BY <1>3 DEF Owners
<1>. QED
  BY <1>1, <1>2, <1>4

\* A step that keeps the headers, runs no HFREE and leaves a heap in which no
\* two free chunks are neighbours.
LEMMA SameNeighbours ==
    ASSUME NEW S, Chain(S), Merging(S),
           \A c \in S \ {HeapEnd} : /\ ChunkEnd(c)' = ChunkEnd(c)
                                    /\ status(c)' = status(c),
           \A c \in S \ {HeapEnd} :
               ChunkEnd(c) # HeapEnd /\ (heap_op' = "hfree" => c < cursor')
                   => (heap_op = "hfree" => c < cursor)
    PROVE  Merging(S)'
<1>. SUFFICES ASSUME NEW c \in S \ {HeapEnd}, heap_op' = "hfree" => c < cursor',
                     ChunkEnd(c)' # HeapEnd, status(c)' = FREE
              PROVE  status(ChunkEnd(c))' # FREE
  BY DEF Merging
<1>. DEFINE e == ChunkEnd(c)
<1>1. e \in S \ {HeapEnd} /\ status(e) # FREE /\ ChunkEnd(c)' = e
  BY DEF Chain, Merging
<1>2. PICK d \in S \ {HeapEnd} : d = e
  BY <1>1
<1>3. status(d)' = status(d)
  OBVIOUS
<1>4. status(ChunkEnd(c))' = status(d)'
  BY <1>1, <1>2 DEF status
<1>. QED
  BY <1>1, <1>2, <1>3, <1>4

-----------------------------------------------------------------------------
LEMMA TilingInit == Init => IInv
<1>. SUFFICES ASSUME Init PROVE IInv
  OBVIOUS
<1>. DEFINE ram == [a \in 0 .. (RamSize - 1) |-> 0]
            whole == heap_limit - heap_start
            S == {heap_start, HeapEnd}
<1>1. TypeOK
  BY TypeInit
<1>2. whole \in MemAddr /\ whole \in Nat /\ whole > 0
  BY HeapRanges, WordRanges DEF MemAddr
<1>3. ram \in [0 .. (RamSize - 1) -> MemCell]
  BY WordRanges DEF MemCell
<1>4. RAM = WithHeader(ram, heap_start, whole, FREE)
  BY DEF Init, WithFirstHeader
<1>. HIDE DEF ram, whole
<1>5. Join(RAM[heap_start], RAM[heap_start + 1]) = whole /\ RAM[heap_start + 2] = FREE
  <2>1. heap_start \in Nat /\ heap_start + 2 < RamSize
    BY HeapRanges
  <2>. QED
    BY <1>2, <1>3, <1>4, <2>1, StatusTypes, HeaderReads
<1>6. dimension(heap_start) = whole /\ status(heap_start) = FREE
  BY <1>5 DEF dimension, status
<1>7. ChunkEnd(heap_start) = HeapEnd
  BY <1>6, HeapRanges DEF ChunkEnd, heap_header_block_size, whole
<1>8. Chain(S)
  BY <1>7, HeapRanges DEF Chain
<1>9. Marked(S)
  BY <1>6 DEF Marked
<1>10. Owners(S)
  BY <1>6, StatusTypes DEF Owners, Init
<1>11. OnChain(S) /\ Merging(S) /\ Searching(S)
  BY <1>7 DEF OnChain, Merging, Searching, Init
<1>. QED
  BY <1>1, <1>8, <1>9, <1>10, <1>11 DEF IInv, Tiling

\* Steps that write nothing to RAM.
LEMMA ReadOnly ==
    ASSUME NEW S, Tiling(S), RAM' = RAM, owned' = owned
    PROVE  /\ Chain(S)' /\ Marked(S)' /\ Owners(S)'
           /\ \A c \in S \ {HeapEnd} : /\ ChunkEnd(c)' = ChunkEnd(c)
                                       /\ status(c)' = status(c)
                                       /\ dimension(c)' = dimension(c)
<1>1. \A c \in S \ {HeapEnd} : dimension(c)' = dimension(c) /\ status(c)' = status(c)
  BY DEF dimension, status
<1>. QED
  BY <1>1, SameHeaders DEF Tiling

LEMMA HallocKeeps ==
    ASSUME TypeOK, NEW S, Tiling(S), Halloc
    PROVE  Tiling(S)'
<1>1. /\ RAM' = RAM /\ owned' = owned /\ heap_op = "none" /\ heap_op' = "halloc"
      /\ cursor' = heap_start /\ size' \in Sizes
  BY DEF Halloc, BeginHalloc
<1>2. Chain(S)' /\ Marked(S)' /\ Owners(S)'
  BY <1>1, ReadOnly
<1>3. OnChain(S)'
  BY <1>1 DEF OnChain, Tiling, Chain
<1>4. Merging(S)'
  BY <1>1, ReadOnly, SameNeighbours DEF Tiling
<1>5. Searching(S)'
  <2>1. \A c \in S : ~ (c < heap_start)
    BY ChainBounds, HeapRanges DEF Tiling
  <2>. QED
    BY <1>1, <2>1 DEF Searching
<1>. QED
  BY <1>2, <1>3, <1>4, <1>5 DEF Tiling

LEMMA SkipKeeps ==
    ASSUME TypeOK, NEW S, Tiling(S), Skip
    PROVE  Tiling(S)'
<1>1. /\ RAM' = RAM /\ owned' = owned /\ heap_op = "halloc" /\ heap_op' = "halloc"
      /\ cursor < heap_limit /\ ~ Suits(cursor)
      /\ cursor' = next_chunk(cursor) /\ size' = size
  BY DEF Skip, HallocSkip
<1>2. PICK k \in S \ {HeapEnd} : k = cursor
  BY <1>1, HeapRanges DEF Tiling, OnChain
<1>3. /\ k \in Nat /\ dimension(k) \in Nat /\ cursor' = ChunkEnd(k) /\ ChunkEnd(k) \in S
      /\ k < ChunkEnd(k) /\ ChunkEnd(k) \in Nat
  BY <1>1, <1>2, ChainSteps DEF Tiling
<1>4. /\ Chain(S)' /\ Marked(S)' /\ Owners(S)'
      /\ \A c \in S \ {HeapEnd} : dimension(c)' = dimension(c) /\ status(c)' = status(c)
  BY <1>1, ReadOnly
<1>5. OnChain(S)'
  BY <1>3 DEF OnChain
<1>6. Merging(S)'
  BY <1>1, ReadOnly, SameNeighbours DEF Tiling
<1>7. ASSUME NEW c \in S \ {HeapEnd}, c < ChunkEnd(k), status(c) = FREE
      PROVE  dimension(c) < size
  <2>1. c \in Nat /\ dimension(c) \in Nat /\ size \in Nat
    <3>1. size \in Nat
      BY WordRanges DEF TypeOK, MemAddr
    <3>. QED
      BY <3>1, ChainSteps DEF Tiling
  <2>2. c < k \/ c = k
    BY <1>2, <1>3, <1>7, <2>1, ChainOrder DEF Tiling
  <2>3. CASE c < k
    BY <1>1, <1>2, <1>7, <2>3 DEF Tiling, Searching
  <2>4. CASE c = k
    BY <1>1, <1>2, <1>7, <2>1, <2>4, StatusTypes DEF Suits
  <2>. QED
    BY <2>2, <2>3, <2>4
<1>8. Searching(S)'
  <2>1. size' \in Sizes
    BY <1>1 DEF Tiling, Searching
  <2>2. \A c \in S \ {HeapEnd} : c < cursor' /\ status(c)' = FREE => dimension(c)' < size'
    BY <1>1, <1>3, <1>4, <1>7
  <2>. QED
    BY <2>1, <2>2 DEF Searching
<1>. QED
  BY <1>4, <1>5, <1>6, <1>8 DEF Tiling

\* The end of a loop, and what stops one.
LEMMA EndKeeps ==
    ASSUME TypeOK, NEW S, Tiling(S), RAM' = RAM, owned' = owned,
           heap_op # "hfree", heap_op' \notin {"halloc", "hfree"}
    PROVE  Tiling(S)'
<1>1. Chain(S)' /\ Marked(S)' /\ Owners(S)'
  BY ReadOnly
<1>2. OnChain(S)' /\ Searching(S)'
  BY DEF OnChain, Searching
<1>3. Merging(S)'
  BY ReadOnly, SameNeighbours DEF Tiling
<1>. QED
  BY <1>1, <1>2, <1>3 DEF Tiling

LEMMA DoneKeeps ==
    ASSUME TypeOK, NEW S, Tiling(S), Done
    PROVE  Tiling(S)'
<1>1. /\ RAM' = RAM /\ owned' = owned /\ heap_op = "hfree" /\ heap_op' = "none"
      /\ ~ HasNext
  BY DEF Done, HfreeDone
<1>2. PICK k \in S : k = cursor
  BY <1>1 DEF Tiling, OnChain
<1>3. ASSUME NEW c \in S \ {HeapEnd}, ChunkEnd(c) # HeapEnd
      PROVE  c < cursor
  <2>1. /\ k \in Nat /\ c \in Nat /\ c < HeapEnd /\ c < heap_limit
        /\ ChunkEnd(c) \in S /\ HeapEnd \in Nat
    BY HeapRanges, ChainBounds, ChainSteps DEF Tiling
  <2>2. CASE k = HeapEnd
    BY <1>2, <2>1, <2>2
  <2>3. CASE k # HeapEnd
    <3>1. k < heap_limit /\ next_chunk(k) = ChunkEnd(k) /\ ChunkEnd(k) \in S /\ ChunkEnd(k) \in Nat
      BY <2>3, ChainSteps DEF Tiling
    <3>2. ~ (ChunkEnd(k) < heap_limit)
      BY <1>1, <1>2, <3>1 DEF HasNext
    <3>3. ChunkEnd(k) = HeapEnd
      BY <3>1, <3>2 DEF Tiling, Chain
    <3>4. c # k /\ ~ (k < c)
      BY <1>3, <2>1, <3>3, ChainOrder DEF Tiling
    <3>. QED
      BY <1>2, <2>1, <3>4
  <2>. QED
    BY <2>2, <2>3
<1>4. Chain(S)' /\ Marked(S)' /\ Owners(S)'
  BY <1>1, ReadOnly
<1>5. OnChain(S)' /\ Searching(S)'
  BY <1>1 DEF OnChain, Searching
<1>6. Merging(S)'
  BY <1>1, <1>3, ReadOnly, SameNeighbours DEF Tiling
<1>. QED
  BY <1>4, <1>5, <1>6 DEF Tiling

LEMMA AdvanceKeeps ==
    ASSUME TypeOK, NEW S, Tiling(S), Advance
    PROVE  Tiling(S)'
<1>1. /\ RAM' = RAM /\ owned' = owned /\ heap_op = "hfree" /\ heap_op' = "hfree"
      /\ cursor < heap_limit /\ ~ BothFree /\ cursor' = next_chunk(cursor)
  BY DEF Advance, HfreeAdvance, HasNext
<1>2. PICK k \in S \ {HeapEnd} : k = cursor
  BY <1>1, HeapRanges DEF Tiling, OnChain
<1>3. /\ k \in Nat /\ next_chunk(k) = ChunkEnd(k) /\ ChunkEnd(k) \in S
      /\ k < ChunkEnd(k) /\ ChunkEnd(k) \in Nat
  BY <1>1, <1>2, ChainSteps DEF Tiling
<1>4. /\ Chain(S)' /\ Marked(S)' /\ Owners(S)'
      /\ \A c \in S \ {HeapEnd} : ChunkEnd(c)' = ChunkEnd(c) /\ status(c)' = status(c)
  BY <1>1, ReadOnly
<1>5. OnChain(S)' /\ Searching(S)'
  BY <1>1, <1>2, <1>3 DEF OnChain, Searching
<1>6. ASSUME NEW c \in S \ {HeapEnd}, c < ChunkEnd(k),
             ChunkEnd(c) # HeapEnd, status(c) = FREE
      PROVE  status(ChunkEnd(c)) # FREE
  <2>1. c \in Nat
    BY ChainBounds DEF Tiling
  <2>2. c < k \/ c = k
    BY <1>3, <1>6, <2>1, ChainOrder DEF Tiling
  <2>3. CASE c < k
    BY <1>1, <1>2, <1>6, <2>3 DEF Tiling, Merging
  <2>4. CASE c = k
    BY <1>1, <1>2, <1>3, <1>6, <2>4 DEF BothFree
  <2>. QED
    BY <2>2, <2>3, <2>4
<1>7. Merging(S)'
  <2>. SUFFICES ASSUME NEW c \in S \ {HeapEnd}, heap_op' = "hfree" => c < cursor',
                       ChunkEnd(c)' # HeapEnd, status(c)' = FREE
                PROVE  status(ChunkEnd(c))' # FREE
    BY DEF Merging
  <2>1. ChunkEnd(c)' = ChunkEnd(c) /\ status(c) = FREE /\ c < ChunkEnd(k)
    BY <1>1, <1>2, <1>3, <1>4
  <2>2. status(ChunkEnd(c)) # FREE
    BY <1>6, <2>1
  <2>3. status(ChunkEnd(c))' = status(ChunkEnd(c))
    BY <1>1, <2>1 DEF status
  <2>. QED
    BY <2>2, <2>3
<1>. QED
  BY <1>4, <1>5, <1>7 DEF Tiling

-----------------------------------------------------------------------------
\* A region the program owns is the chunk of a header that says OWNED.
LEMMA OwnedChunk ==
    ASSUME TypeOK, NEW S, Tiling(S), NEW r \in owned
    PROVE  \E h \in S \ {HeapEnd} :
               /\ status(h) = OWNED /\ r = Chunk(h)
               /\ r.start_address = h /\ PointerTo(r) = h + 3
               /\ h \in Nat /\ ChunkEnd(h) \in Nat
               /\ h + 3 =< ChunkEnd(h) /\ ChunkEnd(h) =< HeapEnd
               /\ r.size = ChunkEnd(h) - h
               /\ Payload(r) = (h + 3) .. (ChunkEnd(h) - 1)
<1>1. PICK h \in S \ {HeapEnd} : status(h) = OWNED /\ r = Chunk(h)
  BY DEF Tiling, Owners
<1>2. /\ h \in Nat /\ dimension(h) \in Nat /\ ChunkEnd(h) = h + 3 + dimension(h)
      /\ ChunkEnd(h) \in Nat /\ ChunkEnd(h) =< HeapEnd
  BY ChainSteps DEF Tiling
<1>3. r.start_address = h /\ r.size = 3 + dimension(h) /\ PointerTo(r) = h + 3
  BY <1>1 DEF Chunk, PointerTo, heap_header_block_size
<1>4. Payload(r) = (h + 3) .. (h + (3 + dimension(h)) - 1)
  BY <1>3 DEF Payload, heap_header_block_size
<1>5. h + (3 + dimension(h)) - 1 = ChunkEnd(h) - 1 /\ 3 + dimension(h) = ChunkEnd(h) - h
      /\ h + 3 =< ChunkEnd(h)
  BY <1>2
<1>. QED
  BY <1>1, <1>2, <1>3, <1>4, <1>5

\* What the program stores in a region of its own touches no header.
LEMMA FillKeeps ==
    ASSUME TypeOK, NEW S, Tiling(S), NEW r \in owned, NEW v \in Payloads, Fill(r, v)
    PROVE  Tiling(S)'
<1>1. /\ RAM' = [a \in DOMAIN RAM |-> IF a \in Payload(r) THEN v ELSE RAM[a]]
      /\ owned' = owned /\ heap_op = "none" /\ heap_op' = "none"
  BY DEF Fill
<1>2. PICK h \in S \ {HeapEnd} : /\ h \in Nat /\ ChunkEnd(h) \in Nat
                                 /\ Payload(r) = (h + 3) .. (ChunkEnd(h) - 1)
  BY OwnedChunk
<1>3. ASSUME NEW c \in S \ {HeapEnd}
      PROVE  dimension(c)' = dimension(c) /\ status(c)' = status(c)
  <2>1. /\ c \in Nat /\ c + 2 < RamSize /\ dimension(c) \in Nat
        /\ ChunkEnd(c) = c + 3 + dimension(c)
    BY ChainSteps DEF Tiling
  <2>2. c = h \/ ChunkEnd(c) =< h \/ ChunkEnd(h) =< c
    BY ChunksApart DEF Tiling
  <2>3. c \notin Payload(r) /\ c + 1 \notin Payload(r) /\ c + 2 \notin Payload(r)
    BY <1>2, <2>1, <2>2
  <2>4. c \in DOMAIN RAM /\ c + 1 \in DOMAIN RAM /\ c + 2 \in DOMAIN RAM
    BY <2>1, HeapRanges DEF TypeOK
  <2>5. RAM'[c] = RAM[c] /\ RAM'[c + 1] = RAM[c + 1] /\ RAM'[c + 2] = RAM[c + 2]
    BY <1>1, <2>3, <2>4
  <2>. QED
    BY <2>5, HeaderKept
<1>4. /\ Chain(S)' /\ Marked(S)' /\ Owners(S)'
      /\ \A c \in S \ {HeapEnd} : ChunkEnd(c)' = ChunkEnd(c)
  BY <1>1, <1>3, SameHeaders DEF Tiling
<1>5. OnChain(S)' /\ Searching(S)'
  BY <1>1 DEF OnChain, Searching
<1>6. Merging(S)'
  BY <1>1, <1>3, <1>4, SameNeighbours DEF Tiling
<1>. QED
  BY <1>4, <1>5, <1>6 DEF Tiling

\* A pointer that HFREE takes is that of a region the program owns, when it
\* frees no stale one.
LEMMA Freeing ==
    ASSUME TypeOK, FreesStale = FALSE, NEW S, Tiling(S), NEW p \in pointers, Hfree(p)
    PROVE  \E h \in S \ {HeapEnd} :
               /\ status(h) = OWNED /\ HeaderOf(p) = h /\ p = h + 3
               /\ RAM' = [RAM EXCEPT ![h + 2] = FREE]
<1>1. /\ MayFree(p) /\ status(HeaderOf(p)) = OWNED
      /\ RAM' = [RAM EXCEPT ![HeaderOf(p) + 2] = FREE]
  BY DEF Hfree, BeginHfree
<1>2. PICK r \in owned : p = PointerTo(r)
  BY <1>1 DEF MayFree
<1>3. PICK h \in S \ {HeapEnd} : /\ status(h) = OWNED /\ PointerTo(r) = h + 3
                                 /\ h \in Nat
  BY OwnedChunk
<1>4. h \in MemAddr /\ p - heap_header_block_size = h
  <2>1. h < HeapEnd
    BY ChainBounds, HeapRanges DEF Tiling
  <2>. QED
    BY <1>2, <1>3, <2>1, HeapRanges, WordRanges DEF MemAddr, heap_header_block_size
<1>5. HeaderOf(p) = h
  BY <1>4, AddrOfAddr DEF HeaderOf
<1>. QED
  BY <1>1, <1>2, <1>3, <1>5

LEMMA HfreeKeeps ==
    ASSUME TypeOK, FreesStale = FALSE, NEW S, Tiling(S), NEW p \in pointers, Hfree(p)
    PROVE  Tiling(S)'
<1>1. /\ heap_op = "none" /\ heap_op' = "hfree" /\ cursor' = heap_start
      /\ owned' = {r \in owned : PointerTo(r) # p}
  BY DEF Hfree, BeginHfree
<1>2. PICK h \in S \ {HeapEnd} : /\ status(h) = OWNED /\ p = h + 3
                                 /\ RAM' = [RAM EXCEPT ![h + 2] = FREE]
  BY Freeing
<1>3. h \in Nat /\ h + 2 \in DOMAIN RAM
  <2>1. h \in Nat /\ h + 2 < RamSize
    BY ChainSteps DEF Tiling
  <2>2. DOMAIN RAM = 0 .. (RamSize - 1)
    BY DEF TypeOK
  <2>. QED
    BY <2>1, <2>2, HeapRanges
<1>4. ASSUME NEW c \in S \ {HeapEnd}
      PROVE  /\ dimension(c)' = dimension(c)
             /\ status(c)' = IF c = h THEN FREE ELSE status(c)
  <2>1. /\ c \in Nat /\ dimension(c) \in Nat /\ ChunkEnd(c) = c + 3 + dimension(c)
        /\ dimension(h) \in Nat /\ ChunkEnd(h) = h + 3 + dimension(h)
    BY ChainSteps DEF Tiling
  <2>2. c = h \/ ChunkEnd(c) =< h \/ ChunkEnd(h) =< c
    BY ChunksApart DEF Tiling
  <2>3. c # h + 2 /\ c + 1 # h + 2
    BY <1>3, <2>1, <2>2
  <2>4. dimension(c)' = dimension(c)
    BY <1>2, <2>3 DEF dimension
  <2>5. CASE c = h
    BY <1>2, <1>3, <2>4, <2>5 DEF status
  <2>6. CASE c # h
    <3>1. c + 2 # h + 2
      BY <1>3, <2>1, <2>6
    <3>. QED
      BY <1>2, <2>4, <2>6, <3>1 DEF status
  <2>. QED
    BY <2>5, <2>6
<1>5. Chain(S)' /\ \A c \in S \ {HeapEnd} : Chunk(c)' = Chunk(c)
  BY <1>4, SameDimensions DEF Tiling
<1>6. Marked(S)'
  BY <1>4 DEF Tiling, Marked
<1>7. Owners(S)'
  <2>1. owned' = {Chunk(c) : c \in {d \in S \ {HeapEnd} : status(d) = OWNED /\ d # h}}
    <3>1. \A c \in S \ {HeapEnd} : c \in Nat /\ PointerTo(Chunk(c)) = c + 3
      BY ChainBounds DEF Tiling, PointerTo, Chunk, heap_header_block_size
    <3>2. \A c \in S \ {HeapEnd} : PointerTo(Chunk(c)) # p <=> c # h
      BY <1>2, <1>3, <3>1
    <3>. QED
      BY <1>1, <3>2 DEF Tiling, Owners
  <2>2. \A c \in S \ {HeapEnd} : status(c)' = OWNED <=> status(c) = OWNED /\ c # h
    BY <1>4, StatusTypes
  <2>3. {Chunk(c) : c \in {d \in S \ {HeapEnd} : status(d) = OWNED}}'
            = {Chunk(c) : c \in {d \in S \ {HeapEnd} : status(d) = OWNED /\ d # h}}
    BY <1>5, <2>2
  <2>. QED
    BY <2>1, <2>3 DEF Owners
<1>8. OnChain(S)' /\ Searching(S)'
  BY <1>1 DEF OnChain, Searching, Tiling, Chain
<1>9. Merging(S)'
  <2>1. \A c \in S : ~ (c < heap_start)
    BY ChainBounds, HeapRanges DEF Tiling
  <2>. QED
    BY <1>1, <2>1 DEF Merging
<1>. QED
  BY <1>5, <1>6, <1>7, <1>8, <1>9 DEF Tiling

-----------------------------------------------------------------------------
\* HFREE's loop makes one chunk of the chunk it stands on and the next.
LEMMA Merges ==
    ASSUME TypeOK, NEW S, Tiling(S), Merge
    PROVE  \E k \in S \ {HeapEnd}, e \in S \ {HeapEnd} :
               /\ k = cursor /\ e = ChunkEnd(k) /\ status(k) = FREE /\ status(e) = FREE
               /\ k \in Nat /\ e \in Nat /\ k + 3 =< e
               /\ ChunkEnd(e) \in S /\ ChunkEnd(e) \in Nat /\ e + 3 =< ChunkEnd(e)
               /\ ChunkEnd(k)' = ChunkEnd(e)
               /\ \A a \in DOMAIN RAM : a # k /\ a # k + 1 => RAM'[a] = RAM[a]
<1>1. /\ heap_op = "hfree" /\ cursor < heap_limit /\ next_chunk(cursor) < heap_limit
      /\ status(cursor) = FREE /\ status(next_chunk(cursor)) = FREE
      /\ RAM' = WithDimension(RAM, cursor, Merged(cursor))
  BY DEF Merge, HfreeMerge, HasNext, BothFree
<1>2. PICK k \in S \ {HeapEnd} : k = cursor
  BY <1>1, HeapRanges DEF Tiling, OnChain
<1>3. /\ k \in Nat /\ k + 2 < RamSize /\ dimension(k) \in Nat
      /\ next_chunk(k) = ChunkEnd(k) /\ ChunkEnd(k) \in S
      /\ ChunkEnd(k) = k + 3 + dimension(k)
  BY <1>2, ChainSteps DEF Tiling
<1>4. PICK e \in S \ {HeapEnd} : e = ChunkEnd(k)
  BY <1>1, <1>2, <1>3, HeapRanges
<1>5. /\ e \in Nat /\ dimension(e) \in Nat /\ ChunkEnd(e) = e + 3 + dimension(e)
      /\ ChunkEnd(e) \in S /\ ChunkEnd(e) \in Nat /\ ChunkEnd(e) =< HeapEnd
  BY ChainSteps DEF Tiling
<1>. DEFINE dim == dimension(k) + 3 + dimension(e)
<1>6. dim \in MemAddr
  BY <1>3, <1>4, <1>5, HeapRanges, WordRanges DEF MemAddr
<1>7. RAM' = WithDimension(RAM, k, dim)
  BY <1>1, <1>2, <1>3, <1>4 DEF Merged, heap_header_block_size
<1>8. /\ Join(RAM'[k], RAM'[k + 1]) = dim
      /\ \A a \in 0 .. (RamSize - 1) : a # k /\ a # k + 1 => RAM'[a] = RAM[a]
  <2>1. RAM \in [0 .. (RamSize - 1) -> MemCell]
    BY DEF TypeOK
  <2>. HIDE DEF dim
  <2>. QED
    BY <1>3, <1>6, <1>7, <2>1, DimensionReads
<1>9. dimension(k)' = dim
  BY <1>8 DEF dimension
<1>10. ChunkEnd(k)' = ChunkEnd(e)
  <2>1. ChunkEnd(k)' = k + 3 + dimension(k)'
    BY DEF ChunkEnd, heap_header_block_size
  <2>. QED
    BY <1>3, <1>4, <1>5, <1>9, <2>1
<1>11. DOMAIN RAM = 0 .. (RamSize - 1)
  BY DEF TypeOK
<1>12. status(k) = FREE /\ status(e) = FREE
  BY <1>1, <1>2, <1>3, <1>4
<1>13. k + 3 =< e /\ e + 3 =< ChunkEnd(e)
  BY <1>3, <1>4, <1>5
<1>14. \A a \in DOMAIN RAM : a # k /\ a # k + 1 => RAM'[a] = RAM[a]
  BY <1>8, <1>11
<1>15. k \in Nat /\ ChunkEnd(e) \in Nat /\ ChunkEnd(e) \in S
  BY <1>3, <1>5
<1>. HIDE DEF dim
<1>. QED
  BY <1>2, <1>4, <1>5, <1>10, <1>12, <1>13, <1>14, <1>15

LEMMA MergeKeeps ==
    ASSUME TypeOK, NEW S, Tiling(S), Merge
    PROVE  \E T : Tiling(T)'
<1>1. PICK k \in S \ {HeapEnd}, e \in S \ {HeapEnd} :
               /\ k = cursor /\ e = ChunkEnd(k) /\ status(k) = FREE /\ status(e) = FREE
               /\ k \in Nat /\ e \in Nat /\ k + 3 =< e
               /\ ChunkEnd(e) \in S /\ ChunkEnd(e) \in Nat /\ e + 3 =< ChunkEnd(e)
               /\ ChunkEnd(k)' = ChunkEnd(e)
               /\ \A a \in DOMAIN RAM : a # k /\ a # k + 1 => RAM'[a] = RAM[a]
  BY Merges
<1>2. /\ heap_op = "hfree" /\ heap_op' = "hfree" /\ cursor' = cursor /\ owned' = owned
  BY DEF Merge, HfreeMerge
<1>. DEFINE T == S \ {e}
            f == ChunkEnd(e)
<1>3. \A c \in S : c \in Nat
  BY ChainBounds DEF Tiling
<1>4. ASSUME NEW c \in S \ {HeapEnd}
      PROVE  status(c)' = status(c) /\ (c # k => dimension(c)' = dimension(c))
  <2>1. /\ c \in Nat /\ c + 2 < RamSize /\ dimension(c) \in Nat
        /\ ChunkEnd(c) = c + 3 + dimension(c)
    BY ChainSteps DEF Tiling
  <2>2. c \in DOMAIN RAM /\ c + 1 \in DOMAIN RAM /\ c + 2 \in DOMAIN RAM
    BY <2>1, HeapRanges DEF TypeOK
  <2>3. c = k \/ ChunkEnd(c) =< k \/ e =< c
    BY <1>1, ChunksApart DEF Tiling
  <2>4. c + 2 # k /\ c + 2 # k + 1 /\ (c # k => c # k + 1 /\ c + 1 # k /\ c + 1 # k + 1)
    BY <1>1, <2>1, <2>3
  <2>. QED
    BY <1>1, <2>2, <2>4 DEF status, dimension
<1>5. \A c \in T \ {HeapEnd} : ChunkEnd(c)' = IF c = k THEN f ELSE ChunkEnd(c)
  <2>1. ASSUME NEW c \in T \ {HeapEnd}, c # k PROVE ChunkEnd(c)' = ChunkEnd(c)
    BY <1>4, <2>1 DEF ChunkEnd
  <2>. QED
    BY <1>1, <2>1
<1>6. k \in T /\ f \in T /\ HeapEnd \in T /\ heap_start \in T /\ T \subseteq S
  <2>1. heap_start =< k
    BY ChainBounds DEF Tiling
  <2>2. k # e /\ f # e /\ heap_start # e
    BY <1>1, <2>1, HeapRanges
  <2>. QED
    BY <1>1, <2>2, ChainBounds DEF Tiling
<1>. HIDE DEF f, T
<1>7. ASSUME NEW c \in T \ {HeapEnd}, c # k PROVE ChunkEnd(c) \in T
  <2>1. /\ c \in S \ {HeapEnd} /\ c \in Nat /\ ChunkEnd(c) \in S /\ ChunkEnd(c) \in Nat
        /\ c < ChunkEnd(c) /\ c # e
    BY <1>6, <1>7, ChainSteps DEF Tiling, T
  <2>2. ChunkEnd(c) # e
    <3>1. CASE c < k
      <4>1. ChunkEnd(c) =< k
        BY <1>6, <2>1, <3>1, ChainOrder DEF Tiling
      <4>. QED
        BY <1>1, <2>1, <4>1
    <3>2. CASE k < c
      <4>1. e =< c
        BY <1>1, <2>1, <3>2, ChainOrder DEF Tiling
      <4>. QED
        BY <1>1, <2>1, <4>1
    <3>. QED
      BY <1>1, <1>7, <2>1, <3>1, <3>2
  <2>. QED
    BY <2>1, <2>2 DEF T
<1>8. Chain(T)'
  <2>1. T \subseteq heap_start .. HeapEnd
    BY <1>6 DEF Tiling, Chain
  <2>2. ASSUME NEW c \in T \ {HeapEnd} PROVE c < heap_limit /\ ChunkEnd(c)' \in T
    BY <1>5, <1>6, <1>7 DEF Tiling, Chain
  <2>3. ASSUME NEW c \in T, NEW d \in T, c < d PROVE ChunkEnd(c)' =< d
    <3>1. c \in S /\ d \in S /\ c \in Nat /\ d \in Nat /\ d =< HeapEnd /\ d # e
      BY <1>6, ChainBounds DEF Tiling, T
    <3>2. c # HeapEnd
      BY <2>3, <3>1, HeapRanges
    <3>3. ChunkEnd(c) =< d
      BY <2>3, <3>1, ChainOrder DEF Tiling
    <3>4. CASE c = k
      <4>1. e < d
        BY <1>1, <3>1, <3>3, <3>4
      <4>2. f =< d
        BY <1>1, <3>1, <4>1, ChainOrder DEF Tiling, f
      <4>. QED
        BY <1>5, <3>2, <3>4, <4>2
    <3>5. CASE c # k
      BY <1>5, <3>2, <3>3, <3>5
    <3>. QED
      BY <3>4, <3>5
  <2>. QED
    BY <1>6, <2>1, <2>2, <2>3 DEF Chain
<1>9. Marked(T)'
  BY <1>4, <1>6 DEF Tiling, Marked
<1>10. Owners(T)'
  <2>1. \A c \in T \ {HeapEnd} : status(c)' = OWNED <=> status(c) = OWNED
    BY <1>4, <1>6
  <2>2. \A c \in T \ {HeapEnd} : status(c) = OWNED => Chunk(c)' = Chunk(c)
    BY <1>1, <1>4, <1>6, StatusTypes DEF Chunk
  <2>3. {d \in S \ {HeapEnd} : status(d) = OWNED} = {d \in T \ {HeapEnd} : status(d) = OWNED}
    BY <1>1, <1>6, StatusTypes DEF T
  <2>4. {Chunk(c) : c \in {d \in T \ {HeapEnd} : status(d) = OWNED}}'
            = {Chunk(c) : c \in {d \in T \ {HeapEnd} : status(d) = OWNED}}
    BY <2>1, <2>2
  <2>. QED
    BY <1>2, <2>3, <2>4 DEF Tiling, Owners
<1>11. OnChain(T)' /\ Searching(T)'
  BY <1>1, <1>2, <1>6 DEF OnChain, Searching
<1>12. Merging(T)'
  <2>. SUFFICES ASSUME NEW c \in T \ {HeapEnd}, c < cursor',
                       ChunkEnd(c)' # HeapEnd, status(c)' = FREE
                PROVE  status(ChunkEnd(c))' # FREE
    BY <1>2 DEF Merging
  <2>1. c < k /\ c \in S /\ c \in Nat /\ c # k
    BY <1>1, <1>2, <1>3, <1>6
  <2>2. ChunkEnd(c)' = ChunkEnd(c) /\ status(c) = FREE
    BY <1>4, <1>5, <1>6, <2>1
  <2>3. status(ChunkEnd(c)) # FREE
    BY <1>1, <1>2, <2>1, <2>2 DEF Tiling, Merging
  <2>4. PICK d \in S \ {HeapEnd} : d = ChunkEnd(c)
    BY <2>1, <2>2, ChainSteps DEF Tiling
  <2>5. status(d)' = status(d)
    BY <1>4
  <2>6. status(ChunkEnd(c))' = status(d)'
    BY <2>2, <2>4 DEF status
  <2>. QED
    BY <2>3, <2>4, <2>5, <2>6
<1>. QED
  BY <1>8, <1>9, <1>10, <1>11, <1>12 DEF Tiling

-----------------------------------------------------------------------------
\* HALLOC takes the chunk it stands on and, if what is left has room for a
\* header and a byte, makes a free chunk of it, whose header lies in the payload
\* the chunk had.
LEMMA Takes ==
    ASSUME TypeOK, NEW S, Tiling(S), Take
    PROVE  \E k \in S \ {HeapEnd} :
               /\ k = cursor /\ status(k) = FREE /\ status(k)' = OWNED
               /\ k \in Nat /\ ChunkEnd(k) \in S /\ ChunkEnd(k) \in Nat
               /\ size \in Nat /\ k + 3 + size =< ChunkEnd(k)
               /\ dimension(k)' = size'
               /\ \A a \in DOMAIN RAM : ~ (k =< a /\ a < ChunkEnd(k)) => RAM'[a] = RAM[a]
               /\ \/ \E m \in Nat :
                        /\ m = k + 3 + size /\ m + 3 < ChunkEnd(k) /\ size' = size
                        /\ status(m)' = FREE
                        /\ dimension(m)' = ChunkEnd(k) - m - 3
                  \/ /\ ChunkEnd(k) =< k + 3 + size + 3
                     /\ k + 3 + size' = ChunkEnd(k)
<1>1. HallocTake /\ heap_op = "halloc"
  BY DEF Take, HallocTake
<1>2. PICK k \in S \ {HeapEnd} : k = cursor
  BY <1>1, Taking, HeapRanges DEF Tiling, OnChain
<1>. DEFINE e == ChunkEnd(k)
            d == dimension(k)
            m == k + 3 + size
            rest == d - 3 - size
            split == WithHeader(RAM, m, rest, FREE)
            base == SplitOff(RAM, cursor)
<1>3. /\ k \in Nat /\ k + 2 < RamSize /\ d \in Nat /\ e \in S /\ e \in Nat /\ e = k + 3 + d
      /\ e =< HeapEnd
  BY ChainSteps DEF Tiling
<1>4. /\ size \in Nat /\ status(k) # OWNED /\ size =< d
      /\ \/ /\ d > size + 3 /\ size' = size /\ base = split
         \/ /\ d =< size + 3 /\ size' = d /\ base = RAM
      /\ RAM' = WithHeader(base, k, size', OWNED)
  BY <1>1, <1>2, Taking
<1>5. status(k) = FREE
  BY <1>4 DEF Tiling, Marked
<1>6. RAM \in [0 .. (RamSize - 1) -> MemCell] /\ DOMAIN RAM = 0 .. (RamSize - 1)
  BY DEF TypeOK
<1>7. d \in MemAddr /\ size' \in MemAddr
  <2>1. d \in MemAddr
    BY <1>3, HeaderTypes
  <2>. QED
    BY <1>4, <2>1 DEF TypeOK
<1>. HIDE DEF e, d, m, base, split, rest
<1>8. ASSUME d > size + 3
      PROVE  /\ m \in Nat /\ m + 2 < RamSize /\ k + 3 =< m /\ m + 3 < e
             /\ rest \in MemAddr /\ rest = e - m - 3 /\ rest \in Nat
  <2>1. m = k + 3 + size /\ rest = d - 3 - size
    BY DEF m, rest
  <2>. QED
    BY <1>3, <1>4, <1>8, <2>1, HeapRanges, WordRanges DEF MemAddr
<1>9. ASSUME d > size + 3
      PROVE  /\ split \in [0 .. (RamSize - 1) -> MemCell]
             /\ Join(split[m], split[m + 1]) = rest
             /\ split[m + 2] = FREE
             /\ \A a \in 0 .. (RamSize - 1) :
                    a # m /\ a # m + 1 /\ a # m + 2 => split[a] = RAM[a]
  <2>1. m \in Nat /\ m + 2 < RamSize /\ rest \in MemAddr /\ rest \in Nat
    BY <1>8, <1>9
  <2>2. FREE \in MemCell
    BY StatusTypes
  <2>3. split \in [0 .. (RamSize - 1) -> MemCell]
    BY <1>6, <2>1, <2>2, HeaderWritten DEF split
  <2>4. /\ Join(split[m], split[m + 1]) = rest
        /\ split[m + 2] = FREE
        /\ \A a \in 0 .. (RamSize - 1) :
               a # m /\ a # m + 1 /\ a # m + 2 => split[a] = RAM[a]
    <3>. DEFINE written == WithHeader(RAM, m, rest, FREE)
    <3>1. /\ Join(written[m], written[m + 1]) = rest
          /\ written[m + 2] = FREE
          /\ \A a \in 0 .. (RamSize - 1) :
                 a # m /\ a # m + 1 /\ a # m + 2 => written[a] = RAM[a]
      BY <1>6, <2>1, <2>2, HeaderReads
    <3>. QED
      BY <3>1 DEF split
  <2>. QED
    BY <2>3, <2>4
<1>10. base \in [0 .. (RamSize - 1) -> MemCell]
  BY <1>4, <1>6, <1>9
<1>11. /\ Join(RAM'[k], RAM'[k + 1]) = size'
       /\ RAM'[k + 2] = OWNED
       /\ \A a \in 0 .. (RamSize - 1) :
              a # k /\ a # k + 1 /\ a # k + 2 => RAM'[a] = base[a]
  <2>. DEFINE granted == size'
  <2>1. granted \in MemAddr /\ RAM' = WithHeader(base, k, granted, OWNED)
    BY <1>4, <1>7
  <2>. HIDE DEF granted
  <2>. DEFINE written == WithHeader(base, k, granted, OWNED)
  <2>2. OWNED \in MemCell /\ k \in Nat /\ k + 2 < RamSize
    BY <1>3, StatusTypes
  <2>3. /\ Join(written[k], written[k + 1]) = granted
        /\ written[k + 2] = OWNED
        /\ \A a \in 0 .. (RamSize - 1) :
               a # k /\ a # k + 1 /\ a # k + 2 => written[a] = base[a]
    BY <1>10, <2>1, <2>2, HeaderReads
  <2>4. RAM' = written
    BY <2>1
  <2>. HIDE DEF written
  <2>. QED
    BY <2>3, <2>4 DEF granted
<1>12. dimension(k)' = size' /\ status(k)' = OWNED
  BY <1>11 DEF dimension, status
<1>13. ASSUME NEW a \in DOMAIN RAM, ~ (k =< a /\ a < e) PROVE RAM'[a] = RAM[a]
  <2>1. a \in 0 .. (RamSize - 1) /\ a \in Nat
    BY <1>6, HeapRanges
  <2>2. a # k /\ a # k + 1 /\ a # k + 2
    BY <1>3, <1>13, <2>1
  <2>3. RAM'[a] = base[a]
    BY <1>11, <2>1, <2>2
  <2>4. CASE d > size + 3
    <3>1. a # m /\ a # m + 1 /\ a # m + 2
      BY <1>3, <1>8, <1>13, <2>1, <2>4
    <3>2. split[a] = RAM[a]
      BY <1>9, <2>1, <2>4, <3>1
    <3>. QED
      BY <1>3, <1>4, <2>3, <2>4, <3>2
  <2>5. CASE d =< size + 3
    BY <1>3, <1>4, <2>3, <2>5
  <2>. QED
    BY <1>3, <1>4, <2>4, <2>5
<1>14. CASE d > size + 3
  <2>1. m + 3 < e /\ size' = size /\ base = split
    BY <1>3, <1>4, <1>8, <1>14
  <2>2. /\ m \in 0 .. (RamSize - 1) /\ m + 1 \in 0 .. (RamSize - 1)
        /\ m + 2 \in 0 .. (RamSize - 1)
    BY <1>8, <1>14, HeapRanges
  <2>3. /\ m # k /\ m # k + 1 /\ m # k + 2 /\ m + 1 # k /\ m + 1 # k + 1 /\ m + 1 # k + 2
        /\ m + 2 # k /\ m + 2 # k + 1 /\ m + 2 # k + 2
    BY <1>3, <1>8, <1>14
  <2>4. RAM'[m] = split[m] /\ RAM'[m + 1] = split[m + 1] /\ RAM'[m + 2] = split[m + 2]
    BY <1>11, <2>1, <2>2, <2>3
  <2>5. Join(RAM'[m], RAM'[m + 1]) = rest /\ RAM'[m + 2] = FREE
    BY <1>9, <1>14, <2>4
  <2>6. PICK x \in Nat : x = m
    BY <1>8, <1>14
  <2>7. dimension(x)' = e - m - 3 /\ status(x)' = FREE
    BY <1>8, <1>14, <2>5, <2>6 DEF dimension, status
  <2>. QED
    BY <1>2, <1>3, <1>4, <1>5, <1>12, <1>13, <2>1, <2>6, <2>7 DEF e, m
<1>15. CASE d =< size + 3
  BY <1>2, <1>3, <1>4, <1>5, <1>12, <1>13, <1>15 DEF e
<1>. QED
  BY <1>3, <1>4, <1>14, <1>15

\* What a grant leaves as it was: the headers of the other chunks.
LEMMA TakeLeaves ==
    ASSUME TypeOK, NEW S, Chain(S), NEW k \in S \ {HeapEnd}, ChunkEnd(k) \in Nat,
           \A a \in DOMAIN RAM : ~ (k =< a /\ a < ChunkEnd(k)) => RAM'[a] = RAM[a],
           NEW c \in S \ {HeapEnd}, c # k
    PROVE  /\ dimension(c)' = dimension(c) /\ status(c)' = status(c)
           /\ ChunkEnd(c)' = ChunkEnd(c) /\ Chunk(c)' = Chunk(c)
<1>1. /\ c \in Nat /\ c + 2 < RamSize /\ dimension(c) \in Nat /\ k \in Nat
      /\ ChunkEnd(c) = c + 3 + dimension(c)
  BY ChainSteps
<1>2. ChunkEnd(c) =< k \/ ChunkEnd(k) =< c
  BY ChunksApart
<1>3. c \in DOMAIN RAM /\ c + 1 \in DOMAIN RAM /\ c + 2 \in DOMAIN RAM
  BY <1>1, HeapRanges DEF TypeOK
<1>4. /\ ~ (k =< c /\ c < ChunkEnd(k)) /\ ~ (k =< c + 1 /\ c + 1 < ChunkEnd(k))
      /\ ~ (k =< c + 2 /\ c + 2 < ChunkEnd(k))
  BY <1>1, <1>2
<1>5. dimension(c)' = dimension(c) /\ status(c)' = status(c)
  BY <1>3, <1>4, HeaderKept
<1>. QED
  BY <1>5 DEF ChunkEnd, Chunk

LEMMA TakeWholeKeeps ==
    ASSUME TypeOK, NEW S, Tiling(S), Take, NEW k \in S \ {HeapEnd}, k = cursor,
           status(k) = FREE, status(k)' = OWNED, dimension(k)' = size',
           \A a \in DOMAIN RAM : ~ (k =< a /\ a < ChunkEnd(k)) => RAM'[a] = RAM[a],
           k + 3 + size' = ChunkEnd(k)
    PROVE  Tiling(S)'
<1>1. /\ heap_op = "halloc" /\ heap_op' = "granted"
      /\ owned' = owned \cup {[start_address |-> k, size |-> 3 + size']}
  BY DEF Take, HallocTake, heap_header_block_size
<1>2. /\ k \in Nat /\ ChunkEnd(k) \in Nat /\ dimension(k) \in Nat
      /\ ChunkEnd(k) = k + 3 + dimension(k)
  BY ChainSteps DEF Tiling
<1>3. \A c \in S \ {HeapEnd} : c # k =>
          /\ dimension(c)' = dimension(c) /\ status(c)' = status(c)
          /\ Chunk(c)' = Chunk(c)
  BY <1>2, TakeLeaves DEF Tiling
<1>4. dimension(k)' = dimension(k)
  <2>1. size' \in Nat
    BY TypeStep, WordRanges DEF Next, Loop, TypeOK, MemAddr
  <2>. QED
    BY <1>2, <2>1
<1>5. Chain(S)' /\ \A c \in S \ {HeapEnd} : ChunkEnd(c)' = ChunkEnd(c) /\ Chunk(c)' = Chunk(c)
  BY <1>3, <1>4, SameDimensions DEF Tiling
<1>6. Marked(S)'
  BY <1>3 DEF Tiling, Marked
<1>7. Owners(S)'
  <2>1. Chunk(k)' = [start_address |-> k, size |-> 3 + size']
    BY DEF Chunk, heap_header_block_size
  <2>2. {Chunk(c) : c \in {d \in S \ {HeapEnd} : status(d) = OWNED}}'
            = {Chunk(c) : c \in {d \in S \ {HeapEnd} : status(d) = OWNED}} \cup {Chunk(k)'}
    BY <1>3, <1>5
  <2>. QED
    BY <1>1, <2>1, <2>2 DEF Tiling, Owners
<1>8. OnChain(S)' /\ Searching(S)'
  BY <1>1 DEF OnChain, Searching
<1>9. Merging(S)'
  <2>. SUFFICES ASSUME NEW c \in S \ {HeapEnd}, ChunkEnd(c)' # HeapEnd, status(c)' = FREE
                PROVE  status(ChunkEnd(c))' # FREE
    BY DEF Merging
  <2>1. c # k /\ status(c) = FREE /\ ChunkEnd(c)' = ChunkEnd(c)
    BY <1>3, <1>5, StatusTypes
  <2>2. PICK e \in S \ {HeapEnd} : e = ChunkEnd(c)
    BY <2>1, ChainSteps DEF Tiling
  <2>3. status(e) # FREE
    BY <1>1, <2>1, <2>2 DEF Tiling, Merging
  <2>4. status(e)' # FREE
    BY <1>3, <2>3, StatusTypes
  <2>5. status(ChunkEnd(c))' = status(e)'
    BY <2>1, <2>2 DEF status
  <2>. QED
    BY <2>4, <2>5
<1>. QED
  BY <1>5, <1>6, <1>7, <1>8, <1>9 DEF Tiling

LEMMA TakeSplitKeeps ==
    ASSUME TypeOK, NEW S, Tiling(S), Take, NEW k \in S \ {HeapEnd}, k = cursor,
           status(k) = FREE, status(k)' = OWNED, dimension(k)' = size',
           \A a \in DOMAIN RAM : ~ (k =< a /\ a < ChunkEnd(k)) => RAM'[a] = RAM[a],
           NEW m \in Nat, size \in Nat, m = k + 3 + size, m + 3 < ChunkEnd(k), size' = size,
           status(m)' = FREE, dimension(m)' = ChunkEnd(k) - m - 3
    PROVE  Tiling(S \cup {m})'
<1>. DEFINE T == S \cup {m}
            e == ChunkEnd(k)
<1>1. /\ heap_op = "halloc" /\ heap_op' = "granted"
      /\ owned' = owned \cup {[start_address |-> k, size |-> 3 + size']}
  BY DEF Take, HallocTake, heap_header_block_size
<1>2. k \in Nat /\ e \in Nat /\ e \in S /\ e =< HeapEnd /\ heap_start =< k
  BY ChainSteps DEF Tiling
<1>3. k + 3 =< m /\ m < e /\ m < heap_limit /\ m # HeapEnd
  BY <1>2, HeapRanges
<1>4. ChunkEnd(k)' = m
  BY <1>2 DEF ChunkEnd, heap_header_block_size
<1>5. ChunkEnd(m)' = e
  <2>1. ChunkEnd(m)' = m + 3 + (e - m - 3)
    BY DEF ChunkEnd, heap_header_block_size
  <2>. HIDE DEF e
  <2>. QED
    BY <1>2, <2>1
<1>6. \A c \in S \ {HeapEnd} : c # k =>
          /\ status(c)' = status(c) /\ ChunkEnd(c)' = ChunkEnd(c) /\ Chunk(c)' = Chunk(c)
  BY <1>2, TakeLeaves DEF Tiling
<1>7. m \notin S
  BY <1>2, <1>3, ChainOrder DEF Tiling
<1>8. \A c \in S : c \in Nat
  BY ChainBounds DEF Tiling
<1>. HIDE DEF e
<1>9. Chain(T)'
  <2>1. T \subseteq heap_start .. HeapEnd
    <3>1. m \in heap_start .. HeapEnd
      BY <1>2, <1>3, HeapRanges
    <3>. QED
      BY <3>1 DEF Tiling, Chain
  <2>2. heap_start \in T /\ HeapEnd \in T
    BY ChainBounds DEF Tiling
  <2>3. ASSUME NEW c \in T \ {HeapEnd} PROVE c < heap_limit /\ ChunkEnd(c)' \in T
    <3>1. CASE c = m
      BY <1>2, <1>3, <1>5, <3>1
    <3>2. CASE c = k
      BY <1>4, <3>2 DEF Tiling, Chain
    <3>3. CASE c # m /\ c # k
      BY <1>6, <3>3 DEF Tiling, Chain
    <3>. QED
      BY <3>1, <3>2, <3>3
  <2>4. ASSUME NEW c \in T, NEW d \in T, c < d PROVE ChunkEnd(c)' =< d
    <3>1. c \in Nat /\ d \in Nat
      BY <1>8
    <3>2. CASE c = m
      <4>1. d \in S /\ k < d
        BY <1>2, <1>3, <2>4, <3>1, <3>2
      <4>2. e =< d
        BY <4>1, ChainOrder DEF Tiling, e
      <4>. QED
        BY <1>5, <3>2, <4>2
    <3>3. CASE c = k
      <4>1. CASE d = m
        BY <1>4, <3>3, <4>1
      <4>2. CASE d # m
        <5>1. e =< d
          BY <2>4, <3>3, <4>2, ChainOrder DEF Tiling, e
        <5>. QED
          BY <1>2, <1>3, <1>4, <3>1, <3>3, <5>1
      <4>. QED
        BY <4>1, <4>2
    <3>4. CASE c # m /\ c # k
      <4>1. c \in S \ {HeapEnd}
        <5>1. m < HeapEnd /\ HeapEnd \in Nat
          BY <1>2, <1>3, HeapRanges
        <5>2. d =< HeapEnd
          BY <5>1, ChainBounds DEF Tiling
        <5>. QED
          BY <2>4, <3>1, <3>4, <5>1, <5>2
      <4>2. ChunkEnd(c)' = ChunkEnd(c) /\ ChunkEnd(c) \in Nat
        BY <1>6, <3>4, <4>1, ChainSteps DEF Tiling
      <4>3. CASE d = m
        <5>1. ChunkEnd(c) =< k
          <6>1. c < k \/ k < c
            BY <1>2, <3>1, <3>4
          <6>2. ~ (k < c)
            <7>1. ASSUME k < c PROVE FALSE
              <8>1. e =< c
                BY <4>1, <7>1, ChainOrder DEF Tiling, e
              <8>. QED
                BY <1>2, <1>3, <2>4, <3>1, <4>3, <8>1
            <7>. QED
              BY <7>1
          <6>. QED
            BY <4>1, <6>1, <6>2, ChainOrder DEF Tiling
        <5>. QED
          BY <1>2, <1>3, <4>2, <4>3, <5>1
      <4>4. CASE d # m
        BY <2>4, <4>1, <4>2, <4>4, ChainOrder DEF Tiling
      <4>. QED
        BY <4>3, <4>4
    <3>. QED
      BY <3>2, <3>3, <3>4
  <2>. QED
    BY <2>1, <2>2, <2>3, <2>4 DEF Chain
<1>10. Marked(T)'
  <2>1. \A c \in T \ {HeapEnd} : status(c)' \in {FREE, OWNED}
    BY <1>6 DEF Tiling, Marked
  <2>. QED
    BY <2>1 DEF Marked
<1>11. Owners(T)'
  <2>1. Chunk(k)' = [start_address |-> k, size |-> 3 + size']
    BY DEF Chunk, heap_header_block_size
  <2>2. {Chunk(c) : c \in {d \in T \ {HeapEnd} : status(d) = OWNED}}'
            = {Chunk(c) : c \in {d \in S \ {HeapEnd} : status(d) = OWNED}} \cup {Chunk(k)'}
    <3>. HIDE DEF T
    <3>1. \A c \in T \ {HeapEnd} : status(c)' = OWNED <=>
              c = k \/ (c \in S /\ status(c) = OWNED)
      BY <1>6, <1>7, StatusTypes DEF T
    <3>2. \A c \in S \ {HeapEnd} : status(c) = OWNED => Chunk(c)' = Chunk(c)
      BY <1>6, StatusTypes
    <3>3. k \in T /\ S \subseteq T
      BY DEF T
    <3>. QED
      BY <3>1, <3>2, <3>3
  <2>. QED
    BY <1>1, <2>1, <2>2 DEF Tiling, Owners
<1>12. OnChain(T)' /\ Searching(T)'
  BY <1>1 DEF OnChain, Searching
<1>13. Merging(T)'
  <2>. SUFFICES ASSUME NEW c \in T \ {HeapEnd}, ChunkEnd(c)' # HeapEnd, status(c)' = FREE
                PROVE  status(ChunkEnd(c))' # FREE
    BY DEF Merging
  <2>1. c # k
    BY StatusTypes
  <2>. DEFINE b == IF c = m THEN k ELSE c
  <2>2. /\ b \in S \ {HeapEnd} /\ status(b) = FREE
        /\ ChunkEnd(c)' = ChunkEnd(b) /\ ChunkEnd(b) # HeapEnd
    BY <1>5, <1>6, <2>1 DEF e
  <2>3. PICK n \in S \ {HeapEnd} : n = ChunkEnd(b)
    BY <2>2 DEF Tiling, Chain
  <2>4. status(n) # FREE
    BY <1>1, <2>2, <2>3 DEF Tiling, Merging
  <2>5. status(n)' # FREE
    BY <1>6, <2>4, StatusTypes
  <2>6. status(ChunkEnd(c))' = status(n)'
    BY <2>2, <2>3 DEF status
  <2>. QED
    BY <2>5, <2>6
<1>. QED
  BY <1>9, <1>10, <1>11, <1>12, <1>13 DEF Tiling

LEMMA TakeKeeps ==
    ASSUME TypeOK, NEW S, Tiling(S), Take
    PROVE  \E T : Tiling(T)'
<1>1. PICK k \in S \ {HeapEnd} :
          /\ k = cursor /\ status(k) = FREE /\ status(k)' = OWNED
          /\ size \in Nat /\ dimension(k)' = size'
          /\ \A a \in DOMAIN RAM : ~ (k =< a /\ a < ChunkEnd(k)) => RAM'[a] = RAM[a]
          /\ \/ \E m \in Nat :
                   /\ m = k + 3 + size /\ m + 3 < ChunkEnd(k) /\ size' = size
                   /\ status(m)' = FREE
                   /\ dimension(m)' = ChunkEnd(k) - m - 3
             \/ k + 3 + size' = ChunkEnd(k)
  BY Takes
<1>2. CASE k + 3 + size' = ChunkEnd(k)
  BY <1>1, <1>2, TakeWholeKeeps
<1>3. CASE \E m \in Nat :
               /\ m = k + 3 + size /\ m + 3 < ChunkEnd(k) /\ size' = size
               /\ status(m)' = FREE
               /\ dimension(m)' = ChunkEnd(k) - m - 3
  <2>1. PICK m \in Nat : /\ m = k + 3 + size /\ m + 3 < ChunkEnd(k) /\ size' = size
                         /\ status(m)' = FREE
                         /\ dimension(m)' = ChunkEnd(k) - m - 3
    BY <1>3
  <2>2. Tiling(S \cup {m})'
    BY <1>1, <2>1, TakeSplitKeeps
  <2>. QED
    BY <2>2
<1>. QED
  BY <1>1, <1>2, <1>3

-----------------------------------------------------------------------------
LEMMA TilingStep == ASSUME FreesStale = FALSE PROVE IInv /\ [Next]_vars => IInv'
<1>. SUFFICES ASSUME IInv, [Next]_vars PROVE IInv'
  OBVIOUS
<1>1. TypeOK /\ TypeOK'
  BY TypeStep DEF IInv
<1>2. PICK S : Tiling(S)
  BY DEF IInv
<1>3. CASE Halloc
  BY <1>1, <1>2, <1>3, HallocKeeps DEF IInv
<1>4. CASE Skip
  BY <1>1, <1>2, <1>4, SkipKeeps DEF IInv
<1>5. CASE Take
  BY <1>1, <1>2, <1>5, TakeKeeps DEF IInv
<1>6. CASE Overflow \/ Return \/ \E p \in pointers : DoubleFree(p)
  <2>1. /\ RAM' = RAM /\ owned' = owned
        /\ heap_op # "hfree" /\ heap_op' \notin {"halloc", "hfree"}
    BY <1>6 DEF Overflow, HallocOverflow, Return, HallocReturn, DoubleFree, HfreeThrows
  <2>. QED
    BY <1>1, <1>2, <2>1, EndKeeps DEF IInv
<1>7. ASSUME NEW p \in pointers, Hfree(p) PROVE IInv'
  BY <1>1, <1>2, <1>7, HfreeKeeps DEF IInv
<1>8. CASE Merge
  BY <1>1, <1>2, <1>8, MergeKeeps DEF IInv
<1>9. CASE Advance
  BY <1>1, <1>2, <1>9, AdvanceKeeps DEF IInv
<1>10. CASE Done
  BY <1>1, <1>2, <1>10, DoneKeeps DEF IInv
<1>11. ASSUME NEW r \in owned, NEW v \in Payloads, Fill(r, v) PROVE IInv'
  BY <1>1, <1>2, <1>11, FillKeeps DEF IInv
<1>12. CASE UNCHANGED vars
  <2>1. Tiling(S)'
    BY <1>2, <1>12
    DEF vars, heap_vars, Tiling, Chain, Marked, Owners, OnChain, Merging, Searching,
        ChunkEnd, Chunk, status, dimension
  <2>. QED
    BY <1>1, <2>1 DEF IInv
<1>. QED
  BY <1>3, <1>4, <1>5, <1>6, <1>7, <1>8, <1>9, <1>10, <1>11, <1>12 DEF Next, Loop

LEMMA AlwaysIInv == ASSUME FreesStale = FALSE PROVE Spec => []IInv
<1>1. Init => IInv
  BY TilingInit
<1>2. IInv /\ [Next]_vars => IInv'
  BY TilingStep
<1>. QED
  BY <1>1, <1>2, PTL DEF Spec

\* In every heap whose program frees no stale pointer the chain of headers is
\* never broken: it covers the heap from heap_start to three bytes past
\* heap_limit, whatever the program stores in its regions, and the chunks marked
\* OWNED are at every step of HALLOC's and HFREE's loops exactly the regions the
\* program owns.
THEOREM ChainCoversHeap == ASSUME FreesStale = FALSE PROVE Spec => []Tiled
<1>1. ASSUME IInv PROVE Tiled
  <2>1. PICK S : Tiling(S)
    BY <1>1 DEF IInv
  <2>2. ChunkStarts = S
    BY <1>1, <2>1, ChainIsChunkStarts DEF IInv, Tiling
  <2>. QED
    BY <2>1, <2>2 DEF Tiling, Chain, Marked, Owners, Tiled, ChainIntact
<1>2. Spec => []IInv
  BY AlwaysIInv
<1>. QED
  BY <1>1, <1>2, PTL

\* In every such heap the pass HFREE makes over the chain merges what can be
\* merged: when no loop runs, no two free chunks are neighbours.
THEOREM FreeChunksAreApart == ASSUME FreesStale = FALSE PROVE Spec => []Coalesced
<1>1. ASSUME IInv PROVE Coalesced
  <2>1. PICK S : Tiling(S)
    BY <1>1 DEF IInv
  <2>2. ChunkStarts = S
    BY <1>1, <2>1, ChainIsChunkStarts DEF IInv, Tiling
  <2>3. \A c \in S \ {HeapEnd} : next_chunk(c) = ChunkEnd(c)
    BY <1>1, <2>1, ChainSteps DEF IInv, Tiling
  <2>4. ASSUME heap_op = "none", NEW c \in S \ {HeapEnd},
               status(c) = FREE, next_chunk(c) # HeapEnd
        PROVE  status(next_chunk(c)) # FREE
    BY <2>1, <2>3, <2>4 DEF Tiling, Merging
  <2>. QED
    BY <2>2, <2>4 DEF Coalesced
<1>2. Spec => []IInv
  BY AlwaysIInv
<1>. QED
  BY <1>1, <1>2, PTL

-----------------------------------------------------------------------------
\* A step of HALLOC or HFREE writes to the chunk it grants, to headers, and to
\* nothing else.
LEMMA StepsLeaveData ==
    ASSUME FreesStale = FALSE, IInv, Loop \/ \E p \in pointers : Hfree(p)
    PROVE  /\ \A r \in owned \cap owned' : \A a \in Payload(r) : RAM'[a] = RAM[a]
           /\ \A a \in DOMAIN RAM \ (heap_start .. (HeapEnd - 1)) : RAM'[a] = RAM[a]
<1>1. TypeOK /\ DOMAIN RAM = 0 .. (RamSize - 1)
  BY DEF IInv, TypeOK
<1>2. PICK S : Tiling(S)
  BY DEF IInv
<1>3. ASSUME NEW r \in owned, NEW a \in Payload(r)
      PROVE  /\ a \in DOMAIN RAM /\ a \in Nat
             /\ \E h \in S \ {HeapEnd} :
                    /\ status(h) = OWNED /\ PointerTo(r) = h + 3
                    /\ h \in Nat /\ ChunkEnd(h) \in Nat /\ h + 3 =< a /\ a < ChunkEnd(h)
  <2>1. PICK h \in S \ {HeapEnd} :
               /\ status(h) = OWNED /\ PointerTo(r) = h + 3
               /\ h \in Nat /\ ChunkEnd(h) \in Nat /\ ChunkEnd(h) =< HeapEnd
               /\ Payload(r) = (h + 3) .. (ChunkEnd(h) - 1)
    BY <1>1, <1>2, OwnedChunk
  <2>. QED
    BY <1>1, <1>3, <2>1, HeapRanges
<1>4. CASE RAM' = RAM
  BY <1>4
<1>5. CASE Take
  <2>1. PICK k \in S \ {HeapEnd} :
            /\ status(k) = FREE /\ k \in Nat /\ ChunkEnd(k) \in Nat
            /\ \A a \in DOMAIN RAM : ~ (k =< a /\ a < ChunkEnd(k)) => RAM'[a] = RAM[a]
    BY <1>1, <1>2, <1>5, Takes
  <2>2. heap_start =< k /\ ChunkEnd(k) =< HeapEnd
    BY <1>1, <1>2, ChainSteps DEF Tiling
  <2>3. ASSUME NEW r \in owned, NEW a \in Payload(r) PROVE RAM'[a] = RAM[a]
    <3>1. PICK h \in S \ {HeapEnd} :
              /\ status(h) = OWNED
              /\ h \in Nat /\ ChunkEnd(h) \in Nat /\ h + 3 =< a /\ a < ChunkEnd(h)
      BY <1>3, <2>3
    <3>2. ChunkEnd(h) =< k \/ ChunkEnd(k) =< h
      BY <1>1, <1>2, <2>1, <3>1, StatusTypes, ChunksApart DEF Tiling
    <3>3. a \in DOMAIN RAM /\ a \in Nat
      BY <1>3, <2>3
    <3>. QED
      BY <2>1, <3>1, <3>2, <3>3
  <2>4. ASSUME NEW a \in DOMAIN RAM \ (heap_start .. (HeapEnd - 1)) PROVE RAM'[a] = RAM[a]
    BY <1>1, <2>1, <2>2, HeapRanges
  <2>. QED
    BY <2>3, <2>4
<1>6. CASE Merge
  <2>1. PICK k \in S \ {HeapEnd}, e \in S \ {HeapEnd} :
            /\ e = ChunkEnd(k) /\ status(k) = FREE
            /\ k \in Nat /\ e \in Nat /\ k + 3 =< e
            /\ \A a \in DOMAIN RAM : a # k /\ a # k + 1 => RAM'[a] = RAM[a]
    BY <1>1, <1>2, <1>6, Merges
  <2>2. heap_start =< k /\ e < HeapEnd
    BY <1>2, ChainBounds, HeapRanges DEF Tiling
  <2>3. ASSUME NEW r \in owned, NEW a \in Payload(r) PROVE RAM'[a] = RAM[a]
    <3>1. PICK h \in S \ {HeapEnd} :
              /\ status(h) = OWNED
              /\ h \in Nat /\ ChunkEnd(h) \in Nat /\ h + 3 =< a /\ a < ChunkEnd(h)
      BY <1>3, <2>3
    <3>2. ChunkEnd(h) =< k \/ e =< h
      BY <1>1, <1>2, <2>1, <3>1, StatusTypes, ChunksApart DEF Tiling
    <3>3. a \in DOMAIN RAM /\ a \in Nat
      BY <1>3, <2>3
    <3>. QED
      BY <2>1, <3>1, <3>2, <3>3
  <2>4. ASSUME NEW a \in DOMAIN RAM \ (heap_start .. (HeapEnd - 1)) PROVE RAM'[a] = RAM[a]
    BY <1>1, <2>1, <2>2, HeapRanges
  <2>. QED
    BY <2>3, <2>4
<1>7. ASSUME NEW p \in pointers, Hfree(p)
      PROVE  /\ \A r \in owned \cap owned' : \A a \in Payload(r) : RAM'[a] = RAM[a]
             /\ \A a \in DOMAIN RAM \ (heap_start .. (HeapEnd - 1)) : RAM'[a] = RAM[a]
  <2>1. PICK k \in S \ {HeapEnd} :
            status(k) = OWNED /\ p = k + 3 /\ RAM' = [RAM EXCEPT ![k + 2] = FREE]
    BY <1>1, <1>2, <1>7, Freeing
  <2>2. /\ heap_start =< k /\ k \in Nat /\ ChunkEnd(k) =< HeapEnd /\ ChunkEnd(k) \in Nat
        /\ k + 3 =< ChunkEnd(k)
    BY <1>1, <1>2, ChainSteps DEF Tiling
  <2>3. ASSUME NEW r \in owned \cap owned', NEW a \in Payload(r) PROVE RAM'[a] = RAM[a]
    <3>1. PICK h \in S \ {HeapEnd} :
              /\ PointerTo(r) = h + 3
              /\ h \in Nat /\ ChunkEnd(h) \in Nat /\ h + 3 =< a /\ a < ChunkEnd(h)
      BY <1>3, <2>3
    <3>2. h # k
      BY <1>7, <2>1, <2>3, <3>1 DEF Hfree
    <3>3. ChunkEnd(h) =< k \/ ChunkEnd(k) =< h
      BY <1>1, <1>2, <3>1, <3>2, ChunksApart DEF Tiling
    <3>4. a \in DOMAIN RAM /\ a \in Nat
      BY <1>3, <2>3
    <3>5. a # k + 2
      BY <2>2, <3>1, <3>3, <3>4
    <3>. QED
      BY <2>1, <3>4, <3>5
  <2>4. ASSUME NEW a \in DOMAIN RAM \ (heap_start .. (HeapEnd - 1)) PROVE RAM'[a] = RAM[a]
    <3>1. a # k + 2
      BY <1>1, <2>2, HeapRanges
    <3>. QED
      BY <2>1, <3>1
  <2>. QED
    BY <2>3, <2>4
<1>8. Skip \/ Overflow \/ Return \/ Advance \/ Done => RAM' = RAM
  BY DEF Skip, HallocSkip, Overflow, HallocOverflow, Return, HallocReturn,
         Advance, HfreeAdvance, Done, HfreeDone
<1>. QED
  BY <1>4, <1>5, <1>6, <1>7, <1>8 DEF Loop

\* HALLOC and HFREE change no byte of a region the program keeps and no byte
\* outside the heap, whatever the heap has been through.
THEOREM DataIsKept == ASSUME FreesStale = FALSE PROVE Spec => DataUntouched
<1>1. IInv /\ [Next]_vars =>
        [Loop \/ (\E p \in pointers : Hfree(p)) =>
             /\ \A r \in owned \cap owned' : \A a \in Payload(r) : RAM'[a] = RAM[a]
             /\ \A a \in DOMAIN RAM \ (heap_start .. (HeapEnd - 1)) : RAM'[a] = RAM[a]
        ]_vars
  BY StepsLeaveData
<1>2. Spec => []IInv
  BY AlwaysIInv
<1>. QED
  BY <1>1, <1>2, PTL DEF Spec, DataUntouched

-----------------------------------------------------------------------------
\* The bytes of a free chunk are free in the abstract allocator.
LEMMA FreeChunkIsHole ==
    ASSUME TypeOK, NEW S, Tiling(S), NEW k \in S \ {HeapEnd}, status(k) = FREE,
           NEW a \in Nat, k =< a, a < ChunkEnd(k)
    PROVE  a \in Regions!Hole
<1>1. a \in heap_start .. (HeapEnd - 1)
  BY ChainSteps, HeapRanges DEF Tiling
<1>2. ASSUME NEW r \in owned PROVE a \notin Regions!Bytes(r)
  <2>1. PICK h \in S \ {HeapEnd} : /\ status(h) = OWNED /\ r.start_address = h
                                   /\ h \in Nat /\ ChunkEnd(h) \in Nat
                                   /\ r.size = ChunkEnd(h) - h
    BY OwnedChunk
  <2>2. ChunkEnd(h) =< k \/ ChunkEnd(k) =< h
    BY <2>1, StatusTypes, ChunksApart DEF Tiling
  <2>3. k \in Nat /\ ChunkEnd(k) \in Nat
    BY ChainSteps DEF Tiling
  <2>4. ~ (h =< a /\ a =< ChunkEnd(h) - 1)
    BY <2>1, <2>2, <2>3
  <2>5. Regions!Bytes(r) = h .. (h + (ChunkEnd(h) - h) - 1)
    BY <2>1 DEF Regions!Bytes
  <2>. QED
    BY <2>1, <2>4, <2>5
<1>. QED
  BY <1>1, <1>2 DEF Regions!Hole

\* A byte that is free in the abstract allocator belongs to a free chunk.
LEMMA HoleIsFreeChunk ==
    ASSUME TypeOK, NEW S, Tiling(S), NEW a \in Regions!Hole
    PROVE  /\ a \in Nat /\ heap_start =< a /\ a < HeapEnd
           /\ \E c \in S \ {HeapEnd} : status(c) = FREE /\ c =< a /\ a < ChunkEnd(c)
           /\ a \in S => status(a) = FREE
<1>1. a \in heap_start .. (HeapEnd - 1)
  BY DEF Regions!Hole
<1>2. ASSUME NEW c \in S \ {HeapEnd}, c =< a, a < ChunkEnd(c) PROVE status(c) = FREE
  <2>1. /\ c \in Nat /\ dimension(c) \in Nat /\ ChunkEnd(c) \in Nat
        /\ ChunkEnd(c) = c + 3 + dimension(c)
    BY ChainSteps DEF Tiling
  <2>2. CASE status(c) = OWNED
    <3>1. Chunk(c) \in owned
      BY <2>2 DEF Tiling, Owners
    <3>2. Regions!Bytes(Chunk(c)) = c .. (c + (3 + dimension(c)) - 1)
      BY DEF Regions!Bytes, Chunk, heap_header_block_size
    <3>3. a \in Regions!Bytes(Chunk(c))
      BY <1>1, <1>2, <2>1, <3>2, HeapRanges
    <3>. QED
      BY <3>1, <3>3 DEF Regions!Hole
  <2>. QED
    BY <2>2 DEF Tiling, Marked
<1>3. PICK c \in S \ {HeapEnd} : c =< a /\ a < ChunkEnd(c)
  BY <1>1, ChainCovers DEF Tiling
<1>4. a \in S => status(a) = FREE
  <2>. SUFFICES ASSUME a \in S PROVE status(a) = FREE
    OBVIOUS
  <2>1. a # HeapEnd
    BY <1>1, HeapRanges
  <2>2. a =< a /\ a < ChunkEnd(a)
    BY <2>1, ChainSteps DEF Tiling
  <2>. QED
    BY <1>2, <2>1, <2>2
<1>. QED
  BY <1>1, <1>2, <1>3, <1>4, HeapRanges

\* While HALLOC looks for a chunk, a hole of the abstract allocator is no larger
\* than the free chunk it begins in.
LEMMA HoleFitsChunk ==
    ASSUME TypeOK, NEW S, Tiling(S), heap_op # "hfree",
           NEW b, NEW n \in Nat, Regions!Fits(b, n + 3), b \in heap_start .. (HeapEnd - 1)
    PROVE  \E c \in S \ {HeapEnd} :
               status(c) = FREE /\ c \in Nat /\ c =< b /\ n =< dimension(c)
<1>1. b \in Nat
  BY HeapRanges
<1>2. \A a \in b .. (b + (n + 3) - 1) : a \in Regions!Hole
  BY DEF Regions!Fits
<1>3. b \in Regions!Hole
  BY <1>1, <1>2
<1>4. PICK c \in S \ {HeapEnd} : status(c) = FREE /\ c =< b /\ b < ChunkEnd(c)
  BY <1>3, HoleIsFreeChunk
<1>5. /\ c \in Nat /\ dimension(c) \in Nat /\ ChunkEnd(c) = c + 3 + dimension(c)
      /\ ChunkEnd(c) \in S /\ ChunkEnd(c) \in Nat
  BY ChainSteps DEF Tiling
<1>6. b + n + 3 =< ChunkEnd(c)
  <2>1. CASE ChunkEnd(c) < b + n + 3
    <3>1. ChunkEnd(c) \in b .. (b + (n + 3) - 1)
      BY <1>1, <1>4, <1>5, <2>1
    <3>2. ChunkEnd(c) \in Regions!Hole
      BY <1>2, <3>1
    <3>3. status(ChunkEnd(c)) = FREE /\ ChunkEnd(c) # HeapEnd
      BY <1>5, <3>2, HoleIsFreeChunk
    <3>. QED
      BY <1>4, <3>3 DEF Tiling, Merging
  <2>. QED
    BY <1>1, <1>5, <2>1
<1>7. n =< dimension(c)
  BY <1>1, <1>4, <1>5, <1>6
<1>. QED
  BY <1>4, <1>5, <1>7

\* HALLOC grants the lowest hole that the request and a header fit in.
LEMMA TakeGrants ==
    ASSUME IInv, Take
    PROVE  \E n \in Sizes : Regions!Grant(n + heap_header_block_size)
<1>1. TypeOK
  BY DEF IInv
<1>2. PICK S : Tiling(S)
  BY DEF IInv
<1>3. PICK k \in S \ {HeapEnd} :
          /\ k = cursor /\ status(k) = FREE
          /\ k \in Nat /\ ChunkEnd(k) \in Nat
          /\ size \in Nat /\ k + 3 + size =< ChunkEnd(k)
          /\ \/ \E m \in Nat : /\ m = k + 3 + size /\ m + 3 < ChunkEnd(k) /\ size' = size
             \/ /\ ChunkEnd(k) =< k + 3 + size + 3
                /\ k + 3 + size' = ChunkEnd(k)
  BY <1>1, <1>2, Takes
<1>4. /\ heap_op = "halloc" /\ size \in Sizes
      /\ owned' = owned \cup {[start_address |-> k, size |-> 3 + size']}
      /\ returned' = k
  BY <1>2, <1>3 DEF Take, HallocTake, Tiling, Searching, heap_header_block_size
<1>5. size' \in Nat
  <2>1. TypeOK'
    BY <1>1, TypeStep DEF Next, Loop
  <2>. QED
    BY <2>1, WordRanges DEF TypeOK, MemAddr
<1>. DEFINE extra == size' - size
<1>6. /\ size =< size' /\ size' =< size + 3 /\ k + 3 + size' =< ChunkEnd(k)
      /\ extra \in 0 .. 3 /\ size + 3 + extra = 3 + size'
  <2>. DEFINE granted == size'
  <2>1. granted \in Nat /\ (granted = size \/ (/\ ChunkEnd(k) =< k + 3 + size + 3
                                               /\ k + 3 + granted = ChunkEnd(k)))
    BY <1>3, <1>5
  <2>. HIDE DEF granted
  <2>2. size =< granted /\ granted =< size + 3 /\ k + 3 + granted =< ChunkEnd(k)
    BY <1>3, <2>1
  <2>3. granted - size \in 0 .. 3 /\ size + 3 + (granted - size) = 3 + granted
    BY <1>3, <2>1, <2>2
  <2>. QED
    BY <2>2, <2>3 DEF granted
<1>7. k \in heap_start .. (HeapEnd - 1)
  BY <1>3, <1>2, ChainBounds, HeapRanges DEF Tiling
<1>8. Regions!Fits(k, size + 3 + extra)
  <2>1. ASSUME NEW a \in k .. (k + (3 + size') - 1) PROVE a \in Regions!Hole
    <3>. DEFINE granted == size'
    <3>1. granted \in Nat /\ k + 3 + granted =< ChunkEnd(k) /\ a \in k .. (k + (3 + granted) - 1)
      BY <1>5, <1>6
    <3>. HIDE DEF granted
    <3>2. a \in Nat /\ k =< a /\ a < ChunkEnd(k)
      BY <1>3, <3>1
    <3>. QED
      BY <1>1, <1>2, <1>3, <3>2, FreeChunkIsHole
  <2>. HIDE DEF extra
  <2>. QED
    BY <1>6, <2>1 DEF Regions!Fits
<1>9. ASSUME NEW b \in heap_start .. (HeapEnd - 1), b < k, Regions!Fits(b, size + 3)
      PROVE  FALSE
  <2>1. PICK c \in S \ {HeapEnd} :
            status(c) = FREE /\ c \in Nat /\ c =< b /\ size =< dimension(c)
    BY <1>1, <1>2, <1>3, <1>4, <1>9, HoleFitsChunk
  <2>2. b \in Nat
    BY HeapRanges
  <2>3. c < cursor
    BY <1>3, <1>9, <2>1, <2>2
  <2>4. dimension(c) < size
    BY <1>2, <1>4, <2>1, <2>3 DEF Tiling, Searching
  <2>5. dimension(c) \in Nat
    BY <1>1, <1>2, ChainSteps DEF Tiling
  <2>. QED
    BY <1>3, <2>1, <2>4, <2>5
<1>. HIDE DEF extra
<1>10. Regions!Grant(size + 3)
  BY <1>4, <1>6, <1>7, <1>8, <1>9 DEF Regions!Grant, heap_header_block_size
<1>. QED
  BY <1>4, <1>10 DEF heap_header_block_size

\* HALLOC throws only if no hole is large enough.
LEMMA OverflowRefuses ==
    ASSUME IInv, Overflow
    PROVE  \E n \in Sizes : Regions!Refuse(n + heap_header_block_size)
<1>1. TypeOK
  BY DEF IInv
<1>2. PICK S : Tiling(S)
  BY DEF IInv
<1>3. /\ heap_op = "halloc" /\ size \in Sizes /\ cursor >= heap_limit
      /\ owned' = owned /\ returned' = -1
  BY <1>2 DEF Overflow, HallocOverflow, Tiling, Searching, Failed
<1>4. size \in Nat /\ cursor \in Nat
  BY <1>1, WordRanges DEF TypeOK, MemAddr
<1>5. ASSUME NEW b \in heap_start .. (HeapEnd - 1), Regions!Fits(b, size + 3)
      PROVE  FALSE
  <2>1. PICK c \in S \ {HeapEnd} :
            status(c) = FREE /\ c \in Nat /\ c =< b /\ size =< dimension(c)
    BY <1>1, <1>2, <1>3, <1>4, <1>5, HoleFitsChunk
  <2>2. c < cursor /\ dimension(c) \in Nat
    BY <1>1, <1>2, <1>3, <1>4, ChainSteps, HeapRanges DEF Tiling
  <2>3. dimension(c) < size
    BY <1>2, <1>3, <2>1, <2>2 DEF Tiling, Searching
  <2>. QED
    BY <1>4, <2>1, <2>2, <2>3
<1>6. Regions!Refuse(size + 3)
  BY <1>3, <1>5 DEF Regions!Refuse, Regions!Failed
<1>. QED
  BY <1>3, <1>6 DEF heap_header_block_size

\* HFREE gives back one region.
LEMMA HfreeReleases ==
    ASSUME FreesStale = FALSE, IInv, NEW p \in pointers, Hfree(p)
    PROVE  \E r \in owned : Regions!Release(r)
<1>1. TypeOK
  BY DEF IInv
<1>2. PICK S : Tiling(S)
  BY DEF IInv
<1>3. owned' = {x \in owned : PointerTo(x) # p} /\ returned' = returned
  BY DEF Hfree
<1>4. PICK h \in S \ {HeapEnd} : status(h) = OWNED /\ p = h + 3
  BY <1>1, <1>2, Freeing
<1>5. h \in Nat /\ Chunk(h) \in owned
  BY <1>2, <1>4, ChainBounds DEF Tiling, Owners
<1>6. ASSUME NEW x \in owned PROVE PointerTo(x) = p <=> x = Chunk(h)
  <2>1. PICK c \in S \ {HeapEnd} : x = Chunk(c) /\ PointerTo(x) = c + 3 /\ c \in Nat
    BY <1>1, <1>2, OwnedChunk
  <2>2. PointerTo(Chunk(h)) = h + 3
    BY DEF PointerTo, Chunk, heap_header_block_size
  <2>. QED
    BY <1>4, <1>5, <2>1, <2>2
<1>7. owned' = owned \ {Chunk(h)}
  BY <1>3, <1>6
<1>. QED
  BY <1>3, <1>5, <1>7 DEF Regions!Release

\* The chain of headers, whose loops write a few bytes at a time, implements the
\* first-fit allocator of regions: a grant takes the lowest hole that the request
\* and its header fit in and at most three bytes more, "Heap overflow!" is thrown
\* only when no hole is large enough, and HFREE gives back one region.
THEOREM HeapRefinesRegions == ASSUME FreesStale = FALSE PROVE Spec => ImplementsRegions
<1>1. Init => Regions!Init
  BY DEF Init, Failed, Regions!Init, Regions!Failed
<1>2. IInv /\ [Next]_vars => [Regions!Next]_<<owned, returned>>
  <2>. SUFFICES ASSUME IInv, [Next]_vars PROVE Regions!Next \/ UNCHANGED <<owned, returned>>
    OBVIOUS
  <2>1. CASE Take
    BY <2>1, TakeGrants DEF Regions!Next
  <2>2. CASE Overflow
    BY <2>2, OverflowRefuses DEF Regions!Next
  <2>3. ASSUME NEW p \in pointers, Hfree(p) PROVE Regions!Next
    BY <2>3, HfreeReleases DEF Regions!Next
  <2>4. CASE \/ Halloc \/ Skip \/ Return \/ Merge \/ Advance \/ Done
             \/ \E p \in pointers : DoubleFree(p)
             \/ \E r \in owned, v \in Payloads : Fill(r, v)
             \/ UNCHANGED vars
    BY <2>4 DEF Halloc, Skip, Return, Merge, Advance, Done, DoubleFree, Fill, vars
  <2>. QED
    BY <2>1, <2>2, <2>3, <2>4 DEF Next, Loop
<1>3. Spec => []IInv
  BY AlwaysIInv
<1>. QED
  BY <1>1, <1>2, <1>3, PTL DEF Spec, ImplementsRegions, Regions!Spec
=============================================================================

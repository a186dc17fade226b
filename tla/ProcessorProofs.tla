-------------------------- MODULE ProcessorProofs --------------------------
(***************************************************************************)
(* Theorems about the processor, for every memory layout, every program    *)
(* and every input: the types are kept, and the stack pointer stays in the *)
(* stack while the program runs.                                           *)
(***************************************************************************)
EXTENDS Processor, CommonProofs, SequenceTheorems

\* What is written to a process's heap goes through the chunks that ChunkStarts
\* follows; these lemmas are about that chain.
Ram == [0 .. (RamSize - 1) -> MemCell]

\* The heap lies in RAM, and every address of RAM is 16-bit.
LEMMA HeapRanges ==
    /\ RamSize \in Nat /\ heap_start \in Nat /\ heap_limit \in Nat /\ HeapEnd \in Nat
    /\ heap_start < heap_limit /\ HeapEnd = heap_limit + 3
    /\ HeapEnd < RamSize /\ RamSize =< AddrRange
BY HeapAssumption DEF HeapEnd, heap_header_block_size

\* A header that lies in RAM holds an address.
LEMMA ChunkDimension ==
    ASSUME RAM \in Ram, NEW c \in Nat, c + 1 < RamSize
    PROVE  dimension(c) \in MemAddr /\ dimension(c) \in Nat
<1>1. c \in 0 .. (RamSize - 1) /\ c + 1 \in 0 .. (RamSize - 1)
  BY HeapRanges
<1>2. RAM[c] \in MemCell /\ RAM[c + 1] \in MemCell
  BY <1>1 DEF Ram
<1>3. dimension(c) \in MemAddr
  BY <1>2, JoinType DEF dimension
<1>. QED
  BY <1>3, WordRanges DEF MemAddr

\* No address wraps where the definition of ChunkStarts goes on.
LEMMA LeadsOn ==
    ASSUME RAM \in Ram, NEW c \in 0 .. HeapEnd, Leads(c)
    PROVE  /\ next_chunk(c) = ChunkEnd(c) /\ ChunkEnd(c) \in 0 .. HeapEnd
           /\ c < ChunkEnd(c)
<1>1. c \in Nat /\ c + 1 < RamSize /\ HeapEnd \in Nat
  BY HeapRanges DEF Leads
<1>2. dimension(c) \in Nat /\ ChunkEnd(c) = c + 3 + dimension(c)
  BY <1>1, ChunkDimension DEF ChunkEnd, heap_header_block_size
<1>3. ChunkEnd(c) \in Nat /\ ChunkEnd(c) =< HeapEnd /\ c < ChunkEnd(c)
  BY <1>1, <1>2 DEF Leads
<1>4. ChunkEnd(c) \in MemAddr
  BY <1>3, HeapRanges, WordRanges DEF MemAddr
<1>5. next_chunk(c) = ChunkEnd(c)
  BY <1>4, AddrOfAddr DEF next_chunk, ChunkEnd
<1>. QED
  BY <1>1, <1>3, <1>5

\* What the definition of ChunkStarts says of an address, given what it says of
\* the others.
Follows(c, from) ==
    {c} \cup IF Leads(c) THEN from[next_chunk(c)] ELSE {}

\* The recursive definition of ChunkStarts has a solution.
LEMMA ChunkStartsUnfolds ==
    ASSUME RAM \in Ram
    PROVE
    \E from : /\ from = [c \in 0 .. HeapEnd |-> Follows(c, from)]
              /\ ChunkStarts = from[heap_start]
<1>. DEFINE leading == {c \in 0 .. HeapEnd : Leads(c)}
            next == [c \in leading |-> next_chunk(c)]
            Solves(f) == f = [c \in 0 .. HeapEnd |-> Follows(c, f)]
<1>1. next \in [leading -> 0 .. HeapEnd]
  <2>1. ASSUME NEW c \in leading PROVE next_chunk(c) \in 0 .. HeapEnd
    BY <2>1, LeadsOn
  <2>. QED
    BY <2>1
<1>2. PICK f : Reachable(f, HeapEnd, leading, next)
  <2>. HIDE DEF leading, next
  <2>1. HeapEnd \in Nat /\ leading \in SUBSET (0 .. HeapEnd)
    BY HeapRanges DEF leading
  <2>. QED
    BY <1>1, <2>1, WayUnfolds
<1>3. Solves(f)
  <2>1. \A c \in 0 .. HeapEnd :
           Follows(c, f) = {c} \cup IF c \in leading THEN f[next[c]] ELSE {}
    BY DEF Follows
  <2>. HIDE DEF leading, next
  <2>. QED
    BY <1>2, <2>1 DEF Reachable
<1>. DEFINE from == CHOOSE g : Solves(g)
<1>4. Solves(from)
  <2>. HIDE DEF Solves
  <2>. QED
    BY <1>3
<1>5. ChunkStarts = from[heap_start]
  BY Zenon DEF ChunkStarts, Follows
<1>. QED
  <2>. HIDE DEF from
  <2>. QED
    BY <1>4, <1>5

\* On an intact chain every chunk ends in the heap, where the next one starts.
LEMMA IntactChain ==
    ASSUME RAM \in Ram, ChainIntact
    PROVE  /\ heap_start \in ChunkStarts
           /\ \A c \in ChunkStarts :
                 /\ c \in Nat /\ heap_start =< c /\ c =< HeapEnd
                 /\ c < HeapEnd =>
                       /\ ChunkEnd(c) =< HeapEnd
                       /\ next_chunk(c) = ChunkEnd(c) /\ next_chunk(c) \in ChunkStarts
<1>1. PICK from : /\ from = [c \in 0 .. HeapEnd |-> Follows(c, from)]
                  /\ ChunkStarts = from[heap_start]
  BY ChunkStartsUnfolds
<1>2. \A d \in 0 .. HeapEnd : from[d] = Follows(d, from)
  BY <1>1
<1>3. \A d \in 0 .. HeapEnd : d \in from[d]
  BY <1>2 DEF Follows
<1>. DEFINE Above(d) == \A c \in from[d] : c \in d .. HeapEnd
            Unbroken(d) == HeapEnd \in from[d] =>
                \A c \in from[d] : c < HeapEnd => Leads(c) /\ next_chunk(c) \in from[d]
            wrong == {d \in 0 .. HeapEnd : ~ (Above(d) /\ Unbroken(d))}
<1>4. wrong = {}
  <2>. SUFFICES ASSUME wrong # {} PROVE FALSE
    OBVIOUS
  <2>1. PICK m \in wrong : \A k \in wrong : k =< m
    <3>. wrong \in SUBSET (0 .. HeapEnd)
      OBVIOUS
    <3>. HIDE DEF wrong
    <3>. QED
      BY HeapRanges, GreatestOfBounded
  <2>2. m \in 0 .. HeapEnd /\ m \in Nat /\ HeapEnd \in Nat
    BY HeapRanges
  <2>3. CASE Leads(m)
    <3>1. PICK n \in 0 .. HeapEnd : n = next_chunk(m) /\ m < n
      BY <2>2, <2>3, LeadsOn
    <3>2. from[m] = {m} \cup from[n]
      BY <1>2, <2>2, <2>3, <3>1 DEF Follows
    <3>3. Above(n) /\ Unbroken(n)
      <4>1. n \notin wrong
        BY <2>1, <2>2, <3>1
      <4>. QED
        BY <4>1
    <3>4. Above(m)
      <4>1. ASSUME NEW c \in from[m] PROVE c \in m .. HeapEnd
        <5>1. CASE c = m
          BY <5>1, <2>2
        <5>2. CASE c \in from[n]
          BY <5>2, <2>2, <3>1, <3>3
        <5>. QED
          BY <3>2, <5>1, <5>2
      <4>. QED
        BY <4>1
    <3>5. Unbroken(m)
      <4>1. ASSUME HeapEnd \in from[m], NEW c \in from[m], c < HeapEnd
            PROVE  Leads(c) /\ next_chunk(c) \in from[m]
        <5>1. HeapEnd \in from[n]
          BY <2>2, <2>3, <3>2, <4>1 DEF Leads
        <5>2. CASE c = m
          BY <1>3, <2>3, <3>1, <3>2, <5>2
        <5>3. CASE c \in from[n]
          BY <3>2, <3>3, <4>1, <5>1, <5>3
        <5>. QED
          BY <3>2, <4>1, <5>2, <5>3
      <4>. QED
        BY <4>1
    <3>. QED
      BY <2>1, <3>4, <3>5
  <2>4. CASE ~ Leads(m)
    <3>1. from[m] = {m}
      BY <1>2, <2>2, <2>4 DEF Follows
    <3>2. Above(m)
      BY <2>2, <3>1
    <3>3. Unbroken(m)
      <4>1. ASSUME HeapEnd \in {m}, NEW c \in {m}, c < HeapEnd PROVE FALSE
        BY <2>2, <4>1
      <4>. QED
        BY <3>1, <4>1
    <3>. QED
      BY <2>1, <3>2, <3>3
  <2>. QED
    BY <2>3, <2>4
<1>5. heap_start \in 0 .. HeapEnd
  BY HeapRanges
<1>6. Above(heap_start) /\ Unbroken(heap_start)
  <2>1. heap_start \notin wrong
    BY <1>4
  <2>. QED
    BY <1>5, <2>1
<1>7. HeapEnd \in from[heap_start]
  BY <1>1 DEF ChainIntact
<1>8. ASSUME NEW c \in ChunkStarts
      PROVE  /\ c \in Nat /\ heap_start =< c /\ c =< HeapEnd
             /\ c < HeapEnd =>
                   /\ ChunkEnd(c) =< HeapEnd
                   /\ next_chunk(c) = ChunkEnd(c) /\ next_chunk(c) \in ChunkStarts
  <2>1. c \in heap_start .. HeapEnd
    BY <1>1, <1>6
  <2>2. c \in 0 .. HeapEnd
    BY <2>1, HeapRanges
  <2>3. c < HeapEnd => Leads(c) /\ next_chunk(c) \in ChunkStarts
    BY <1>1, <1>6, <1>7
  <2>. QED
    BY <2>1, <2>2, <2>3, HeapRanges, LeadsOn DEF Leads
<1>. QED
  BY <1>1, <1>3, <1>5, <1>8

-----------------------------------------------------------------------------
\* As long as exec has not thrown, the stack's depth is the number of bytes
\* pushed and not popped: what makes a pop find the bytes it takes away.
DepthIsCounted ==
    outcome \in {"exec", "finished"} => Len(pushed) = stack_top - SP

\* The inductive invariant.  StackInBounds is not inductive alone (a subtraction
\* from SP must not wrap, which the bounds exclude, and a pop must shorten
\* `pushed`, which the depth says it can), nor is TypeOK.
IInv == TypeOK /\ StackInBounds /\ DepthIsCounted

Outcomes == {"exec", "finished", "thrown", "undefined"}
Places == [space : {"registers"}, at : Registers]
              \cup [space : {"RAM"}, at : 0 .. (RamSize - 1)]

-----------------------------------------------------------------------------
(* The layout and the types of what an instruction reads. *)

\* The layout of memory, as plain inequalities.
LEMMA Layout ==
    /\ RamSize \in Nat /\ RamSize =< AddrRange
    /\ first_sector \in Nat /\ first_sector + 2 =< heap_start
    /\ heap_start \in Nat /\ heap_start + 5 < RamSize /\ heap_start < heap_limit
    /\ heap_limit \in Nat /\ heap_limit + 3 < RamSize /\ 2 =< heap_limit
    /\ heap_limit =< stack_top /\ stack_top \in Nat /\ stack_top < RamSize
    /\ FbSize \in Nat /\ FbSize < RamSize
    /\ RegCount \in Nat
  BY ProcessorAssumption, HeapAssumption, WordRanges DEF gui_byte

\* The addresses of the layout are 16-bit addresses.
LEMMA LayoutTypes ==
    /\ heap_start \in MemAddr /\ first_sector \in MemAddr /\ stack_top \in MemAddr
    /\ \A n \in 0 .. RamSize - 1 : n \in MemAddr /\ Addr(n) = n
    /\ 0 \in MemCell /\ 1 \in MemCell /\ 0 \in MemAddr
  <1>1. \A n \in 0 .. RamSize - 1 : n \in MemAddr
    BY Layout, WordRanges DEF MemAddr
  <1>2. heap_start \in MemAddr /\ first_sector \in MemAddr /\ stack_top \in MemAddr
    BY Layout, WordRanges DEF MemAddr
  <1>3. 0 \in MemCell /\ 1 \in MemCell /\ 0 \in MemAddr
    BY WordRanges DEF MemCell, MemAddr
  <1> QED
    BY <1>1, <1>2, <1>3, AddrOfAddr

\* A byte of RAM is a byte.
LEMMA RamCell ==
    ASSUME RAM \in Ram, NEW a \in 0 .. (RamSize - 1)
    PROVE  RAM[a] \in MemCell /\ RAM[a] \in MemAddr
  BY CellIsAddr DEF Ram

\* An argument that ends in RAM is fetched with its types right, and at most
\* three bytes on.
LEMMA FetchType ==
    ASSUME RAM \in Ram, NEW pc \in Nat, pc + 2 < RamSize
    PROVE  /\ fetch_argument(pc) \in RawArgument
           /\ fetch_argument(pc).next =< pc + 3
  <1> DEFINE type == RAM[pc]
  <1>1. type \in MemCell
    BY RamCell, Layout
  <1>2. Addr(pc + 1) = pc + 1 /\ pc + 1 \in 0 .. (RamSize - 1) /\ pc + 2 \in 0 .. (RamSize - 1)
    BY Layout, LayoutTypes
  <1>3. RAM[pc + 1] \in MemCell /\ RAM[pc + 1] \in MemAddr /\ RAM[pc + 2] \in MemCell
    BY <1>2, RamCell
  <1>4. Join(RAM[pc + 1], RAM[pc + 2]) \in MemAddr
    BY <1>3, JoinType
  <1>5. Addr(pc + 2) = pc + 2 /\ pc + 2 \in MemAddr /\ pc + 1 \in MemAddr
    BY <1>2, LayoutTypes
  <1>6. Addr(pc + 3) \in MemAddr /\ Addr(pc + 3) =< pc + 3
    <2>1. Addr(pc + 3) \in MemAddr
      BY ConversionTypes
    <2>2. CASE pc + 3 \in MemAddr
      BY <2>1, <2>2, AddrOfAddr
    <2>3. CASE pc + 3 \notin MemAddr
      BY <2>1, <2>3, WordRanges DEF MemAddr
    <2> QED
      BY <2>2, <2>3, <2>1
  <1>7. 0 \in MemAddr
    BY LayoutTypes
  <1>8. CASE type \in Wide \cup {NUMBER_16}
    <2>1. fetch_argument(pc) =
              [type |-> type, value |-> Join(RAM[pc + 1], RAM[pc + 2]), next |-> Addr(pc + 3)]
      BY <1>2, <1>8
      DEF fetch_argument, Wide, NUMBER, REGISTER, ADDRESS, INDIRECT_REG, INDIRECT_MEM,
          INDIRECT_LBL, NUMBER_16
    <2> QED
      BY <2>1, <1>1, <1>4, <1>6 DEF RawArgument
  <1>9. CASE type \in {REGISTER, INDIRECT_REG, NUMBER}
    <2>1. fetch_argument(pc) = [type |-> type, value |-> RAM[pc + 1], next |-> pc + 2]
      BY <1>2, <1>5, <1>9
      DEF fetch_argument, Wide, NUMBER, REGISTER, ADDRESS, INDIRECT_REG, INDIRECT_MEM,
          INDIRECT_LBL, NUMBER_16
    <2> QED
      BY <2>1, <1>1, <1>3, <1>5 DEF RawArgument
  <1>10. CASE type \notin Wide \cup {NUMBER_16} \cup {REGISTER, INDIRECT_REG, NUMBER}
    <2>1. fetch_argument(pc) = [type |-> type, value |-> 0, next |-> pc + 1]
      BY <1>2, <1>10 DEF fetch_argument
    <2> QED
      BY <2>1, <1>1, <1>5, <1>7 DEF RawArgument
  <1> QED
    BY <1>8, <1>9, <1>10

\* Both arguments of an instruction have their types, and PC moves over them.
LEMMA ArgumentTypes ==
    ASSUME TypeOK, NEW op, Executing(op)
    PROVE  /\ first \in RawArgument /\ second \in RawArgument
           /\ Addr(PC + 1) \in MemAddr
           /\ first.next \in MemAddr /\ second.next \in MemAddr
  <1>1. RAM \in Ram /\ PC \in Nat /\ PC < heap_start
    BY DEF TypeOK, Ram, MemAddr, Executing, last_code_sector
  <1>2. Addr(PC + 1) = PC + 1 /\ PC + 1 \in MemAddr
    BY <1>1, Layout, LayoutTypes
  <1>3. first \in RawArgument /\ first.next =< PC + 4
    BY <1>1, <1>2, Layout, FetchType DEF first
  <1>4. first.next \in MemAddr /\ first.next \in Nat
    BY <1>3, WordRanges DEF RawArgument, MemAddr
  <1>5. second \in RawArgument
    BY <1>1, <1>3, <1>4, Layout, FetchType DEF second
  <1> QED
    BY <1>2, <1>3, <1>4, <1>5 DEF RawArgument

\* Using a place comes to one of three things.
LEMMA UseOutcomes ==
    ASSUME NEW x
    PROVE  /\ Use(resolve_writeable_arg(x)) \in Outcomes
           /\ \A lits : UseValue(x, lits) \in Outcomes
  BY DEF Use, UseValue, resolve_writeable_arg, Place, Outside, Outcomes

\* A place that can be used is a register or a byte of RAM.
LEMMA PlaceType ==
    ASSUME TypeOK, NEW x \in RawArgument, Use(resolve_writeable_arg(x)) = "exec"
    PROVE  resolve_writeable_arg(x) \in Places
  <1> DEFINE addr == Addr(x.value + first_sector)
  <1>1. x.value \in Nat /\ x.value \in MemAddr
    BY WordRanges DEF RawArgument, MemAddr
  <1>2. addr \in MemAddr /\ addr \in Nat
    BY <1>1, Layout, ConversionTypes, WordRanges DEF MemAddr
  <1>3. CASE x.type = REGISTER
    <2>1. resolve_writeable_arg(x) = Place("registers", x.value - 1)
      BY <1>3 DEF resolve_writeable_arg, REGISTER, ADDRESS, INDIRECT_MEM, INDIRECT_LBL,
                  INDIRECT_REG
    <2>2. x.value - 1 \in Registers
      BY <2>1 DEF Use, Place
    <2> QED
      BY <2>1, <2>2 DEF Place, Places
  <1>4. CASE x.type \in {ADDRESS, INDIRECT_MEM}
    <2>1. resolve_writeable_arg(x) = Place("RAM", addr)
      BY <1>4 DEF resolve_writeable_arg, REGISTER, ADDRESS, INDIRECT_MEM, INDIRECT_LBL,
                  INDIRECT_REG
    <2>2. addr < RamSize
      BY <2>1 DEF Use, Place
    <2> HIDE DEF addr
    <2> QED
      BY <2>1, <2>2, <1>2, Layout DEF Place, Places
  <1>5. CASE x.type = INDIRECT_LBL
    <2> DEFINE target == first_sector + Join(RAM[addr], RAM[addr + 1])
    <2>1. resolve_writeable_arg(x) =
              IF addr + 1 < RamSize THEN Place("RAM", target) ELSE Outside
      BY <1>5 DEF resolve_writeable_arg, REGISTER, ADDRESS, INDIRECT_MEM, INDIRECT_LBL,
                  INDIRECT_REG
    <2>2. addr + 1 < RamSize /\ target < RamSize
      BY <2>1, Layout DEF Use, Place, Outside
    <2>3. RAM[addr] \in MemCell /\ RAM[addr + 1] \in MemCell
      BY <2>2, <1>2, Layout DEF TypeOK
    <2>4. target \in Nat
      <3>1. Join(RAM[addr], RAM[addr + 1]) \in MemAddr
        BY <2>3, JoinType
      <3>2. first_sector \in Nat
        BY Layout
      <3> HIDE DEF addr
      <3> QED
        BY <3>1, <3>2, WordRanges DEF MemAddr
    <2> HIDE DEF addr, target
    <2> QED
      BY <2>1, <2>2, <2>4, Layout DEF Place, Places
  <1>6. CASE x.type = INDIRECT_REG
    <2> DEFINE target == first_sector + registers[x.value - 1]
    <2>1. resolve_writeable_arg(x) =
              IF x.value - 1 \in Registers THEN Place("RAM", target) ELSE Outside
      BY <1>6 DEF resolve_writeable_arg, REGISTER, ADDRESS, INDIRECT_MEM, INDIRECT_LBL,
                  INDIRECT_REG
    <2>2. x.value - 1 \in Registers /\ target < RamSize
      BY <2>1, Layout DEF Use, Place, Outside
    <2>3. target \in Nat
      <3>1. registers[x.value - 1] \in MemCell
        BY <2>2 DEF TypeOK
      <3>2. registers[x.value - 1] \in Nat
        BY <3>1, WordRanges DEF MemCell
      <3>3. first_sector \in Nat
        BY Layout
      <3> QED
        BY <3>2, <3>3
    <2> HIDE DEF target
    <2> QED
      BY <2>1, <2>2, <2>3, Layout DEF Place, Places
  <1>7. CASE x.type \notin {REGISTER, ADDRESS, INDIRECT_MEM, INDIRECT_LBL, INDIRECT_REG}
    <2>1. resolve_writeable_arg(x) = Place("none", 0)
      BY <1>7 DEF resolve_writeable_arg
    <2> QED
      BY <2>1 DEF Use, Place
  <1> QED
    BY <1>3, <1>4, <1>5, <1>6, <1>7

\* A place holds a byte.
LEMMA CellAtType ==
    ASSUME TypeOK, NEW p \in Places
    PROVE  CellAt(p) \in MemCell
  BY DEF TypeOK, Places, CellAt

\* A value that can be used is an address, and an operand always a byte.
LEMMA ValueType ==
    ASSUME TypeOK, NEW x \in RawArgument, NEW lits, UseValue(x, lits) = "exec"
    PROVE  Value(x, lits) \in MemAddr
  <1>1. CASE x.type \in lits
    BY <1>1 DEF Value, RawArgument
  <1>2. CASE x.type \notin lits
    <2>1. CellAt(resolve_writeable_arg(x)) \in MemCell
      BY <1>2, PlaceType, CellAtType DEF UseValue
    <2> QED
      BY <2>1, <1>2, CellIsAddr DEF Value
  <1> QED
    BY <1>1, <1>2

\* An operand is a byte.
LEMMA OperandType ==
    ASSUME TypeOK, NEW x \in RawArgument, UseValue(x, {NUMBER}) = "exec"
    PROVE  Operand(x) \in MemCell
  <1>1. Value(x, {NUMBER}) \in Int
    BY ValueType, WordRanges DEF MemAddr
  <1> QED
    BY <1>1, ConversionTypes DEF Operand

-----------------------------------------------------------------------------
(* What the steps do to RAM, the registers and the ghost of the stack.        *)

\* The part of the invariant that an instruction's effects are about.
DataType ==
    /\ RAM \in Ram
    /\ registers \in [Registers -> MemCell]
    /\ pushed \in Seq(MemCell)

\* The rest of the type invariant, but for the stack pointer.
ControlType ==
    /\ flags \in [zero : BOOLEAN, sign : BOOLEAN]
    /\ PC \in MemAddr
    /\ running \in BOOLEAN
    /\ outcome \in Outcomes
    /\ heap_op \in HeapOps /\ cursor \in MemAddr /\ size \in MemAddr
    /\ dest \in RawArgument
    /\ compared \in MemCell \X MemCell

\* TypeOK is made of these parts.
LEMMA TypeParts == TypeOK <=> DataType /\ ControlType /\ SP \in MemAddr
  BY DEF TypeOK, DataType, ControlType, Ram, Outcomes

\* A step that leaves the stack's depth alone keeps the invariant if it keeps
\* the types.
LEMMA Steady ==
    ASSUME IInv, outcome = "exec", DataType', ControlType', SP' = SP,
           Len(pushed') = Len(pushed)
    PROVE  IInv'
  <1>1. TypeOK'
    BY DEF IInv, TypeOK, DataType, ControlType, Ram, Outcomes
  <1>2. StackInBounds' /\ DepthIsCounted'
    BY DEF IInv, StackInBounds, DepthIsCounted
  <1> QED
    BY <1>1, <1>2 DEF IInv

\* The bytes of the stack, one overwritten, are as many bytes.
LEMMA OverwrittenType ==
    ASSUME pushed \in Seq(MemCell), NEW a, NEW v \in MemCell
    PROVE  Overwritten(a, v) \in Seq(MemCell) /\ Len(Overwritten(a, v)) = Len(pushed)
  <1>1. DOMAIN pushed = 1 .. Len(pushed) /\ Len(pushed) \in Nat
    OBVIOUS
  <1>2. \A k \in 1 .. Len(pushed) : pushed[k] \in MemCell
    OBVIOUS
  <1>3. Overwritten(a, v) \in [1 .. Len(pushed) -> MemCell]
    BY <1>1, <1>2 DEF Overwritten
  <1> QED
    BY <1>1, <1>3

\* A store keeps the data's types and the stack's depth.
LEMMA StoreType ==
    ASSUME DataType, NEW p \in Places, NEW v \in MemCell, Store(p, v)
    PROVE  DataType' /\ Len(pushed') = Len(pushed)
  <1>1. CASE p.space = "registers"
    BY <1>1 DEF Store, DataType, Places
  <1>2. CASE p.space = "RAM"
    <2>1. RAM' = [RAM EXCEPT ![p.at] = v] /\ registers' = registers
      BY <1>2 DEF Store
    <2>2. pushed' = Overwritten(p.at, v)
      BY <1>2 DEF Store
    <2>3. pushed' \in Seq(MemCell) /\ Len(pushed') = Len(pushed)
      BY <2>2, OverwrittenType DEF DataType
    <2>4. RAM' \in Ram
      BY <2>1 DEF DataType, Ram
    <2> QED
      BY <2>1, <2>3, <2>4 DEF DataType
  <1> QED
    BY <1>1, <1>2 DEF Places

\* A push keeps the types, and SP in the stack unless it throws.
LEMMA PushKeeps ==
    ASSUME IInv, outcome = "exec", NEW bytes \in Seq(MemCell), Len(bytes) \in {1, 2},
           Push(bytes), UNCHANGED registers
    PROVE  /\ DataType' /\ SP' \in MemAddr /\ outcome' \in Outcomes
           /\ StackInBounds' /\ DepthIsCounted'
  <1>1. /\ SP \in MemAddr /\ pushed \in Seq(MemCell) /\ RAM \in Ram
        /\ stack_limit =< SP /\ SP =< stack_top
        /\ Len(pushed) = stack_top - SP
    BY DEF IInv, TypeOK, StackInBounds, DepthIsCounted, Ram
  <1>2. SP - Len(bytes) \in MemAddr
    <2>1. SP \in Int /\ 0 =< SP /\ SP =< AddrRange - 1 /\ 2 =< SP
      BY <1>1, Layout, WordRanges DEF MemAddr, stack_limit
    <2>2. ASSUME NEW n \in {1, 2} PROVE SP - n \in MemAddr
      BY <2>1, WordRanges DEF MemAddr
    <2> QED
      BY <2>2
  <1>3. SP' = SP - Len(bytes) /\ SP' \in MemAddr
    BY <1>2, AddrOfAddr DEF Push
  <1>4. registers' \in [Registers -> MemCell]
    BY DEF IInv, TypeOK
  <1>5. CASE SP' < stack_limit
    <2>1. outcome' = "thrown" /\ RAM' = RAM /\ pushed' = pushed
      BY <1>5 DEF Push
    <2> QED
      BY <2>1, <1>1, <1>3, <1>4 DEF DataType, StackInBounds, DepthIsCounted, Outcomes
  <1>6. CASE ~ (SP' < stack_limit)
    <2>1. /\ outcome' = "exec" /\ pushed' = bytes \o pushed
          /\ RAM' = [a \in DOMAIN RAM |->
                        IF a \in SP' .. (SP' + Len(bytes) - 1)
                        THEN bytes[a - SP' + 1] ELSE RAM[a]]
      BY <1>6 DEF Push
    <2>2. pushed' \in Seq(MemCell) /\ Len(pushed') = Len(bytes) + Len(pushed)
      BY <2>1, <1>1
    <2>3. \A a \in SP' .. (SP' + Len(bytes) - 1) : bytes[a - SP' + 1] \in MemCell
      <3> TAKE a \in SP' .. (SP' + Len(bytes) - 1)
      <3>1. a - SP' + 1 \in 1 .. Len(bytes)
        BY <1>3, WordRanges DEF MemAddr
      <3> QED
        BY <3>1
    <2>4. RAM' \in Ram
      BY <2>1, <2>3, <1>1 DEF Ram
    <2>5. stack_limit =< SP' /\ SP' =< stack_top /\ Len(pushed') = stack_top - SP'
      BY <1>1, <1>3, <1>6, <2>2, Layout, WordRanges DEF stack_limit, MemAddr
    <2> QED
      BY <2>1, <2>2, <2>4, <2>5, <1>3, <1>4
      DEF DataType, StackInBounds, DepthIsCounted, Outcomes
  <1> QED
    BY <1>5, <1>6

\* A pop of bytes that are there does too.
LEMMA PopKeeps ==
    ASSUME IInv, outcome = "exec", NEW n \in {1, 2}, ~ Underflow(n),
           NEW s \in Seq(MemCell), Len(s) = Len(pushed)
    PROVE  /\ SubSeq(s, n + 1, Len(s)) \in Seq(MemCell)
           /\ Addr(SP + n) = SP + n /\ SP + n \in MemAddr
           /\ stack_limit =< SP + n /\ SP + n =< stack_top
           /\ Len(SubSeq(s, n + 1, Len(s))) = stack_top - (SP + n)
  <1>1. /\ SP \in MemAddr /\ SP \in Nat
        /\ stack_limit =< SP /\ SP =< stack_top
        /\ Len(s) = stack_top - SP
    BY WordRanges DEF IInv, TypeOK, StackInBounds, DepthIsCounted, MemAddr
  <1>2. SP + n =< stack_top
    BY <1>1, Layout DEF Underflow
  <1>3. SP + n \in MemAddr
    BY <1>1, <1>2, Layout, WordRanges DEF MemAddr
  <1>4. n + 1 =< Len(s) + 1
    BY <1>1, <1>2, Layout
  <1>5. /\ SubSeq(s, n + 1, Len(s)) \in Seq(MemCell)
        /\ Len(SubSeq(s, n + 1, Len(s))) = Len(s) - n
    BY <1>4, SubSeqProperties
  <1> QED
    BY <1>1, <1>2, <1>3, <1>5, AddrOfAddr, Layout DEF stack_limit

-----------------------------------------------------------------------------
(* The instructions. *)

\* What an instruction that only moves PC, or throws, leaves alone.
LEMMA OnlyPC ==
    ASSUME IInv, outcome = "exec", PC' \in MemAddr, outcome' \in Outcomes,
           running' \in BOOLEAN, UNCHANGED <<data, comparison, between, SP>>
    PROVE  IInv'
  <1>1. DataType' /\ Len(pushed') = Len(pushed) /\ SP' = SP
    BY DEF IInv, TypeOK, DataType, data, Ram
  <1>2. ControlType'
    BY DEF IInv, TypeOK, ControlType, comparison, between
  <1> QED
    BY <1>1, <1>2, Steady

\* At most one byte is stored, in a register or in RAM.
Stored == UNCHANGED data \/ \E p \in Places, v \in MemCell : Store(p, v)

\* An instruction that stores a byte where its use allows one.
LEMMA StoreInvariant ==
    ASSUME IInv, outcome = "exec", PC' \in MemAddr, outcome' \in Outcomes,
           UNCHANGED <<comparison, between, SP, running>>,
           Stored
    PROVE  IInv'
  <1>1. DataType' /\ Len(pushed') = Len(pushed)
    <2>1. DataType
      BY TypeParts DEF IInv
    <2>2. CASE UNCHANGED data
      BY <2>1, <2>2 DEF DataType, data
    <2>3. CASE \E p \in Places, v \in MemCell : Store(p, v)
      BY <2>1, <2>3, StoreType
    <2> QED
      BY <2>2, <2>3 DEF Stored
  <1>2. ControlType'
    BY DEF IInv, TypeOK, ControlType, comparison, between
  <1> QED
    BY <1>1, <1>2, Steady

\* The one-byte instructions and those that print.
LEMMA PlainInvariant ==
    ASSUME IInv, Nop \/ PrintValue \/ PrintFlush \/ Halt \/ InvalidInstruction \/ DivByZero
    PROVE  IInv'
  <1> USE DEF IInv
  <1>1. CASE Nop
    BY <1>1, ArgumentTypes, OnlyPC DEF Nop, Executing, Outcomes, TypeOK
  <1>2. CASE PrintValue
    BY <1>2, ArgumentTypes, UseOutcomes, OnlyPC DEF PrintValue, Executing, TypeOK
  <1>3. CASE PrintFlush
    BY <1>3, ArgumentTypes, OnlyPC DEF PrintFlush, Executing, Outcomes, TypeOK
  <1>4. CASE Halt
    BY <1>4, ArgumentTypes, OnlyPC DEF Halt, Executing, Outcomes, TypeOK
  <1>5. CASE InvalidInstruction
    <2>1. Executing(RAM[PC])
      BY <1>5 DEF InvalidInstruction
    <2>2. Addr(PC + 1) \in MemAddr
      <3>1. PC + 1 \in Int
        BY WordRanges DEF TypeOK, MemAddr
      <3> QED
        BY <3>1, ConversionTypes
    <2> QED
      BY <1>5, <2>1, <2>2, OnlyPC DEF InvalidInstruction, Executing, Outcomes, TypeOK
  <1>6. CASE DivByZero
    BY <1>6, ArgumentTypes, OnlyPC DEF DivByZero, Executing, Outcomes, TypeOK
  <1> QED
    BY <1>1, <1>2, <1>3, <1>4, <1>5, <1>6

\* MOV and the arithmetic instructions, given that the result is a byte.
LEMMA ComputeInvariant ==
    ASSUME IInv, NEW op, NEW STATE result, Compute(op, result),
           /\ UseValue(second, {NUMBER}) = "exec"
           /\ Use(resolve_writeable_arg(first)) = "exec"
           => result \in MemCell
    PROVE  IInv' /\ Stored
  <1>1. TypeOK /\ Executing(op) /\ outcome = "exec"
    BY DEF IInv, Compute, Executing
  <1>2. first \in RawArgument /\ second.next \in MemAddr
    BY <1>1, ArgumentTypes
  <1> DEFINE use == Both(UseValue(second, {NUMBER}), Use(resolve_writeable_arg(first)))
  <1>3. use \in Outcomes
    BY UseOutcomes DEF Both
  <1>4. PC' \in MemAddr /\ outcome' \in Outcomes
    BY <1>2, <1>3 DEF Compute
  <1>5. Stored
    <2>1. CASE use = "exec"
      <3>1. /\ UseValue(second, {NUMBER}) = "exec"
            /\ Use(resolve_writeable_arg(first)) = "exec"
        BY <2>1 DEF Both
      <3>2. resolve_writeable_arg(first) \in Places /\ result \in MemCell
        BY <3>1, <1>1, <1>2, PlaceType
      <3>3. Store(resolve_writeable_arg(first), result)
        BY <2>1 DEF Compute
      <3> QED
        BY <3>2, <3>3 DEF Stored
    <2>2. CASE use # "exec"
      BY <2>2 DEF Compute, Stored
    <2> QED
      BY <2>1, <2>2
  <1> QED
    BY <1>1, <1>4, <1>5, StoreInvariant DEF Compute

\* MOV, ADD, SUB, MUL and DIV store a byte.
LEMMA ArithmeticInvariant ==
    ASSUME IInv, Mov \/ Add \/ Sub \/ Mul \/ Div
    PROVE  IInv' /\ Stored
  <1> SUFFICES ASSUME outcome = "exec", first \in RawArgument, second \in RawArgument
               PROVE  IInv' /\ Stored
    BY ArgumentTypes DEF IInv, Mov, Add, Sub, Mul, Div, Compute, Executing
  <1>1. TypeOK
    BY DEF IInv
  <1>2. UseValue(second, {NUMBER}) = "exec" => Operand(second) \in MemCell
    BY <1>1, OperandType
  <1>3. Use(resolve_writeable_arg(first)) = "exec" => Target \in MemCell
    BY <1>1, PlaceType, CellAtType DEF Target
  <1>4. \A a, b \in MemCell :
            Cell(a + b) \in MemCell /\ Cell(a - b) \in MemCell /\ Cell(a * b) \in MemCell
    <2>1. \A a, b \in MemCell : a + b \in Int /\ a - b \in Int /\ a * b \in Int
      BY WordRanges DEF MemCell
    <2> QED
      BY <2>1, ConversionTypes
  <1>5. \A a, b \in MemCell : b # 0 => a \div b \in MemCell
    <2> SUFFICES ASSUME NEW a \in MemCell, NEW b \in MemCell, b # 0
                 PROVE  a \div b \in MemCell
      OBVIOUS
    <2>1. a \in Nat /\ b \in Nat /\ b >= 1 /\ a =< CellRange - 1
      BY WordRanges DEF MemCell
    <2>2. a \div b \in Nat /\ a \div b =< a
      BY <2>1, Z3
    <2> QED
      BY <2>1, <2>2, WordRanges DEF MemCell
  <1>6. CASE Mov
    BY <1>6, <1>2, ComputeInvariant DEF Mov
  <1>7. CASE Add
    BY <1>7, <1>2, <1>3, <1>4, ComputeInvariant DEF Add
  <1>8. CASE Sub
    BY <1>8, <1>2, <1>3, <1>4, ComputeInvariant DEF Sub
  <1>9. CASE Mul
    BY <1>9, <1>2, <1>3, <1>4, ComputeInvariant DEF Mul
  <1>10. CASE Div
    BY <1>10, <1>2, <1>3, <1>5, ComputeInvariant DEF Div
  <1> QED
    BY <1>6, <1>7, <1>8, <1>9, <1>10

\* INPUT stores what arrives.
LEMMA InputInvariant ==
    ASSUME IInv, Input
    PROVE  IInv' /\ Stored
  <1>1. TypeOK /\ outcome = "exec" /\ first \in RawArgument /\ PC' \in MemAddr
    BY ArgumentTypes DEF IInv, Input, Executing
  <1>2. outcome' \in Outcomes
    BY UseOutcomes DEF Input
  <1>3. Stored
    <2>1. CASE outcome' = "exec"
      <3>1. resolve_writeable_arg(first) \in Places
        BY <1>1, <2>1, PlaceType DEF Input
      <3>2. PICK v \in Inputs \cup (IF get_gui THEN {0} ELSE {}) :
                    Store(resolve_writeable_arg(first), v)
        BY <2>1 DEF Input
      <3>3. v \in MemCell
        BY <3>2, ProcessorAssumption, LayoutTypes
      <3> QED
        BY <3>1, <3>2, <3>3 DEF Stored
    <2>2. CASE outcome' # "exec"
      BY <2>2 DEF Input, Stored
    <2> QED
      BY <2>1, <2>2
  <1> QED
    BY <1>1, <1>2, <1>3, StoreInvariant DEF Input

\* CMP sets the flags and nothing else.
LEMMA CmpInvariant ==
    ASSUME IInv, Cmp
    PROVE  IInv'
  <1>1. /\ TypeOK /\ outcome = "exec"
        /\ first \in RawArgument /\ second \in RawArgument /\ PC' \in MemAddr
    BY ArgumentTypes DEF IInv, Cmp, Executing
  <1> DEFINE use == Both(UseValue(first, {NUMBER}), UseValue(second, {NUMBER}))
  <1>2. use \in Outcomes /\ outcome' = use
    BY UseOutcomes DEF Both, Cmp
  <1>3. flags' \in [zero : BOOLEAN, sign : BOOLEAN] /\ compared' \in MemCell \X MemCell
    <2>1. CASE use = "exec"
      <3>1. UseValue(first, {NUMBER}) = "exec" /\ UseValue(second, {NUMBER}) = "exec"
        BY <2>1 DEF Both
      <3>2. Operand(first) \in MemCell /\ Operand(second) \in MemCell
        BY <3>1, <1>1, OperandType
      <3>3. compared' = <<Operand(first), Operand(second)>>
        BY <2>1 DEF Cmp
      <3>4. flags' = [zero |-> Operand(first) - Operand(second) = 0,
                      sign |-> Operand(first) - Operand(second) > 0]
        BY <2>1 DEF Cmp
      <3>5. flags' \in [zero : BOOLEAN, sign : BOOLEAN]
        BY <3>4
      <3> QED
        BY <3>2, <3>3, <3>5
    <2>2. CASE use # "exec"
      BY <2>2 DEF Cmp, comparison, IInv, TypeOK
    <2> QED
      BY <2>1, <2>2
  <1>4. DataType' /\ Len(pushed') = Len(pushed) /\ SP' = SP
    BY DEF Cmp, IInv, TypeOK, DataType, data, Ram
  <1>5. ControlType'
    BY <1>1, <1>2, <1>3 DEF Cmp, IInv, TypeOK, ControlType, between
  <1> QED
    BY <1>1, <1>4, <1>5, Steady

\* A jump moves PC.
LEMMA JumpInvariant ==
    ASSUME IInv, Jmp \/ Je \/ Jne \/ Jg \/ Jng
    PROVE  IInv'
  <1> SUFFICES ASSUME NEW op, NEW STATE taken, NEW lits, Jump(op, taken, lits)
               PROVE  IInv'
    BY DEF Jmp, Je, Jne, Jg, Jng
  <1>1. TypeOK /\ outcome = "exec" /\ first \in RawArgument /\ first.next \in MemAddr
    BY ArgumentTypes DEF IInv, Jump, Executing
  <1>2. outcome' \in Outcomes
    BY UseOutcomes DEF Jump, Outcomes
  <1>3. UseValue(first, lits) = "exec" => Addr(first_sector + Value(first, lits)) \in MemAddr
    <2>1. UseValue(first, lits) = "exec" => Value(first, lits) \in Nat
      BY <1>1, ValueType, WordRanges DEF MemAddr
    <2> QED
      BY <2>1, Layout, ConversionTypes
  <1>4. PC' \in MemAddr
    BY <1>1, <1>3 DEF Jump
  <1> QED
    BY <1>1, <1>2, <1>4, OnlyPC DEF Jump, IInv, TypeOK

\* SPUSH keeps SP in the stack, or throws; so do the next three.
LEMMA SpushInvariant ==
    ASSUME IInv, Spush
    PROVE  IInv'
  <1>1. TypeOK /\ outcome = "exec" /\ first \in RawArgument /\ PC' \in MemAddr
    BY ArgumentTypes DEF IInv, Spush, Executing
  <1>2. CASE UseValue(first, {NUMBER}) = "exec"
    <2> DEFINE bytes == IF Width(first) = 1 THEN <<Operand(first)>> ELSE <<0, Operand(first)>>
    <2>1. Operand(first) \in MemCell /\ 0 \in MemCell
      BY <1>1, <1>2, OperandType, LayoutTypes
    <2>2. bytes \in Seq(MemCell) /\ Len(bytes) \in {1, 2}
      BY <2>1
    <2>3. Push(bytes) /\ UNCHANGED registers
      BY <1>2 DEF Spush
    <2> HIDE DEF bytes
    <2>4. PICK b : b = bytes
      OBVIOUS
    <2>5. b \in Seq(MemCell) /\ Len(b) \in {1, 2} /\ Push(b)
      BY <2>2, <2>3, <2>4 DEF Push
    <2>6. /\ DataType' /\ SP' \in MemAddr /\ outcome' \in Outcomes
          /\ StackInBounds' /\ DepthIsCounted'
      BY <1>1, <2>3, <2>5, PushKeeps
    <2>7. ControlType'
      BY <1>1, <2>6 DEF Spush, TypeOK, ControlType, comparison, between
    <2> QED
      BY <2>6, <2>7 DEF IInv, TypeOK, DataType, ControlType, Ram, Outcomes
  <1>3. CASE UseValue(first, {NUMBER}) # "exec"
    <2>1. outcome' \in Outcomes
      BY <1>3, UseOutcomes DEF Spush
    <2>2. UNCHANGED <<data, comparison, between, SP>> /\ running' \in BOOLEAN
      BY <1>1, <1>3 DEF Spush, data, TypeOK
    <2> QED
      BY <1>1, <2>1, <2>2, OnlyPC
  <1> QED
    BY <1>2, <1>3

\* CALL.
LEMMA CallInvariant ==
    ASSUME IInv, Call \/ CallNonLabel
    PROVE  IInv'
  <1>1. /\ TypeOK /\ outcome = "exec" /\ first \in RawArgument
        /\ first.next \in MemAddr /\ first.value \in MemAddr
    BY ArgumentTypes DEF IInv, Call, CallNonLabel, Executing, RawArgument
  <1>2. CASE Call
    <2>1. High(first.next) \in MemCell /\ Low(first.next) \in MemCell
      BY <1>1, ByteTypes, WordRanges DEF MemAddr
    <2>2. PICK b : b = <<High(first.next), Low(first.next)>>
      OBVIOUS
    <2>3. b \in Seq(MemCell) /\ Len(b) \in {1, 2}
      BY <2>1, <2>2
    <2>4. Push(b) /\ UNCHANGED registers
      BY <1>2, <2>2 DEF Call, Push
    <2>5. /\ DataType' /\ SP' \in MemAddr /\ outcome' \in Outcomes
          /\ StackInBounds' /\ DepthIsCounted'
      BY <1>1, <2>3, <2>4, PushKeeps
    <2>6. ControlType'
      BY <1>1, <1>2, <2>5 DEF Call, TypeOK, ControlType, comparison, between
    <2> QED
      BY <2>5, <2>6 DEF IInv, TypeOK, DataType, ControlType, Ram, Outcomes
  <1>3. CASE CallNonLabel
    BY <1>1, <1>3, OnlyPC DEF CallNonLabel, Outcomes, IInv, TypeOK
  <1> QED
    BY <1>2, <1>3

\* RET.
LEMMA RetInvariant ==
    ASSUME IInv, Ret
    PROVE  IInv'
  <1>1. TypeOK /\ outcome = "exec" /\ Addr(PC + 1) \in MemAddr
    BY ArgumentTypes DEF IInv, Ret, Executing
  <1>2. CASE Underflow(2)
    BY <1>1, <1>2, OnlyPC DEF Ret, Outcomes, IInv, TypeOK, data
  <1>3. CASE ~ Underflow(2)
    <2>1. /\ SubSeq(pushed, 3, Len(pushed)) \in Seq(MemCell)
          /\ Addr(SP + 2) = SP + 2 /\ SP + 2 \in MemAddr
          /\ stack_limit =< SP + 2 /\ SP + 2 =< stack_top
          /\ Len(SubSeq(pushed, 3, Len(pushed))) = stack_top - (SP + 2)
      <3>1. pushed \in Seq(MemCell)
        BY <1>1 DEF TypeOK
      <3> QED
        BY <3>1, <1>1, <1>3, PopKeeps
    <2>2. SP' = SP + 2 /\ pushed' = SubSeq(pushed, 3, Len(pushed))
      BY <1>3, <2>1 DEF Ret, Pop
    <2>3. PC' \in MemAddr
      <3>1. SP \in 0 .. (RamSize - 1) /\ SP + 1 \in 0 .. (RamSize - 1)
        BY <1>1, <2>1, Layout, WordRanges DEF TypeOK, MemAddr
      <3>2. RAM[SP] \in MemCell /\ RAM[SP + 1] \in MemCell
        BY <3>1, <1>1, RamCell DEF TypeOK, Ram
      <3> QED
        BY <3>2, <1>3, JoinType DEF Ret
    <2>4. DataType' /\ StackInBounds' /\ DepthIsCounted'
      BY <1>1, <1>3, <2>1, <2>2
      DEF Ret, TypeOK, DataType, Ram, StackInBounds, DepthIsCounted
    <2>5. ControlType'
      BY <1>1, <1>3, <2>3 DEF Ret, TypeOK, ControlType, comparison, between, Outcomes
    <2> QED
      BY <2>1, <2>2, <2>4, <2>5 DEF IInv, TypeOK, DataType, ControlType, Ram, Outcomes
  <1> QED
    BY <1>2, <1>3

\* SPOP.
LEMMA SpopInvariant ==
    ASSUME IInv, Spop
    PROVE  IInv'
  <1> DEFINE place == resolve_writeable_arg(first)
             n == Width(first)
             v == RAM[SP + n - 1]
             under == IF place.space = "RAM" THEN Overwritten(place.at, v) ELSE pushed
  <1>1. /\ TypeOK /\ outcome = "exec" /\ first \in RawArgument /\ PC' \in MemAddr
        /\ pushed \in Seq(MemCell) /\ n \in {1, 2}
    BY ArgumentTypes DEF IInv, TypeOK, Spop, Executing, Width
  <1>2. outcome' = IF Underflow(n) THEN "thrown" ELSE Use(place)
    BY DEF Spop
  <1>3. outcome' \in Outcomes
    BY <1>2, UseOutcomes DEF Outcomes
  <1>4. CASE outcome' # "exec"
    BY <1>1, <1>3, <1>4, OnlyPC DEF Spop, IInv, TypeOK, data
  <1>5. CASE outcome' = "exec"
    <2>1. ~ Underflow(n) /\ place \in Places
      BY <1>1, <1>2, <1>5, PlaceType
    <2>2. SP + n - 1 \in 0 .. (RamSize - 1)
      BY <1>1, <2>1, Layout, WordRanges DEF TypeOK, Underflow, MemAddr
    <2>3. v \in MemCell
      BY <1>1, <2>2 DEF TypeOK
    <2>4. under \in Seq(MemCell) /\ Len(under) = Len(pushed)
      BY <1>1, <2>3, OverwrittenType
    <2>5. PICK m, s : m = n /\ s = under
      OBVIOUS
    <2>6. /\ SubSeq(s, m + 1, Len(s)) \in Seq(MemCell)
          /\ Addr(SP + m) = SP + m /\ SP + m \in MemAddr
          /\ stack_limit =< SP + m /\ SP + m =< stack_top
          /\ Len(SubSeq(s, m + 1, Len(s))) = stack_top - (SP + m)
      <3> HIDE DEF n, under
      <3>1. m \in {1, 2} /\ ~ Underflow(m) /\ s \in Seq(MemCell) /\ Len(s) = Len(pushed)
        BY <1>1, <2>1, <2>4, <2>5
      <3> QED
        BY <3>1, <1>1, PopKeeps
    <2>7. /\ SP' = Addr(SP + n)
          /\ pushed' = SubSeq(under, n + 1, Len(pushed))
          /\ \/ registers' = [registers EXCEPT ![place.at] = v] /\ UNCHANGED RAM
             \/ RAM' = [RAM EXCEPT ![place.at] = v] /\ UNCHANGED registers
      BY <1>5 DEF Spop
    <2>8. SP' = SP + m /\ pushed' = SubSeq(s, m + 1, Len(s))
      <3> HIDE DEF n, under
      <3> QED
        BY <2>4, <2>5, <2>6, <2>7
    <2>9. RAM' \in Ram /\ registers' \in [Registers -> MemCell]
      <3> HIDE DEF v, place
      <3> QED
        BY <1>1, <2>3, <2>7 DEF TypeOK, Ram
    <2>10. DataType' /\ StackInBounds' /\ DepthIsCounted'
      BY <2>6, <2>8, <2>9 DEF DataType, StackInBounds, DepthIsCounted
    <2>11. ControlType'
      BY <1>1, <1>3 DEF Spop, TypeOK, ControlType, comparison, between
    <2> QED
      BY <2>6, <2>8, <2>10, <2>11
      DEF IInv, TypeOK, DataType, ControlType, Ram, Outcomes
  <1> QED
    BY <1>4, <1>5

-----------------------------------------------------------------------------
(* The heap instructions. *)

\* Writing a header, or part of one, leaves RAM a RAM.
LEMMA HeaderType ==
    ASSUME NEW ram \in Ram, NEW c \in Int, NEW dim \in Nat, NEW st \in MemCell
    PROVE  WithDimension(ram, c, dim) \in Ram /\ WithHeader(ram, c, dim, st) \in Ram
  <1>1. High(dim) \in MemCell /\ Low(dim) \in MemCell
    BY ByteTypes
  <1>2. WithDimension(ram, c, dim) \in Ram
    BY <1>1 DEF WithDimension, Ram
  <1> QED
    BY <1>2 DEF WithHeader, Ram

\* A pass of a heap loop keeps the types of what the loops work on.
LEMMA HeapStepType ==
    ASSUME RAM \in Ram, cursor \in MemAddr, size \in MemAddr, HeapStep
    PROVE  /\ RAM' \in Ram /\ cursor' \in MemAddr /\ size' \in MemAddr
           /\ heap_op' \in HeapOps
  <1>1. cursor \in Nat /\ size \in Nat /\ 0 \in MemAddr
    BY WordRanges DEF MemAddr
  <1>2. ASSUME NEW c \in Nat, c + 1 < RamSize PROVE next_chunk(c) \in MemAddr
    <2>1. c + heap_header_block_size + dimension(c) \in Int
      BY <1>2, ChunkDimension DEF heap_header_block_size
    <2> QED
      BY <2>1, ConversionTypes DEF next_chunk
  <1>3. CASE HallocOverflow
    BY <1>3 DEF HallocOverflow, HeapOps
  <1>4. CASE HallocSkip
    <2>1. cursor + 1 < RamSize
      BY <1>1, <1>4, Layout DEF HallocSkip
    <2> QED
      BY <2>1, <1>1, <1>2, <1>4 DEF HallocSkip, HeapOps
  <1>5. CASE HallocTake
    <2>1. cursor < heap_limit /\ cursor + 1 < RamSize
      BY <1>1, <1>5, Layout DEF HallocTake
    <2>2. dimension(cursor) \in MemAddr /\ dimension(cursor) \in Nat
      BY <2>1, <1>1, ChunkDimension
    <2>3. Granted(cursor) \in MemAddr /\ Granted(cursor) \in Nat
      BY <2>2, <1>1 DEF Granted
    <2>4. SplitOff(RAM, cursor) \in Ram
      <3>1. CASE Granted(cursor) = dimension(cursor)
        BY <3>1 DEF SplitOff
      <3>2. CASE Granted(cursor) # dimension(cursor)
        <4>1. dimension(cursor) - heap_header_block_size - size \in Nat
          BY <3>2, <2>2, <1>1 DEF Granted, heap_header_block_size
        <4>2. cursor + heap_header_block_size + size \in Int /\ FREE \in MemCell
          BY <1>1, LayoutTypes DEF heap_header_block_size, FREE
        <4> QED
          BY <3>2, <4>1, <4>2, HeaderType DEF SplitOff
      <3> QED
        BY <3>1, <3>2
    <2>5. OWNED \in MemCell
      BY LayoutTypes DEF OWNED
    <2>6. RAM' \in Ram
      <3>1. RAM' = WithHeader(SplitOff(RAM, cursor), cursor, Granted(cursor), OWNED)
        BY <1>5 DEF HallocTake
      <3>2. cursor \in Int
        BY <1>1
      <3>3. WithHeader(SplitOff(RAM, cursor), cursor, Granted(cursor), OWNED) \in Ram
        BY <2>3, <2>4, <2>5, <3>2, HeaderType
      <3> QED
        BY <3>1, <3>3
    <2>7. cursor' \in MemAddr
      <3>1. cursor + 3 \in 0 .. (RamSize - 1)
        BY <2>1, <1>1, Layout
      <3> QED
        BY <3>1, <1>5, LayoutTypes DEF HallocTake, heap_header_block_size
    <2> QED
      BY <2>3, <2>6, <2>7, <1>5 DEF HallocTake, HeapOps
  <1>6. CASE HallocUndefined
    BY <1>6 DEF HallocUndefined, HeapOps
  <1>7. CASE HfreeMerge
    <2>1. cursor + 1 < RamSize
      BY <1>1, <1>7, Layout DEF HfreeMerge, HasNext
    <2>2. next_chunk(cursor) \in Nat /\ next_chunk(cursor) + 1 < RamSize
      BY <2>1, <1>1, <1>2, <1>7, Layout, WordRanges DEF HfreeMerge, HasNext, MemAddr
    <2>3. Merged(cursor) \in Nat
      BY <2>1, <2>2, <1>1, ChunkDimension DEF Merged, heap_header_block_size
    <2>4. WithDimension(RAM, cursor, Merged(cursor)) \in Ram
      BY <2>3, <1>1, LayoutTypes, HeaderType
    <2> QED
      BY <2>4, <1>7 DEF HfreeMerge, HeapOps
  <1>8. CASE HfreeAdvance
    <2>1. cursor + 1 < RamSize
      BY <1>1, <1>8, Layout DEF HfreeAdvance, HasNext
    <2> QED
      BY <2>1, <1>1, <1>2, <1>8 DEF HfreeAdvance, HeapOps
  <1>9. CASE HfreeDone
    BY <1>1, <1>9 DEF HfreeDone, HeapOps
  <1> QED
    BY <1>3, <1>4, <1>5, <1>6, <1>7, <1>8, <1>9 DEF HeapStep

\* HALLOC starts its loop with a size of 16 bits.
LEMMA HallocInvariant ==
    ASSUME IInv, Halloc
    PROVE  IInv'
  <1>1. /\ TypeOK /\ outcome = "exec" /\ first \in RawArgument /\ second \in RawArgument
        /\ PC' \in MemAddr
    BY ArgumentTypes DEF IInv, Halloc, Executing
  <1> DEFINE use == UseValue(second, {NUMBER})
  <1>2. use \in Outcomes /\ outcome' = use
    BY UseOutcomes DEF Halloc
  <1>3. CASE use = "exec"
    <2>1. Value(second, {NUMBER}) \in MemAddr
      BY <1>1, <1>3, ValueType
    <2>2. BeginHalloc(Value(second, {NUMBER})) /\ dest' = first
      BY <1>3 DEF Halloc
    <2>3. DataType' /\ Len(pushed') = Len(pushed) /\ SP' = SP
      BY <2>2 DEF Halloc, BeginHalloc, IInv, TypeOK, DataType, Ram
    <2>4. ControlType'
      BY <1>1, <1>2, <2>1, <2>2, LayoutTypes
      DEF Halloc, BeginHalloc, TypeOK, ControlType, comparison, HeapOps
    <2> QED
      BY <1>1, <2>3, <2>4, Steady
  <1>4. CASE use # "exec"
    <2>1. UNCHANGED <<data, comparison, between, SP>> /\ running' \in BOOLEAN
      BY <1>1, <1>4 DEF Halloc, data, TypeOK
    <2> QED
      BY <1>1, <1>2, <2>1, OnlyPC
  <1> QED
    BY <1>3, <1>4

\* The end of HALLOC stores one byte.
LEMMA HallocStoreInvariant ==
    ASSUME IInv, HallocStore
    PROVE  IInv' /\ Stored
  <1> DEFINE place == resolve_writeable_arg(dest)
  <1>1. TypeOK /\ outcome = "exec" /\ dest \in RawArgument /\ DataType
    BY TypeParts DEF IInv, HallocStore, TypeOK
  <1>2. outcome' \in Outcomes
    BY UseOutcomes DEF HallocStore
  <1>3. Stored /\ DataType' /\ Len(pushed') = Len(pushed)
    <2>1. CASE outcome' = "exec"
      <3>1. place \in Places
        BY <1>1, <2>1, PlaceType DEF HallocStore
      <3>2. Cell(cursor) \in MemCell
        BY <1>1, ConversionTypes, WordRanges DEF TypeOK, MemAddr
      <3>3. Store(place, Cell(cursor))
        BY <2>1 DEF HallocStore
      <3> QED
        BY <3>1, <3>2, <3>3, <1>1, StoreType DEF Stored
    <2>2. CASE outcome' # "exec"
      BY <1>1, <2>2 DEF HallocStore, DataType, data, Stored
    <2> QED
      BY <2>1, <2>2
  <1>4. NoArgument \in RawArgument
    BY LayoutTypes DEF NoArgument, RawArgument
  <1>5. ControlType' /\ SP' = SP
    BY <1>1, <1>2, <1>4, LayoutTypes
    DEF HallocStore, TypeOK, ControlType, comparison, HeapOps
  <1> QED
    BY <1>1, <1>3, <1>5, Steady

\* HFREE marks a byte and starts its loop, throws, or is undefined.
LEMMA HfreeInvariant ==
    ASSUME IInv, Hfree
    PROVE  IInv'
  <1> DEFINE use == UseValue(first, {ADDRESS})
             p == Value(first, {ADDRESS})
  <1>1. /\ TypeOK /\ outcome = "exec" /\ first \in RawArgument /\ PC' \in MemAddr
        /\ pushed \in Seq(MemCell)
    BY ArgumentTypes DEF IInv, Hfree, Executing, TypeOK
  <1>2. CASE use # "exec"
    <2>1. outcome' = use /\ UNCHANGED <<heap_vars, pushed>>
      BY <1>2 DEF Hfree
    <2>2. outcome' \in Outcomes
      BY <2>1, UseOutcomes
    <2>3. UNCHANGED <<data, comparison, between, SP>> /\ running' \in BOOLEAN
      BY <1>1, <2>1 DEF Hfree, data, comparison, between, heap_vars, TypeOK
    <2> QED
      BY <1>1, <2>2, <2>3, OnlyPC
  <1>3. CASE use = "exec"
    <2>1. /\ BeginHfree(p) \/ HfreeThrows(p) \/ HfreeUndefined(p)
          /\ outcome' = IF heap_op' = "hfree" THEN "exec" ELSE heap_op'
          /\ pushed' = IF heap_op' = "hfree" THEN Overwritten(HeaderOf(p) + 2, FREE)
                                             ELSE pushed
      BY <1>3 DEF Hfree
    <2>2. heap_op' \in {"hfree", "thrown", "undefined"}
      BY <2>1 DEF BeginHfree, HfreeThrows, HfreeUndefined
    <2>3. FREE \in MemCell
      BY LayoutTypes DEF FREE
    <2>4. pushed' \in Seq(MemCell) /\ Len(pushed') = Len(pushed)
      BY <1>1, <2>1, <2>3, OverwrittenType
    <2>5. RAM' \in Ram /\ cursor' \in MemAddr /\ size' \in MemAddr
      BY <1>1, <2>1, <2>3, LayoutTypes
      DEF BeginHfree, HfreeThrows, HfreeUndefined, TypeOK, Ram
    <2>6. DataType' /\ SP' = SP
      BY <1>1, <2>4, <2>5 DEF Hfree, DataType, TypeOK
    <2>7. ControlType'
      BY <1>1, <2>1, <2>2, <2>5
      DEF Hfree, ControlType, TypeOK, comparison, HeapOps, Outcomes
    <2> QED
      BY <1>1, <2>4, <2>6, <2>7, Steady
  <1> QED
    BY <1>2, <1>3

\* A pass of a heap loop.
LEMMA HeapLoopInvariant ==
    ASSUME IInv, HeapLoop
    PROVE  IInv'
  <1>1. /\ TypeOK /\ outcome = "exec" /\ RAM \in Ram /\ pushed \in Seq(MemCell)
        /\ cursor \in MemAddr /\ size \in MemAddr /\ SP \in MemAddr
        /\ stack_limit =< SP /\ Len(pushed) = stack_top - SP
    BY DEF IInv, TypeOK, HeapLoop, StackInBounds, DepthIsCounted, Ram
  <1>2. RAM' \in Ram /\ cursor' \in MemAddr /\ size' \in MemAddr /\ heap_op' \in HeapOps
    BY <1>1, HeapStepType DEF HeapLoop
  <1>3. pushed' \in Seq(MemCell) /\ Len(pushed') = Len(pushed)
    <2>1. CASE ChainIntact
      BY <1>1, <2>1 DEF HeapLoop
    <2>2. CASE ~ ChainIntact
      <3>1. pushed' = [k \in DOMAIN pushed |-> RAM'[SP + k - 1]]
        BY <2>2 DEF HeapLoop
      <3>2. DOMAIN pushed = 1 .. Len(pushed) /\ Len(pushed) \in Nat
        BY <1>1
      <3>3. ASSUME NEW k \in 1 .. Len(pushed) PROVE RAM'[SP + k - 1] \in MemCell
        <4>1. SP + k - 1 \in 0 .. (RamSize - 1)
          BY <1>1, <3>2, Layout, WordRanges DEF MemAddr
        <4> QED
          BY <4>1, <1>2 DEF Ram
      <3>4. pushed' \in [1 .. Len(pushed) -> MemCell]
        BY <3>1, <3>2, <3>3
      <3> QED
        BY <3>2, <3>4
    <2> QED
      BY <2>1, <2>2
  <1>4. outcome' \in Outcomes
    BY DEF HeapLoop, Outcomes
  <1>5. DataType' /\ SP' = SP
    BY <1>1, <1>2, <1>3 DEF HeapLoop, DataType, TypeOK
  <1>6. ControlType'
    BY <1>1, <1>2, <1>4 DEF HeapLoop, ControlType, TypeOK, comparison
  <1> QED
    BY <1>1, <1>3, <1>5, <1>6, Steady

-----------------------------------------------------------------------------
(* The framebuffer, the end of exec, and the theorems. *)

\* The index FBSET computes is a number, whenever it can be computed.
LEMMA PixelIndexType ==
    ASSUME TypeOK, NEW x \in RawArgument, UseIndex(x) = "exec"
    PROVE  final_pixel_index(x) \in Nat
  <1>1. x.value \in Nat
    BY WordRanges DEF RawArgument, MemAddr
  <1>2. CASE Immediate(x)
    BY <1>1, <1>2 DEF final_pixel_index, Immediate, Paired, NUMBER, NUMBER_16, REGISTER,
                      INDIRECT_REG, INDIRECT_MEM, ADDRESS
  <1>3. CASE Paired(x)
    <2> DEFINE hi == IndexCells(x)[1]
               lo == IndexCells(x)[2]
    <2>1. Use(hi) = "exec" /\ Use(lo) = "exec"
      BY <1>3 DEF UseIndex, Both
    <2>2. hi \in Places /\ lo \in Places
      <3>1. CASE x.type = REGISTER
        <4>1. hi = Place("registers", x.value - 1) /\ lo = Place("registers", x.value)
          BY <3>1 DEF IndexCells, REGISTER, INDIRECT_REG, INDIRECT_MEM, ADDRESS
        <4> HIDE DEF hi, lo
        <4> QED
          BY <4>1, <2>1 DEF Use, Place, Places
      <3>2. ASSUME NEW a \in Nat, hi = Place("RAM", a), lo = Place("RAM", a + 1)
            PROVE  hi \in Places /\ lo \in Places
        <4> HIDE DEF hi, lo
        <4>1. a < RamSize /\ a + 1 < RamSize
          BY <2>1, <3>2 DEF Use, Place
        <4> QED
          BY <3>2, <4>1, Layout DEF Place, Places
      <3>3. CASE x.type = INDIRECT_REG
        <4> DEFINE a == Addr(first_sector + registers[x.value - 1])
        <4>1. x.value - 1 \in Registers
          <5>1. x.value - 1 \notin Registers => hi = Outside
            BY <3>3 DEF IndexCells, REGISTER, INDIRECT_REG, INDIRECT_MEM, ADDRESS
          <5>2. hi # Outside
            BY <2>1, Layout DEF Use, Outside, Place
          <5> QED
            BY <5>1, <5>2
        <4>2. hi = Place("RAM", a) /\ lo = Place("RAM", a + 1)
          BY <3>3, <4>1 DEF IndexCells, REGISTER, INDIRECT_REG, INDIRECT_MEM, ADDRESS
        <4>3. first_sector + registers[x.value - 1] \in Int
          BY <4>1, Layout, WordRanges DEF TypeOK, MemCell
        <4>4. a \in Nat
          BY <4>3, ConversionTypes, WordRanges DEF MemAddr
        <4> HIDE DEF a, hi, lo
        <4> QED
          BY <4>2, <4>4, <3>2
      <3>4. CASE x.type \in {INDIRECT_MEM, ADDRESS}
        <4> DEFINE a == Addr(first_sector + x.value)
        <4>1. hi = Place("RAM", a) /\ lo = Place("RAM", a + 1)
          BY <3>4 DEF IndexCells, REGISTER, INDIRECT_REG, INDIRECT_MEM, ADDRESS
        <4>2. a \in Nat
          BY <1>1, Layout, ConversionTypes, WordRanges DEF MemAddr
        <4> HIDE DEF a, hi, lo
        <4> QED
          BY <4>1, <4>2, <3>2
      <3> QED
        BY <1>3, <3>1, <3>3, <3>4 DEF Paired
    <2>3. CellAt(hi) \in MemCell /\ CellAt(lo) \in MemCell
      BY <2>2, CellAtType
    <2>4. Join(CellAt(hi), CellAt(lo)) \in Nat
      BY <2>3, JoinType, WordRanges DEF MemAddr
    <2>5. final_pixel_index(x) = Join(CellAt(hi), CellAt(lo))
      BY <1>3 DEF final_pixel_index, Immediate, Paired, NUMBER, NUMBER_16, REGISTER,
                  INDIRECT_REG, INDIRECT_MEM, ADDRESS
    <2> QED
      BY <2>4, <2>5
  <1>4. CASE ~ Immediate(x) /\ ~ Paired(x)
    BY <1>4 DEF final_pixel_index
  <1> QED
    BY <1>2, <1>3, <1>4

\* FBSET.
LEMMA FbsetInvariant ==
    ASSUME IInv, Fbset
    PROVE  IInv' /\ Stored
  <1> DEFINE at == framebuffer_start + final_pixel_index(first)
             v == Cell(Value(second, {NUMBER}))
  <1>1. /\ TypeOK /\ outcome = "exec" /\ first \in RawArgument /\ second \in RawArgument
        /\ PC' \in MemAddr
    BY ArgumentTypes DEF IInv, Fbset, Executing
  <1>2. outcome' = FbsetOutcome
    BY DEF Fbset
  <1>3. outcome' \in Outcomes
    <2>1. ASSUME NEW a PROVE Use(Place("RAM", a)) \in Outcomes
                             /\ Use(Place("registers", a)) \in Outcomes
      BY DEF Use, Place, Outcomes
    <2>2. UseIndex(first) \in Outcomes
      <3>1. CASE Paired(first)
        <4>1. /\ Use(IndexCells(first)[1]) \in Outcomes
              /\ Use(IndexCells(first)[2]) \in Outcomes
          BY <3>1, <2>1 DEF IndexCells, Paired, Outside, REGISTER, INDIRECT_REG,
                            INDIRECT_MEM, ADDRESS
        <4> QED
          BY <3>1, <4>1 DEF UseIndex, Both
      <3>2. CASE ~ Paired(first)
        BY <3>2 DEF UseIndex, Outcomes
      <3> QED
        BY <3>1, <3>2
    <2>3. Both(UseIndex(first), UseValue(second, {NUMBER})) \in Outcomes
      BY <2>2, UseOutcomes DEF Both
    <2> QED
      BY <1>2, <2>1, <2>3 DEF FbsetOutcome, Outcomes
  <1>4. Stored
    <2>1. CASE outcome' = "exec"
      <3>1. /\ UseIndex(first) = "exec" /\ UseValue(second, {NUMBER}) = "exec"
            /\ Use(Place("RAM", at)) = "exec"
        BY <1>2, <2>1 DEF FbsetOutcome, Both
      <3>2. at < RamSize
        BY <3>1 DEF Use, Place
      <3>3. at \in Nat
        BY <3>1, <1>1, PixelIndexType, Layout DEF framebuffer_start
      <3>4. Place("RAM", at) \in Places
        <4> HIDE DEF at
        <4> QED
          BY <3>2, <3>3, Layout DEF Place, Places
      <3>5. v \in MemCell
        <4>1. Value(second, {NUMBER}) \in Int
          BY <3>1, <1>1, ValueType, WordRanges DEF MemAddr
        <4> QED
          BY <4>1, ConversionTypes
      <3>6. Store(Place("RAM", at), v)
        BY <2>1 DEF Fbset
      <3> QED
        BY <3>4, <3>5, <3>6 DEF Stored
    <2>2. CASE outcome' # "exec"
      BY <2>2 DEF Fbset, Stored
    <2> QED
      BY <2>1, <2>2
  <1> QED
    BY <1>1, <1>3, <1>4, StoreInvariant DEF Fbset

\* FBSYNC and the end of exec change no byte.
LEMMA EndInvariant ==
    ASSUME IInv, Fbsync \/ Finish
    PROVE  IInv'
  <1>1. TypeOK
    BY DEF IInv
  <1>2. CASE Fbsync
    <2>1. outcome = "exec" /\ PC' \in MemAddr
      BY <1>1, <1>2, ArgumentTypes DEF Fbsync, Executing
    <2>2. outcome' \in Outcomes /\ running' \in BOOLEAN
      BY <1>1, <1>2, <2>1 DEF Fbsync, Outcomes, TypeOK
    <2> QED
      BY <1>2, <2>1, <2>2, OnlyPC DEF Fbsync
  <1>3. CASE Finish
    <2>1. outcome = "exec" /\ PC' \in MemAddr /\ outcome' \in Outcomes /\ running' \in BOOLEAN
      BY <1>1, <1>3, LayoutTypes DEF Finish, TypeOK, Outcomes
    <2> QED
      BY <1>3, <2>1, OnlyPC DEF Finish
  <1> QED
    BY <1>2, <1>3

\* What load_program leaves satisfies the invariant.
LEMMA InitInvariant == Init => IInv
  <1> SUFFICES ASSUME Init PROVE IInv
    OBVIOUS
  <1>1. RAM \in Ram /\ PC \in MemAddr
    <2>1. PICK image \in Images :
            /\ RAM = WithFirstHeader([a \in 0 .. (RamSize - 1) |->
                                        IF a \in DOMAIN image THEN image[a] ELSE 0])
            /\ PC = Addr(first_sector + Join(image[first_sector], image[first_sector + 1]))
      BY DEF Init
    <2>2. image \in [first_sector .. (heap_start - 1) -> MemCell]
      BY ProcessorAssumption
    <2> DEFINE ram == [a \in 0 .. (RamSize - 1) |->
                          IF a \in DOMAIN image THEN image[a] ELSE 0]
    <2>3. ram \in Ram
      BY <2>2, LayoutTypes DEF Ram
    <2>4. heap_limit - heap_start \in Nat /\ heap_start \in Int /\ FREE \in MemCell
      BY Layout, LayoutTypes DEF FREE
    <2> HIDE DEF ram
    <2>5. WithFirstHeader(ram) \in Ram
      BY <2>3, <2>4, HeaderType DEF WithFirstHeader
    <2>6. image[first_sector] \in MemCell /\ image[first_sector + 1] \in MemCell
      BY <2>2, Layout
    <2>7. first_sector + Join(image[first_sector], image[first_sector + 1]) \in Int
      BY <2>6, JoinType, Layout, WordRanges DEF MemAddr
    <2> QED
      BY <2>1, <2>5, <2>7, ConversionTypes DEF ram
  <1>2. registers \in [Registers -> MemCell]
    BY LayoutTypes DEF Init
  <1>3. SP \in MemAddr /\ SP = stack_top /\ pushed \in Seq(MemCell) /\ Len(pushed) = 0
    BY LayoutTypes DEF Init
  <1>4. NoArgument \in RawArgument
    BY LayoutTypes DEF NoArgument, RawArgument
  <1>5. ControlType
    BY <1>1, <1>4, LayoutTypes DEF Init, ControlType, Outcomes, HeapOps
  <1>6. DataType
    BY <1>1, <1>2, <1>3 DEF DataType
  <1>7. StackInBounds /\ DepthIsCounted
    BY <1>3, Layout DEF StackInBounds, DepthIsCounted, stack_limit
  <1> QED
    BY <1>3, <1>5, <1>6, <1>7, TypeParts DEF IInv

\* Every step keeps the invariant.
LEMMA NextInvariant == IInv /\ [Next]_vars => IInv'
  <1> SUFFICES ASSUME IInv, [Next]_vars PROVE IInv'
    OBVIOUS
  <1>1. CASE Nop \/ PrintValue \/ PrintFlush \/ Halt \/ InvalidInstruction \/ DivByZero
    BY <1>1, PlainInvariant
  <1>2. CASE Mov \/ Add \/ Sub \/ Mul \/ Div
    BY <1>2, ArithmeticInvariant
  <1>3. CASE Input
    BY <1>3, InputInvariant
  <1>4. CASE Cmp
    BY <1>4, CmpInvariant
  <1>5. CASE Jmp \/ Je \/ Jne \/ Jg \/ Jng
    BY <1>5, JumpInvariant
  <1>6. CASE Spush \/ Spop \/ Call \/ CallNonLabel \/ Ret
    BY <1>6, SpushInvariant, SpopInvariant, CallInvariant, RetInvariant
  <1>7. CASE Halloc \/ HallocStore \/ Hfree \/ HeapLoop
    BY <1>7, HallocInvariant, HallocStoreInvariant, HfreeInvariant, HeapLoopInvariant
  <1>8. CASE Fbset \/ Fbsync \/ Finish
    BY <1>8, FbsetInvariant, EndInvariant
  <1>9. CASE UNCHANGED vars
    BY <1>9 DEF vars, data, comparison, between, IInv, TypeOK, StackInBounds, DepthIsCounted
  <1> QED
    BY <1>1, <1>2, <1>3, <1>4, <1>5, <1>6, <1>7, <1>8, <1>9 DEF Next

\* The invariant holds in every reachable state of exec.
THEOREM Invariant == Spec => []IInv
  BY InitInvariant, NextInvariant, PTL DEF Spec

\* Every step of exec, whatever the program, keeps every byte a byte and every
\* address a 16-bit address.
THEOREM TypeCorrect == Spec => []TypeOK
  <1>1. IInv => TypeOK
    BY DEF IInv
  <1> QED
    BY <1>1, Invariant, PTL

\* No program can move the stack pointer out of its stack without exec leaving by
\* an exception: the checks of SPUSH, SPOP, CALL and RET suffice.
THEOREM StackStaysInBounds == Spec => []StackInBounds
  <1>1. IInv => StackInBounds
    BY DEF IInv
  <1> QED
    BY <1>1, Invariant, PTL

-----------------------------------------------------------------------------
(* Steps that throw, and conditional jumps. *)

\* A step that throws changes no byte of RAM, no register and no flag, for every
\* program: each action's store depends on the check that may throw.
THEOREM NoTrace == Spec => ThrowsLeaveNoTrace
  <1> DEFINE Clean == outcome = "exec" /\ outcome' = "thrown"
                          => UNCHANGED <<RAM, registers, flags>>
  <1>1. [Next]_vars => [Clean]_vars
    <2> SUFFICES ASSUME Next, outcome = "exec", outcome' = "thrown"
                 PROVE  UNCHANGED <<RAM, registers, flags>>
      BY Zenon
    <2>1. CASE Nop \/ PrintValue \/ PrintFlush \/ Halt \/ InvalidInstruction \/ DivByZero
      BY <2>1 DEF Nop, PrintValue, PrintFlush, Halt, InvalidInstruction, DivByZero,
                  data, comparison
    <2>2. CASE Mov \/ Add \/ Sub \/ Mul \/ Div
      <3> SUFFICES ASSUME NEW op, NEW STATE result, Compute(op, result)
                   PROVE  UNCHANGED <<RAM, registers, flags>>
        BY <2>2 DEF Mov, Add, Sub, Mul, Div
      <3> QED
        BY DEF Compute, data, comparison
    <2>3. CASE Input
      BY <2>3 DEF Input, data, comparison
    <2>4. CASE Cmp
      BY <2>4 DEF Cmp, data, comparison
    <2>5. CASE Jmp \/ Je \/ Jne \/ Jg \/ Jng
      BY <2>5 DEF Jmp, Je, Jne, Jg, Jng, Jump, data, comparison
    <2>6. CASE Spush \/ Call
      BY <2>6 DEF Spush, Call, Push, comparison
    <2>7. CASE Spop
      BY <2>7 DEF Spop, data, comparison
    <2>8. CASE CallNonLabel \/ Ret
      BY <2>8 DEF CallNonLabel, Ret, data, comparison
    <2>9. CASE Halloc
      BY <2>9 DEF Halloc, BeginHalloc, comparison
    <2>10. CASE HallocStore
      BY <2>10 DEF HallocStore, data, comparison
    <2>11. CASE Hfree
      BY <2>11 DEF Hfree, BeginHfree, HfreeThrows, HfreeUndefined, heap_vars, comparison
    <2>12. CASE HeapLoop
      <3>1. heap_op' = "thrown" /\ UNCHANGED <<registers, flags>>
        BY <2>12 DEF HeapLoop, comparison
      <3>2. RAM' = RAM
        BY <3>1, <2>12
        DEF HeapLoop, HeapStep, HallocOverflow, HallocSkip, HallocTake, HallocUndefined,
            HfreeMerge, HfreeAdvance, HfreeDone
      <3> QED
        BY <3>1, <3>2
    <2>13. CASE Fbset \/ Fbsync \/ Finish
      BY <2>13 DEF Fbset, Fbsync, Finish, data, comparison
    <2> QED
      BY <2>1, <2>2, <2>3, <2>4, <2>5, <2>6, <2>7, <2>8, <2>9, <2>10, <2>11, <2>12, <2>13
      DEF Next
  <1> QED
    BY <1>1, PTL DEF Spec, ThrowsLeaveNoTrace

\* The flags tell how the operands of the last CMP compare.
FlagsTell ==
    /\ flags.zero <=> compared[1] = compared[2]
    /\ flags.sign <=> compared[1] > compared[2]

\* Only CMP touches the flags.
LEMMA OnlyCmp ==
    ASSUME Next
    PROVE  Cmp \/ UNCHANGED comparison
  BY DEF Next, Nop, PrintValue, PrintFlush, Halt, InvalidInstruction, DivByZero, Mov, Add,
         Sub, Mul, Div, Compute, Input, Jmp, Je, Jne, Jg, Jng, Jump, Spush, Spop, Call,
         CallNonLabel, Ret, Halloc, HallocStore, Hfree, HeapLoop, Fbset, Fbsync, Finish

\* What the flags tell stays true.
LEMMA FlagsInvariant == Spec => []FlagsTell
  <1>1. Init => FlagsTell
    BY DEF Init, FlagsTell
  <1>2. IInv /\ FlagsTell /\ [Next]_vars => FlagsTell'
    <2> SUFFICES ASSUME IInv, FlagsTell, [Next]_vars PROVE FlagsTell'
      OBVIOUS
    <2>1. CASE UNCHANGED comparison
      BY <2>1 DEF comparison, FlagsTell
    <2>2. CASE Cmp
      <3>1. TypeOK /\ first \in RawArgument /\ second \in RawArgument
        BY <2>2, ArgumentTypes DEF IInv, Cmp
      <3>2. CASE UNCHANGED comparison
        BY <3>2 DEF comparison, FlagsTell
      <3>3. CASE Both(UseValue(first, {NUMBER}), UseValue(second, {NUMBER})) = "exec"
        <4>1. Operand(first) \in MemCell /\ Operand(second) \in MemCell
          BY <3>1, <3>3, OperandType DEF Both
        <4>2. Operand(first) \in Int /\ Operand(second) \in Int
          BY <4>1, WordRanges DEF MemCell
        <4>3. /\ flags' = [zero |-> Operand(first) - Operand(second) = 0,
                           sign |-> Operand(first) - Operand(second) > 0]
              /\ compared' = <<Operand(first), Operand(second)>>
          BY <2>2, <3>3 DEF Cmp
        <4>4. /\ flags'.zero <=> Operand(first) - Operand(second) = 0
              /\ flags'.sign <=> Operand(first) - Operand(second) > 0
          BY <4>3
        <4>5. compared'[1] = Operand(first) /\ compared'[2] = Operand(second)
          BY <4>3
        <4> QED
          BY <4>2, <4>4, <4>5 DEF FlagsTell
      <3> QED
        BY <2>2, <3>2, <3>3 DEF Cmp
    <2>3. CASE UNCHANGED vars
      BY <2>3 DEF vars, comparison, FlagsTell
    <2> QED
      BY <2>1, <2>2, <2>3, OnlyCmp
  <1> QED
    BY <1>1, <1>2, Invariant, PTL DEF Spec

\* An instruction's action is the only one that is taken on its opcode.
LEMMA JumpDispatch ==
    ASSUME TypeOK, Next
    PROVE  /\ Executing(JE) => Je
           /\ Executing(JNE) => Jne
           /\ Executing(JG) => Jg
           /\ Executing(JNG) => Jng
  <1>1. ASSUME NEW op \in {JE, JNE, JG, JNG}, Executing(op)
        PROVE  /\ ~ (\E other \in Opcodes \ {op} : Executing(other))
               /\ heap_op = "none" /\ running /\ PC < last_code_sector
               /\ RAM[PC] \in Opcodes
    BY <1>1 DEF Executing, Opcodes
  <1>2. ASSUME NEW op \in {JE, JNE, JG, JNG}, Executing(op)
        PROVE  ~ HallocStore /\ ~ HeapLoop /\ ~ InvalidInstruction
    BY <1>1, <1>2
    DEF HallocStore, HeapLoop, HeapStep, HallocOverflow, HallocSkip, HallocTake,
        HallocUndefined, HfreeMerge, HfreeAdvance, HfreeDone, InvalidInstruction
  <1>3. ASSUME NEW op \in {JE, JNE, JG, JNG}, Executing(op)
        PROVE  ~ Finish
    <2>1. PC \in Int /\ last_code_sector \in Int
      BY Layout, WordRanges DEF TypeOK, MemAddr, last_code_sector
    <2> QED
      BY <1>1, <1>3, <2>1 DEF Finish
  <1>4. Next => \/ HallocStore \/ HeapLoop \/ InvalidInstruction \/ Finish
                \/ Je \/ Jne \/ Jg \/ Jng
                \/ \E other \in Opcodes \ {JE, JNE, JG, JNG} : Executing(other)
    <2>1. {NOP, MOV, PRINT, PRINTFLUSH, ADD, SUB, MUL, DIV, INPUT, JMP, CMP, SPUSH, SPOP,
           HALLOC, HFREE, CALL, RET, FBSET, FBSYNC, HALT} \subseteq Opcodes \ {JE, JNE, JG, JNG}
      BY DEF Opcodes, NOP, MOV, PRINT, PRINTFLUSH, ADD, SUB, MUL, DIV, INPUT, JMP, CMP, JE,
             JNE, JG, JNG, SPUSH, SPOP, HALLOC, HFREE, CALL, RET, FBSET, FBSYNC, HALT
    <2>2. /\ Nop => Executing(NOP)
          /\ Mov => Executing(MOV)
          /\ PrintValue => Executing(PRINT)
          /\ PrintFlush => Executing(PRINTFLUSH)
          /\ Add => Executing(ADD)
          /\ Sub => Executing(SUB)
          /\ Mul => Executing(MUL)
          /\ Div \/ DivByZero => Executing(DIV)
      BY DEF Nop, Mov, PrintValue, PrintFlush, Add, Sub, Mul, Div, DivByZero, Compute
    <2>3. /\ Input => Executing(INPUT)
          /\ Jmp => Executing(JMP)
          /\ Cmp => Executing(CMP)
          /\ Spush => Executing(SPUSH)
          /\ Spop => Executing(SPOP)
          /\ Halloc => Executing(HALLOC)
          /\ Hfree => Executing(HFREE)
          /\ Call \/ CallNonLabel => Executing(CALL)
          /\ Ret => Executing(RET)
      BY DEF Input, Jmp, Jump, Cmp, Spush, Spop, Halloc, Hfree, Call, CallNonLabel, Ret
    <2>4. /\ Fbset => Executing(FBSET)
          /\ Fbsync => Executing(FBSYNC)
          /\ Halt => Executing(HALT)
      BY DEF Fbset, Fbsync, Halt
    <2> QED
      BY <2>1, <2>2, <2>3, <2>4 DEF Next
  <1>5. Je => Executing(JE)
    BY DEF Je, Jump
  <1>6. Jne => Executing(JNE)
    BY DEF Jne, Jump
  <1>7. Jg => Executing(JG)
    BY DEF Jg, Jump
  <1>8. Jng => Executing(JNG)
    BY DEF Jng, Jump
  <1>9. /\ JE # JNE /\ JE # JG /\ JE # JNG /\ JNE # JG /\ JNE # JNG /\ JG # JNG
        /\ {JE, JNE, JG, JNG} \subseteq Opcodes
    BY DEF JE, JNE, JG, JNG, Opcodes
  <1> QED
    BY <1>1, <1>2, <1>3, <1>4, <1>5, <1>6, <1>7, <1>8, <1>9

\* Conditional jumps go by the operands of the last CMP, for every program and
\* whatever ran since.
THEOREM JumpsAreRight == Spec => JumpsFollowComparison
  <1> DEFINE Right == /\ Goes(JE, compared[1] = compared[2])
                      /\ Goes(JNE, compared[1] # compared[2])
                      /\ Goes(JG, compared[1] > compared[2])
                      /\ Goes(JNG, compared[1] =< compared[2])
  <1>1. IInv /\ FlagsTell /\ [Next]_vars => [Right]_vars
    <2> SUFFICES ASSUME IInv, FlagsTell, Next PROVE Right
      BY Zenon
    <2> TypeOK
      BY DEF IInv
    <2>1. Goes(JE, compared[1] = compared[2])
      BY JumpDispatch DEF Goes, Je, Jump, FlagsTell
    <2>2. Goes(JNE, compared[1] # compared[2])
      BY JumpDispatch DEF Goes, Jne, Jump, FlagsTell
    <2>3. Goes(JG, compared[1] > compared[2])
      BY JumpDispatch DEF Goes, Jg, Jump, FlagsTell
    <2>4. Goes(JNG, compared[1] =< compared[2])
      <3>1. compared[1] =< compared[2] <=> ~ (compared[1] > compared[2])
        BY WordRanges DEF IInv, TypeOK, MemCell
      <3> QED
        BY <3>1, JumpDispatch DEF Goes, Jng, Jump, FlagsTell
    <2> QED
      BY <2>1, <2>2, <2>3, <2>4
  <1> QED
    BY <1>1, Invariant, FlagsInvariant, PTL DEF Spec, JumpsFollowComparison

-----------------------------------------------------------------------------
(* The bytes of the stack. *)

\* The bytes of s are those of ram from sp on, but for the three that the last
\* heap chunk reaches.
Matches(ram, sp, s) ==
    \A k \in 1 .. Len(s) :
        sp + k - 1 >= stack_limit + heap_header_block_size => ram[sp + k - 1] = s[k]

\* HALLOC's loop stands on a header as long as the chain is intact: what keeps
\* the header it splits off below the stack.
OnChain == outcome = "exec" /\ heap_op = "halloc" /\ ChainIntact => cursor \in ChunkStarts

\* StackHoldsPushes needs OnChain to be inductive.
Kept == (outcome = "exec" => Matches(RAM, SP, pushed)) /\ OnChain

\* What the invariants say of the stack while exec runs.
LEMMA StackTypes ==
    ASSUME IInv, outcome = "exec"
    PROVE  /\ RAM \in Ram /\ pushed \in Seq(MemCell) /\ Len(pushed) \in Nat
           /\ DOMAIN pushed = 1 .. Len(pushed)
           /\ SP \in Nat /\ heap_limit =< SP /\ SP =< stack_top
           /\ Len(pushed) = stack_top - SP
           /\ \A k \in 1 .. Len(pushed) : SP + k - 1 \in 0 .. (RamSize - 1)
  <1>1. /\ RAM \in Ram /\ pushed \in Seq(MemCell) /\ Len(pushed) \in Nat
        /\ DOMAIN pushed = 1 .. Len(pushed)
    BY DEF IInv, TypeOK, Ram
  <1>2. /\ SP \in Nat /\ heap_limit =< SP /\ SP =< stack_top
        /\ Len(pushed) = stack_top - SP
    BY WordRanges DEF IInv, TypeOK, MemAddr, StackInBounds, DepthIsCounted, stack_limit
  <1>3. \A k \in 1 .. Len(pushed) : SP + k - 1 \in 0 .. (RamSize - 1)
    BY <1>1, <1>2, Layout
  <1> QED
    BY <1>1, <1>2, <1>3

\* A byte stored, and the same byte of the stack overwritten.
LEMMA OverwrittenMatches ==
    ASSUME IInv, outcome = "exec", Matches(RAM, SP, pushed),
           NEW a \in 0 .. (RamSize - 1), NEW v \in MemCell
    PROVE  Matches([RAM EXCEPT ![a] = v], SP, Overwritten(a, v))
  <1> DEFINE ram == [RAM EXCEPT ![a] = v]
             over == Overwritten(a, v)
  <1>1. over \in Seq(MemCell) /\ Len(over) = Len(pushed)
    BY StackTypes, OverwrittenType
  <1>2. ASSUME NEW k \in 1 .. Len(over), SP + k - 1 >= stack_limit + heap_header_block_size
        PROVE  ram[SP + k - 1] = over[k]
    <2>1. k \in 1 .. Len(pushed) /\ k \in DOMAIN pushed /\ SP + k - 1 \in 0 .. (RamSize - 1)
      BY <1>1, StackTypes
    <2>2. over[k] = IF SP + k - 1 = a THEN v ELSE pushed[k]
      BY <2>1 DEF Overwritten
    <2>3. ram[SP + k - 1] = IF SP + k - 1 = a THEN v ELSE RAM[SP + k - 1]
      BY <2>1, StackTypes DEF Ram
    <2>4. RAM[SP + k - 1] = pushed[k]
      BY <1>2, <2>1 DEF Matches
    <2> QED
      BY <2>2, <2>3, <2>4
  <1> HIDE DEF ram, over
  <1>3. Matches(ram, SP, over)
    BY <1>2 DEF Matches
  <1> QED
    BY <1>3 DEF ram, over

\* A store.
LEMMA StoreMatches ==
    ASSUME IInv, outcome = "exec", Matches(RAM, SP, pushed), SP' = SP,
           NEW p \in Places, NEW v \in MemCell, Store(p, v)
    PROVE  Matches(RAM', SP', pushed')
  <1>1. CASE p.space = "registers"
    BY <1>1 DEF Store
  <1>2. CASE p.space # "registers"
    <2>1. p.at \in 0 .. (RamSize - 1)
      BY <1>2 DEF Places
    <2>2. RAM' = [RAM EXCEPT ![p.at] = v] /\ pushed' = Overwritten(p.at, v)
      BY <1>2 DEF Store
    <2> QED
      BY <2>1, <2>2, OverwrittenMatches
  <1> QED
    BY <1>1, <1>2

\* A push that does not throw.
LEMMA PushMatches ==
    ASSUME IInv, outcome = "exec", Matches(RAM, SP, pushed),
           NEW bytes \in Seq(MemCell), Len(bytes) \in {1, 2}, Push(bytes), outcome' = "exec"
    PROVE  Matches(RAM', SP', pushed')
  <1>1. PICK n \in {1, 2} : n = Len(bytes)
    OBVIOUS
  <1>2. SP - n \in MemAddr /\ SP - n \in Nat
    BY StackTypes, Layout, WordRanges DEF IInv, TypeOK, MemAddr
  <1>3. PICK sp \in Nat : sp = SP - n
    BY <1>2
  <1>4. SP' = sp
    BY <1>1, <1>2, <1>3, AddrOfAddr DEF Push
  <1>5. /\ RAM' = [a \in DOMAIN RAM |-> IF a \in sp .. (sp + n - 1)
                                        THEN bytes[a - sp + 1] ELSE RAM[a]]
        /\ pushed' = bytes \o pushed
    BY <1>1, <1>4 DEF Push
  <1> DEFINE ram == [a \in DOMAIN RAM |-> IF a \in sp .. (sp + n - 1)
                                          THEN bytes[a - sp + 1] ELSE RAM[a]]
             s == bytes \o pushed
  <1>6. /\ Len(s) = n + Len(pushed)
        /\ \A k \in 1 .. n : s[k] = bytes[k]
        /\ \A k \in (n + 1) .. (n + Len(pushed)) : s[k] = pushed[k - n]
    BY <1>1, StackTypes, ConcatProperties
  <1>7. ASSUME NEW k \in 1 .. Len(s), sp + k - 1 >= stack_limit + heap_header_block_size
        PROVE  ram[sp + k - 1] = s[k]
    <2> HIDE DEF s
    <2>1. k \in Nat /\ 1 =< k /\ k =< n + Len(pushed) /\ Len(pushed) \in Nat
      BY <1>6, StackTypes
    <2>2. sp + k - 1 \in DOMAIN RAM
      <3>1. sp + k - 1 \in 0 .. (RamSize - 1)
        <4>1. SP \in Nat /\ SP =< stack_top /\ Len(pushed) = stack_top - SP
          BY StackTypes
        <4>2. stack_top \in Nat /\ stack_top < RamSize /\ RamSize \in Nat
          BY Layout
        <4> QED
          BY <1>3, <2>1, <4>1, <4>2
      <3> QED
        BY <3>1, StackTypes DEF Ram
    <2>3. ram[sp + k - 1] = IF sp + k - 1 \in sp .. (sp + n - 1)
                            THEN bytes[(sp + k - 1) - sp + 1] ELSE RAM[sp + k - 1]
      BY <2>2
    <2> HIDE DEF ram
    <2>4. CASE k =< n
      <3>1. sp + k - 1 \in sp .. (sp + n - 1) /\ (sp + k - 1) - sp + 1 = k
        BY <2>1, <2>4
      <3> QED
        BY <2>1, <2>3, <2>4, <3>1, <1>6
    <2>5. CASE ~ (k =< n)
      <3>1. PICK j \in 1 .. Len(pushed) : j = k - n
        BY <2>1, <2>5
      <3>2. sp + k - 1 = SP + j - 1 /\ sp + k - 1 \notin sp .. (sp + n - 1)
        BY <1>3, <2>1, <2>5, <3>1, StackTypes
      <3>3. RAM[SP + j - 1] = pushed[j]
        BY <1>7, <3>1, <3>2 DEF Matches
      <3>4. s[k] = pushed[j]
        BY <1>6, <2>1, <2>5, <3>1
      <3> QED
        BY <2>3, <3>2, <3>3, <3>4
    <2> QED
      BY <2>1, <2>4, <2>5
  <1> HIDE DEF ram, s
  <1>8. Matches(ram, sp, s)
    BY <1>7 DEF Matches
  <1> QED
    BY <1>4, <1>5, <1>8 DEF ram, s

\* A pop of bytes that are there.
LEMMA PopMatches ==
    ASSUME NEW ram, NEW sp \in Nat, NEW n \in {1, 2}, NEW s \in Seq(MemCell),
           n =< Len(s), Matches(ram, sp, s)
    PROVE  Matches(ram, sp + n, SubSeq(s, n + 1, Len(s)))
  <1>1. Len(s) \in Nat /\ n + 1 =< Len(s) + 1
    OBVIOUS
  <1>2. PICK t : t = SubSeq(s, n + 1, Len(s))
    OBVIOUS
  <1>3. Len(t) = Len(s) - n /\ \A k \in 1 .. Len(t) : t[k] = s[k + n]
    <2>1. /\ Len(SubSeq(s, n + 1, Len(s))) = Len(s) - (n + 1) + 1
          /\ \A k \in 1 .. (Len(s) - (n + 1) + 1) :
                SubSeq(s, n + 1, Len(s))[k] = s[(n + 1) + k - 1]
      BY <1>1, SubSeqProperties
    <2>2. Len(t) = Len(s) - n
      BY <1>1, <1>2, <2>1
    <2>3. ASSUME NEW k \in 1 .. Len(t) PROVE t[k] = s[k + n]
      <3>1. k \in 1 .. (Len(s) - (n + 1) + 1) /\ (n + 1) + k - 1 = k + n
        BY <1>1, <2>2
      <3> QED
        BY <1>2, <2>1, <3>1
    <2> QED
      BY <2>2, <2>3
  <1>4. ASSUME NEW k \in 1 .. Len(t),
               (sp + n) + k - 1 >= stack_limit + heap_header_block_size
        PROVE  ram[(sp + n) + k - 1] = t[k]
    <2>1. PICK j \in 1 .. Len(s) : j = k + n
      BY <1>1, <1>3
    <2>2. (sp + n) + k - 1 = sp + j - 1
      BY <1>1, <1>3, <2>1
    <2>3. ram[sp + j - 1] = s[j]
      BY <1>4, <2>2 DEF Matches
    <2> QED
      BY <1>3, <2>1, <2>2, <2>3
  <1>5. Matches(ram, sp + n, t)
    BY <1>4 DEF Matches
  <1> QED
    BY <1>2, <1>5

\* A chain is where the bytes of RAM say.
LEMMA ChainOfRam ==
    ASSUME RAM' = RAM
    PROVE  ChunkStarts' = ChunkStarts /\ ChainIntact' = ChainIntact
  BY DEF ChunkStarts, Leads, ChunkEnd, ChainIntact, next_chunk, dimension

\* A header, or part of one, below the stack does not reach its bytes.
LEMMA HeaderBelow ==
    ASSUME NEW ram \in Ram, NEW c \in Nat, NEW dim, NEW st,
           c + 2 < stack_limit + heap_header_block_size,
           NEW a \in 0 .. (RamSize - 1), a >= stack_limit + heap_header_block_size
    PROVE  /\ WithDimension(ram, c, dim)[a] = ram[a]
           /\ WithHeader(ram, c, dim, st)[a] = ram[a]
  <1>1. a # c /\ a # c + 1 /\ a # c + 2
    BY Layout DEF stack_limit, heap_header_block_size
  <1>2. WithDimension(ram, c, dim)[a] = ram[a]
    BY <1>1 DEF WithDimension, Ram
  <1>3. WithDimension(ram, c, dim) \in [0 .. (RamSize - 1) -> {WithDimension(ram, c, dim)[b] : b \in 0 .. (RamSize - 1)}]
    BY DEF WithDimension, Ram
  <1> QED
    BY <1>1, <1>2, <1>3 DEF WithHeader

\* On an intact chain a pass of a loop writes below the stack.
LEMMA HeapStepBelow ==
    ASSUME IInv, outcome = "exec", OnChain, ChainIntact, HeapStep,
           NEW a \in 0 .. (RamSize - 1), a >= stack_limit + heap_header_block_size
    PROVE  RAM'[a] = RAM[a]
  <1>1. /\ RAM \in Ram /\ cursor \in Nat /\ size \in Nat
        /\ heap_limit \in Nat /\ heap_limit + 3 < RamSize
    BY WordRanges, Layout DEF IInv, TypeOK, Ram, MemAddr
  <1>2. CASE HfreeMerge
    <2>1. cursor + 2 < stack_limit + heap_header_block_size
      BY <1>1, <1>2 DEF HfreeMerge, HasNext, stack_limit, heap_header_block_size
    <2>2. RAM' = WithDimension(RAM, cursor, Merged(cursor))
      BY <1>2 DEF HfreeMerge
    <2> QED
      BY <1>1, <2>1, <2>2, HeaderBelow
  <1>3. CASE HallocTake
    <2>1. cursor < heap_limit /\ heap_op = "halloc"
      BY <1>3 DEF HallocTake
    <2>2. cursor + 2 < stack_limit + heap_header_block_size
      BY <1>1, <2>1 DEF stack_limit, heap_header_block_size
    <2>3. cursor < HeapEnd /\ HeapEnd = heap_limit + 3
      BY <1>1, <2>1 DEF HeapEnd, heap_header_block_size
    <2>4. ChunkEnd(cursor) =< HeapEnd
      BY <1>1, <2>1, <2>3, IntactChain DEF OnChain
    <2>5. dimension(cursor) \in Nat
      <3>1. cursor + 1 < RamSize
        BY <1>1, <2>1, Layout
      <3> QED
        BY <1>1, <3>1, ChunkDimension
    <2>6. cursor + 3 + dimension(cursor) =< heap_limit + 3
      BY <2>3, <2>4 DEF ChunkEnd, heap_header_block_size
    <2>7. SplitOff(RAM, cursor) \in Ram /\ SplitOff(RAM, cursor)[a] = RAM[a]
      <3>1. CASE Granted(cursor) = dimension(cursor)
        BY <1>1, <3>1 DEF SplitOff
      <3>2. CASE Granted(cursor) # dimension(cursor)
        <4>1. dimension(cursor) > size + 3
          BY <3>2 DEF Granted, heap_header_block_size
        <4>2. PICK c \in Nat : c = cursor + heap_header_block_size + size
          BY <1>1 DEF heap_header_block_size
        <4>3. PICK dim \in Nat : dim = dimension(cursor) - heap_header_block_size - size
          BY <1>1, <2>5, <4>1 DEF heap_header_block_size
        <4>4. c + 2 < stack_limit + heap_header_block_size
          BY <1>1, <2>5, <2>6, <4>1, <4>2 DEF stack_limit, heap_header_block_size
        <4>5. SplitOff(RAM, cursor) = WithHeader(RAM, c, dim, FREE)
          BY <3>2, <4>2, <4>3 DEF SplitOff
        <4>6. FREE \in MemCell
          BY LayoutTypes DEF FREE
        <4> QED
          BY <1>1, <4>4, <4>5, <4>6, HeaderBelow, HeaderType
      <3> QED
        BY <3>1, <3>2
    <2>8. PICK ram \in Ram : ram = SplitOff(RAM, cursor)
      BY <2>7
    <2>9. RAM' = WithHeader(ram, cursor, Granted(cursor), OWNED)
      BY <1>3, <2>8 DEF HallocTake
    <2>10. WithHeader(ram, cursor, Granted(cursor), OWNED)[a] = ram[a]
      BY <1>1, <2>2, HeaderBelow
    <2> QED
      BY <2>7, <2>8, <2>9, <2>10
  <1>4. CASE ~ HfreeMerge /\ ~ HallocTake
    BY <1>4 DEF HeapStep, HallocOverflow, HallocSkip, HallocUndefined, HfreeAdvance, HfreeDone
  <1> QED
    BY <1>2, <1>3, <1>4

\* A pass of a heap loop keeps the stack's bytes and its own place on the chain.
LEMMA HeapLoopKept ==
    ASSUME IInv, Kept, HeapLoop
    PROVE  Kept'
  <1>1. /\ outcome = "exec" /\ HeapStep /\ SP' = SP
        /\ Matches(RAM, SP, pushed) /\ OnChain
    BY DEF Kept, HeapLoop
  <1>2. Matches(RAM', SP', pushed')
    <2>1. CASE ChainIntact
      <3>1. pushed' = pushed
        BY <2>1 DEF HeapLoop
      <3>2. ASSUME NEW k \in 1 .. Len(pushed),
                   SP + k - 1 >= stack_limit + heap_header_block_size
            PROVE  RAM'[SP + k - 1] = pushed[k]
        <4>1. PICK a \in 0 .. (RamSize - 1) : a = SP + k - 1
          BY <1>1, StackTypes
        <4>2. RAM'[a] = RAM[a]
          BY <1>1, <2>1, <3>2, <4>1, HeapStepBelow
        <4>3. RAM[SP + k - 1] = pushed[k]
          BY <1>1, <3>2 DEF Matches
        <4> QED
          BY <4>1, <4>2, <4>3
      <3> QED
        BY <1>1, <3>1, <3>2 DEF Matches
    <2>2. CASE ~ ChainIntact
      <3>1. pushed' = [k \in 1 .. Len(pushed) |-> RAM'[SP + k - 1]]
        BY <1>1, <2>2, StackTypes DEF HeapLoop
      <3>2. Len(pushed) \in Nat
        BY <1>1, StackTypes
      <3>3. Len(pushed') = Len(pushed)
        BY <3>1, <3>2
      <3> QED
        BY <1>1, <3>1, <3>3 DEF Matches
    <2> QED
      BY <2>1, <2>2
  <1>3. OnChain'
    <2> SUFFICES ASSUME heap_op' = "halloc", ChainIntact' PROVE cursor' \in ChunkStarts'
      BY DEF OnChain
    <2>1. HallocSkip
      BY <1>1 DEF HeapStep, HallocOverflow, HallocTake, HallocUndefined, HallocSkip, HfreeMerge,
                  HfreeAdvance, HfreeDone
    <2>2. /\ RAM' = RAM /\ heap_op = "halloc" /\ cursor < heap_limit
          /\ cursor' = next_chunk(cursor)
      BY <2>1 DEF HallocSkip
    <2>3. RAM \in Ram /\ ChainIntact /\ cursor \in ChunkStarts
      BY <1>1, <2>2, ChainOfRam, StackTypes DEF OnChain
    <2>4. cursor < HeapEnd
      <3>1. cursor \in Nat /\ heap_limit \in Nat
        BY WordRanges, Layout DEF IInv, TypeOK, MemAddr
      <3> QED
        BY <2>2, <3>1 DEF HeapEnd, heap_header_block_size
    <2>5. next_chunk(cursor) \in ChunkStarts
      BY <2>3, <2>4, IntactChain
    <2> QED
      BY <2>2, <2>5, ChainOfRam
  <1> QED
    BY <1>2, <1>3 DEF Kept

\* A step that moves neither RAM nor the stack keeps it, if it does not enter
\* HALLOC's loop.
LEMMA StillKept ==
    ASSUME Kept, outcome = "exec", UNCHANGED <<RAM, SP, pushed>>, heap_op' # "halloc"
    PROVE  Kept'
  BY DEF Kept, OnChain

\* The instructions that leave RAM and the stack alone.
LEMMA PlainKept ==
    ASSUME IInv, Kept,
           \/ Nop \/ PrintValue \/ PrintFlush \/ Halt \/ InvalidInstruction \/ DivByZero
           \/ Cmp \/ Jmp \/ Je \/ Jne \/ Jg \/ Jng \/ CallNonLabel \/ Fbsync \/ Finish
    PROVE  Kept'
  <1>1. CASE \/ Nop \/ PrintValue \/ PrintFlush \/ Halt \/ InvalidInstruction \/ DivByZero
             \/ Cmp \/ CallNonLabel \/ Fbsync \/ Finish
    <2>1. outcome = "exec" /\ heap_op = "none" /\ UNCHANGED <<data, between, SP>>
      BY <1>1 DEF Nop, PrintValue, PrintFlush, Halt, InvalidInstruction, DivByZero, Cmp,
                  CallNonLabel, Fbsync, Finish, Executing
    <2> QED
      BY <2>1, StillKept DEF data, between
  <1>2. CASE Jmp \/ Je \/ Jne \/ Jg \/ Jng
    <2>1. outcome = "exec" /\ heap_op = "none" /\ UNCHANGED <<data, between, SP>>
      BY <1>2 DEF Jmp, Je, Jne, Jg, Jng, Jump, Executing
    <2> QED
      BY <2>1, StillKept DEF data, between
  <1> QED
    BY <1>1, <1>2

\* An instruction that stores a byte where its use allows one.
LEMMA StoreKept ==
    ASSUME IInv, Kept, outcome = "exec", SP' = SP, heap_op' # "halloc",
           Stored
    PROVE  Kept'
  <1>1. OnChain'
    BY DEF OnChain
  <1>2. ASSUME outcome' = "exec" PROVE Matches(RAM', SP', pushed')
    <2>1. Matches(RAM, SP, pushed)
      BY DEF Kept
    <2>2. CASE UNCHANGED data
      BY <2>1, <2>2 DEF data
    <2>3. CASE \E p \in Places, v \in MemCell : Store(p, v)
      BY <2>1, <2>3, StoreMatches
    <2> QED
      BY <1>2, <2>2, <2>3 DEF Stored
  <1> QED
    BY <1>1, <1>2 DEF Kept

\* The instructions that store a byte.
LEMMA StoringKept ==
    ASSUME IInv, Kept,
           Mov \/ Add \/ Sub \/ Mul \/ Div \/ Input \/ Fbset \/ HallocStore
    PROVE  Kept'
  <1>1. CASE Mov \/ Add \/ Sub \/ Mul \/ Div
    <2>1. outcome = "exec" /\ SP' = SP /\ heap_op' = "none"
      BY <1>1 DEF Mov, Add, Sub, Mul, Div, Compute, Executing, between
    <2> QED
      BY <1>1, <2>1, ArithmeticInvariant, StoreKept
  <1>2. CASE Input
    <2>1. outcome = "exec" /\ SP' = SP /\ heap_op' = "none"
      BY <1>2 DEF Input, Executing, between
    <2> QED
      BY <1>2, <2>1, InputInvariant, StoreKept
  <1>3. CASE Fbset
    <2>1. outcome = "exec" /\ SP' = SP /\ heap_op' = "none"
      BY <1>3 DEF Fbset, Executing, between
    <2> QED
      BY <1>3, <2>1, FbsetInvariant, StoreKept
  <1>4. CASE HallocStore
    <2>1. outcome = "exec" /\ SP' = SP /\ heap_op' = "none"
      BY <1>4 DEF HallocStore
    <2> QED
      BY <1>4, <2>1, HallocStoreInvariant, StoreKept
  <1> QED
    BY <1>1, <1>2, <1>3, <1>4

\* SPUSH and CALL.
LEMMA PushingKept ==
    ASSUME IInv, Kept, Spush \/ Call
    PROVE  Kept'
  <1>1. outcome = "exec" /\ heap_op' = "none" /\ Matches(RAM, SP, pushed)
    BY DEF Spush, Call, Executing, between, Kept
  <1>2. OnChain'
    BY <1>1 DEF OnChain
  <1>3. TypeOK /\ first \in RawArgument /\ first.next \in Nat
    BY ArgumentTypes, WordRanges DEF IInv, Spush, Call, MemAddr
  <1>4. ASSUME outcome' = "exec" PROVE Matches(RAM', SP', pushed')
    <2>1. CASE Spush
      <3>1. UseValue(first, {NUMBER}) = "exec"
        BY <1>4, <2>1 DEF Spush
      <3>2. Operand(first) \in MemCell /\ 0 \in MemCell
        BY <1>3, <3>1, OperandType, LayoutTypes
      <3>3. PICK b : b = IF Width(first) = 1 THEN <<Operand(first)>> ELSE <<0, Operand(first)>>
        OBVIOUS
      <3>4. b \in Seq(MemCell) /\ Len(b) \in {1, 2}
        BY <3>2, <3>3
      <3>5. Push(b)
        BY <2>1, <3>1, <3>3 DEF Spush, Push
      <3> QED
        BY <1>1, <1>4, <3>4, <3>5, PushMatches
    <2>2. CASE Call
      <3>1. PICK b : b = <<High(first.next), Low(first.next)>>
        OBVIOUS
      <3>2. High(first.next) \in MemCell /\ Low(first.next) \in MemCell
        BY <1>3, ByteTypes
      <3>3. b \in Seq(MemCell) /\ Len(b) \in {1, 2}
        BY <3>1, <3>2
      <3>4. Push(b)
        BY <2>2, <3>1 DEF Call, Push
      <3> QED
        BY <1>1, <1>4, <3>3, <3>4, PushMatches
    <2> QED
      BY <2>1, <2>2
  <1> QED
    BY <1>2, <1>4 DEF Kept

\* A pop that does not underflow takes bytes that are there.
LEMMA EnoughPushed ==
    ASSUME IInv, outcome = "exec", NEW n \in {1, 2}, ~ Underflow(n)
    PROVE  n =< Len(pushed) /\ SP \in Nat /\ Addr(SP + n) = SP + n
  <1>1. /\ SP \in Nat /\ Len(pushed) = stack_top - SP
        /\ stack_top \in Nat /\ stack_top < RamSize
    BY StackTypes, Layout
  <1>2. SP + n =< stack_top
    BY <1>1 DEF Underflow
  <1>3. SP + n \in 0 .. RamSize - 1
    BY <1>1, <1>2, Layout
  <1> QED
    BY <1>1, <1>2, <1>3, LayoutTypes

\* SPOP and RET.
LEMMA PoppingKept ==
    ASSUME IInv, Kept, Spop \/ Ret
    PROVE  Kept'
  <1>1. outcome = "exec" /\ heap_op' = "none" /\ Matches(RAM, SP, pushed)
    BY DEF Spop, Ret, Executing, between, Kept
  <1>2. OnChain'
    BY <1>1 DEF OnChain
  <1>3. pushed \in Seq(MemCell) /\ RAM \in Ram
    BY <1>1, StackTypes
  <1>4. ASSUME outcome' = "exec" PROVE Matches(RAM', SP', pushed')
    <2>1. CASE Ret
      <3>1. /\ ~ Underflow(2) /\ RAM' = RAM
            /\ SP' = Addr(SP + 2) /\ pushed' = SubSeq(pushed, 3, Len(pushed))
        BY <1>4, <2>1 DEF Ret, Pop
      <3>2. 2 =< Len(pushed) /\ SP \in Nat /\ SP' = SP + 2
        BY <1>1, <3>1, EnoughPushed
      <3>3. Matches(RAM, SP + 2, SubSeq(pushed, 2 + 1, Len(pushed)))
        BY <1>1, <1>3, <3>2, PopMatches
      <3> QED
        BY <3>1, <3>2, <3>3
    <2>2. CASE Spop
      <3> DEFINE place == resolve_writeable_arg(first)
                 under == IF place.space = "RAM"
                          THEN Overwritten(place.at, RAM[SP + Width(first) - 1]) ELSE pushed
      <3>1. PICK n \in {1, 2} : n = Width(first)
        BY DEF Width
      <3>2. /\ ~ Underflow(n) /\ Use(place) = "exec" /\ SP' = Addr(SP + n)
            /\ pushed' = SubSeq(under, n + 1, Len(pushed))
            /\ IF place.space = "registers" THEN RAM' = RAM
               ELSE RAM' = [RAM EXCEPT ![place.at] = RAM[SP + n - 1]]
        BY <1>4, <2>2, <3>1 DEF Spop
      <3>3. n =< Len(pushed) /\ SP \in Nat /\ SP' = SP + n
        BY <1>1, <3>2, EnoughPushed
      <3>4. place \in Places
        <4>1. TypeOK /\ first \in RawArgument
          BY <2>2, ArgumentTypes DEF IInv, Spop
        <4> QED
          BY <3>2, <4>1, PlaceType
      <3>5. RAM[SP + n - 1] \in MemCell
        <4>1. Len(pushed) \in Nat /\ \A k \in 1 .. Len(pushed) : SP + k - 1 \in 0 .. (RamSize - 1)
          BY <1>1, StackTypes
        <4>2. SP + n - 1 \in 0 .. (RamSize - 1)
          BY <3>3, <4>1
        <4> QED
          BY <1>3, <4>2 DEF Ram
      <3>6. PICK s : s = under
        OBVIOUS
      <3>7. s \in Seq(MemCell) /\ Len(s) = Len(pushed) /\ Matches(RAM', SP, s)
        <4>1. CASE place.space = "RAM"
          <5>1. place.at \in 0 .. (RamSize - 1)
            BY <3>4, <4>1 DEF Places
          <5>2. s = Overwritten(place.at, RAM[SP + n - 1])
            BY <3>1, <3>6, <4>1
          <5>3. RAM' = [RAM EXCEPT ![place.at] = RAM[SP + n - 1]]
            BY <3>2, <4>1
          <5> HIDE DEF place, under
          <5> QED
            BY <1>1, <1>3, <3>5, <5>1, <5>2, <5>3, OverwrittenMatches, OverwrittenType
        <4>2. CASE place.space = "registers"
          BY <1>1, <1>3, <3>2, <3>6, <4>2
        <4> QED
          BY <3>4, <4>1, <4>2 DEF Places
      <3>8. Matches(RAM', SP + n, SubSeq(s, n + 1, Len(s)))
        <4>1. PICK ram : ram = RAM'
          OBVIOUS
        <4>2. Matches(ram, SP, s)
          BY <3>7, <4>1 DEF Matches
        <4>3. Matches(ram, SP + n, SubSeq(s, n + 1, Len(s)))
          BY <3>3, <3>7, <4>2, PopMatches
        <4> QED
          BY <4>1, <4>3
      <3> QED
        BY <3>2, <3>3, <3>6, <3>7, <3>8
    <2> QED
      BY <2>1, <2>2
  <1> QED
    BY <1>2, <1>4 DEF Kept

\* HALLOC and HFREE enter their loops at the first header.
LEMMA HeapEntryKept ==
    ASSUME IInv, Kept, Halloc \/ Hfree
    PROVE  Kept'
  <1>1. outcome = "exec" /\ heap_op = "none" /\ SP' = SP /\ Matches(RAM, SP, pushed)
    BY DEF Halloc, Hfree, Executing, Kept
  <1>2. CASE Halloc
    <2>1. RAM' = RAM /\ pushed' = pushed
      BY <1>2 DEF Halloc, BeginHalloc
    <2>2. heap_op' = "halloc" => cursor' = heap_start
      BY <1>1, <1>2 DEF Halloc, BeginHalloc, between
    <2>3. OnChain'
      <3> SUFFICES ASSUME heap_op' = "halloc", ChainIntact'
                   PROVE  cursor' \in ChunkStarts'
        BY DEF OnChain
      <3>1. RAM \in Ram /\ ChainIntact
        BY <1>1, <2>1, ChainOfRam, StackTypes
      <3>2. heap_start \in ChunkStarts
        BY <3>1, IntactChain
      <3> QED
        BY <2>1, <2>2, <3>2, ChainOfRam
    <2> QED
      BY <1>1, <2>1, <2>3 DEF Kept
  <1>3. CASE Hfree
    <2> DEFINE p == Value(first, {ADDRESS})
    <2>1. heap_op' # "halloc"
      BY <1>1, <1>3 DEF Hfree, BeginHfree, HfreeThrows, HfreeUndefined, heap_vars
    <2>2. CASE heap_op' = "hfree"
      <3>1. BeginHfree(p) /\ pushed' = Overwritten(HeaderOf(p) + 2, FREE)
            /\ UseValue(first, {ADDRESS}) = "exec"
        BY <1>1, <1>3, <2>2 DEF Hfree, HfreeThrows, HfreeUndefined, heap_vars
      <3>2. HeaderOf(p) + 2 < RamSize /\ RAM' = [RAM EXCEPT ![HeaderOf(p) + 2] = FREE]
        BY <3>1 DEF BeginHfree
      <3>3. HeaderOf(p) \in Nat
        <4>1. TypeOK /\ first \in RawArgument
          BY <1>3, ArgumentTypes DEF IInv, Hfree
        <4>2. p \in MemAddr
          BY <3>1, <4>1, ValueType
        <4>3. p - heap_header_block_size \in Int
          BY <4>2, WordRanges DEF MemAddr, heap_header_block_size
        <4> QED
          BY <4>3, ConversionTypes, WordRanges DEF HeaderOf, MemAddr
      <3>4. PICK a \in 0 .. (RamSize - 1) : a = HeaderOf(p) + 2
        <4> HIDE DEF p
        <4> QED
          BY <3>2, <3>3, Layout
      <3>5. FREE \in MemCell
        BY LayoutTypes DEF FREE
      <3>6. Matches([RAM EXCEPT ![a] = FREE], SP, Overwritten(a, FREE))
        BY <1>1, <3>5, OverwrittenMatches
      <3> QED
        BY <1>1, <2>1, <3>1, <3>2, <3>4, <3>6 DEF Kept, OnChain
    <2>3. CASE heap_op' # "hfree"
      <3>1. RAM' = RAM /\ pushed' = pushed
        BY <1>1, <1>3, <2>3 DEF Hfree, BeginHfree, HfreeThrows, HfreeUndefined, heap_vars
      <3> QED
        BY <1>1, <2>1, <3>1 DEF Kept, OnChain
    <2> QED
      BY <2>2, <2>3
  <1> QED
    BY <1>2, <1>3

\* Every step keeps the stack's bytes.
LEMMA KeptInvariant == Spec => []Kept
  <1>1. Init => Kept
    <2> SUFFICES ASSUME Init PROVE Kept
      OBVIOUS
    <2>1. pushed = <<>> /\ heap_op = "none"
      BY DEF Init
    <2>2. Matches(RAM, SP, pushed)
      BY <2>1 DEF Matches
    <2> QED
      BY <2>1, <2>2 DEF Kept, OnChain
  <1>2. IInv /\ Kept /\ [Next]_vars => Kept'
    <2> SUFFICES ASSUME IInv, Kept, [Next]_vars PROVE Kept'
      OBVIOUS
    <2>1. CASE UNCHANGED vars
      BY <2>1, ChainOfRam DEF vars, data, between, Kept, OnChain
    <2>2. CASE Next
      BY <2>2, PlainKept, StoringKept, PushingKept, PoppingKept, HeapEntryKept, HeapLoopKept
      DEF Next
    <2> QED
      BY <2>1, <2>2
  <1> QED
    BY <1>1, <1>2, Invariant, PTL DEF Spec

\* The bytes of the stack above its three lowest are those that were pushed and
\* not popped, unless an instruction has stored a byte at their address or the
\* program has damaged the headers that HALLOC and HFREE follow: for every
\* layout, every program and every input.  In the three lowest the last heap chunk
\* ends, and there HALLOC can overwrite what was pushed.
THEOREM StackKept == Spec => []StackHoldsPushes
  <1>1. IInv /\ Kept => StackHoldsPushes
    BY DEF IInv, DepthIsCounted, Kept, Matches, StackHoldsPushes
  <1> QED
    BY <1>1, Invariant, KeptInvariant, PTL

=============================================================================

---------------------------- MODULE CommonProofs ----------------------------
(***************************************************************************)
(* Facts that the proofs about several components rest on: the machine's   *)
(* integers (every conversion of include/types.hpp lands in its type),     *)
(* greatest and least numbers, that recursive definitions on an interval   *)
(* have solutions, where a function leads and when one simulates another,  *)
(* and what changes at offsets from a cell add to every cell.              *)
(***************************************************************************)
EXTENDS Word, SequenceTheorems, WellFoundedInduction, TLAPS

\* The ranges of the two integer types are numbers, and every byte is also a
\* 16-bit address.
LEMMA WordRanges ==
    /\ CellRange \in Nat /\ CellRange > 1
    /\ AddrRange \in Nat /\ AddrRange > 1
    /\ CellRange =< AddrRange
  <1>1. CellRange \in Nat /\ CellRange > 1
    BY CellRangeAssumption
  <1>2. CellRange * CellRange >= CellRange * 1
    BY <1>1, Z3
  <1> QED
    BY <1>1, <1>2 DEF AddrRange

\* A cell is an address.
LEMMA CellIsAddr == MemCell \subseteq MemAddr
  BY WordRanges DEF MemCell, MemAddr

\* A conversion to MemCell is a MemCell, one to MemAddr a MemAddr.
LEMMA ConversionTypes ==
    ASSUME NEW n \in Int
    PROVE  Cell(n) \in MemCell /\ Addr(n) \in MemAddr
  BY WordRanges DEF Cell, Addr, MemCell, MemAddr

\* A MemAddr that fits needs no conversion.
LEMMA AddrOfAddr ==
    ASSUME NEW n \in MemAddr
    PROVE  Addr(n) = n
  BY WordRanges DEF Addr, MemAddr

\* The two bytes of an address are bytes.
LEMMA ByteTypes ==
    ASSUME NEW v \in Nat
    PROVE  High(v) \in MemCell /\ Low(v) \in MemCell
  BY WordRanges DEF High, Low, MemCell

\* Two bytes make an address.
LEMMA JoinType ==
    ASSUME NEW high \in MemCell, NEW low \in MemCell
    PROVE  Join(high, low) \in MemAddr
  <1>1. /\ high \in Nat /\ low \in Nat
        /\ high =< CellRange - 1 /\ low =< CellRange - 1
    BY WordRanges DEF MemCell
  <1>2. high * CellRange =< (CellRange - 1) * CellRange
    BY <1>1, WordRanges, Z3
  <1>3. (CellRange - 1) * CellRange = CellRange * CellRange - CellRange
    BY WordRanges, Z3
  <1>4. high * CellRange \in Nat
    BY <1>1, WordRanges
  <1> QED
    BY <1>1, <1>2, <1>3, <1>4, WordRanges DEF Join, MemAddr, AddrRange

\* Multiplication keeps the order.
LEMMA TimesKeepsOrder ==
    ASSUME NEW a \in Nat, NEW b \in Nat, NEW c \in Nat, a =< b
    PROVE  c * a =< c * b
  BY Z3

\* The bytes of an address make that address again.
LEMMA JoinBytes ==
    ASSUME NEW v \in MemAddr
    PROVE  Join(High(v), Low(v)) = v
  <1> DEFINE q == v \div CellRange
             r == v % CellRange
  <1>1. v \in Nat /\ v < CellRange * CellRange
    BY WordRanges DEF MemAddr, AddrRange
  <1>2. q \in Nat /\ r \in Nat /\ v = CellRange * q + r
    BY <1>1, WordRanges, Z3
  <1>3. q < CellRange
    <2>1. CASE q >= CellRange
      <3>1. CellRange * q >= CellRange * CellRange
        BY <1>2, <2>1, WordRanges, TimesKeepsOrder
      <3>2. CellRange * q \in Nat /\ CellRange * CellRange \in Nat
        BY <1>2, WordRanges
      <3> HIDE DEF q, r
      <3> QED BY <1>1, <1>2, <3>1, <3>2
    <2> QED BY <2>1, <1>2, WordRanges
  <1>4. q % CellRange = q
    <2> HIDE DEF q
    <2> QED BY <1>2, <1>3, WordRanges
  <1>5. q * CellRange = CellRange * q
    BY <1>2, WordRanges
  <1> QED
    BY <1>2, <1>4, <1>5 DEF Join, High, Low

\* The remainder is the only number of one cell that differs by a multiple.
LEMMA CellIsRemainder ==
    ASSUME NEW k \in Int, NEW r \in MemCell
    PROVE  Cell(CellRange * k + r) = r
<1>. DEFINE n == CellRange * k + r
            q == n \div CellRange
            t == n % CellRange
<1>1. CellRange \in Nat /\ CellRange > 1 /\ r \in Nat /\ r < CellRange
  BY CellRangeAssumption DEF MemCell
<1>2. n \in Int
  BY <1>1
<1>3. q \in Int /\ t \in Nat /\ t < CellRange /\ n = CellRange * q + t
  <2>. HIDE DEF n
  <2>. QED
    BY <1>1, <1>2, Z3
<1>4. CellRange * (k - q) = t - r
  <2>1. CellRange * k + r = CellRange * q + t
    BY <1>3
  <2>2. CellRange * (k - q) = CellRange * k - CellRange * q /\ CellRange * k \in Int
        /\ CellRange * q \in Int
    BY <1>1, <1>3, Z3
  <2>. HIDE DEF q, t
  <2>. QED
    BY <1>1, <1>3, <2>1, <2>2
<1>. HIDE DEF q, t, n
<1>5. k - q < 1
  <2>. SUFFICES ASSUME k - q >= 1 PROVE FALSE
    BY <1>3
  <2>1. CellRange * (k - q) >= CellRange
    BY <1>1, <1>3, Z3
  <2>. QED
    BY <1>1, <1>3, <1>4, <2>1
<1>6. k - q > -1
  <2>. SUFFICES ASSUME k - q =< -1 PROVE FALSE
    BY <1>3
  <2>1. CellRange * (k - q) =< - CellRange
    BY <1>1, <1>3, Z3
  <2>. QED
    BY <1>1, <1>3, <1>4, <2>1
<1>7. k - q = 0
  BY <1>3, <1>5, <1>6
<1>8. t = r
  BY <1>1, <1>3, <1>4, <1>7
<1>. QED
  BY <1>8 DEF t, n, Cell

\* A number is a multiple of the range and a remainder.
LEMMA CellSplits ==
    ASSUME NEW n \in Int
    PROVE  Cell(n) \in MemCell /\ \E k \in Int : n = CellRange * k + Cell(n)
<1>1. CellRange \in Nat /\ CellRange > 1
  BY CellRangeAssumption
<1>. DEFINE q == n \div CellRange
            t == n % CellRange
<1>2. q \in Int /\ t \in Nat /\ t < CellRange /\ n = CellRange * q + t
  BY <1>1, Z3
<1>3. Cell(n) = t /\ Cell(n) \in MemCell
  BY ConversionTypes DEF Cell
<1>. HIDE DEF q, t
<1>. QED
  BY <1>2, <1>3

\* Multiples of the range make no difference.
LEMMA CellShift ==
    ASSUME NEW n \in Int, NEW k \in Int
    PROVE  Cell(CellRange * k + n) = Cell(n)
<1>1. PICK j \in Int : n = CellRange * j + Cell(n)
  BY CellSplits
<1>2. Cell(n) \in MemCell /\ Cell(n) \in Int /\ CellRange \in Int
  BY CellSplits, CellRangeAssumption DEF MemCell
<1>3. CellRange * k + (CellRange * j + Cell(n)) = CellRange * (k + j) + Cell(n)
  <2>1. CellRange * (k + j) = CellRange * k + CellRange * j
    BY <1>2, Z3
  <2>2. CellRange * k \in Int /\ CellRange * j \in Int
    BY <1>2
  <2>. QED
    BY <1>2, <2>1, <2>2
<1>4. k + j \in Int
  OBVIOUS
<1>5. Cell(CellRange * (k + j) + Cell(n)) = Cell(n)
  BY <1>2, <1>4, CellIsRemainder
<1>. QED
  BY <1>1, <1>3, <1>5

\* Sums, differences and products can be converted at any time.
LEMMA CellArithmetic ==
    ASSUME NEW a \in Int, NEW b \in Int
    PROVE  /\ Cell(Cell(a) + b) = Cell(a + b) /\ Cell(a + Cell(b)) = Cell(a + b)
           /\ Cell(Cell(a) - b) = Cell(a - b) /\ Cell(a - Cell(b)) = Cell(a - b)
           /\ Cell(a * Cell(b)) = Cell(a * b)
<1>1. PICK j \in Int : a = CellRange * j + Cell(a)
  BY CellSplits
<1>2. PICK k \in Int : b = CellRange * k + Cell(b)
  BY CellSplits
<1>. DEFINE x == Cell(a)
            y == Cell(b)
<1>3. x \in Int /\ y \in Int /\ CellRange \in Int
  BY CellSplits, CellRangeAssumption DEF MemCell
<1>. HIDE DEF x, y
<1>4. CellRange * j \in Int /\ CellRange * k \in Int /\ CellRange * (-k) \in Int
      /\ CellRange * (-k) = - (CellRange * k) /\ -k \in Int
  BY <1>3, Z3
<1>5. /\ a + b = CellRange * j + (x + b) /\ a + b = CellRange * k + (a + y)
      /\ a - b = CellRange * j + (x - b) /\ a - b = CellRange * (-k) + (a - y)
  <2>1. a = CellRange * j + x /\ b = CellRange * k + y
    BY <1>1, <1>2 DEF x, y
  <2>. DEFINE u == CellRange * j
              v == CellRange * k
              w == CellRange * (-k)
  <2>2. u \in Int /\ v \in Int /\ w = -v /\ a = u + x /\ b = v + y
    BY <1>4, <2>1
  <2>. HIDE DEF u, v, w
  <2>3. a + b = u + (x + b) /\ a + b = v + (a + y) /\ a - b = u + (x - b) /\ a - b = w + (a - y)
    BY <1>3, <2>2
  <2>. QED
    BY <2>3 DEF u, v, w
<1>6. a * b = CellRange * (a * k) + a * y /\ a * k \in Int /\ a * y \in Int
  <2>1. b = CellRange * k + y
    BY <1>2 DEF y
  <2>2. a * (CellRange * k + y) = a * (CellRange * k) + a * y
    BY <1>3, <1>4, Z3
  <2>3. a * (CellRange * k) = CellRange * (a * k)
    BY <1>3, Z3
  <2>. QED
    BY <1>3, <2>1, <2>2, <2>3
<1>7. x + b \in Int /\ a + y \in Int /\ x - b \in Int /\ a - y \in Int
  BY <1>3
<1>8. /\ Cell(a + b) = Cell(x + b) /\ Cell(a + b) = Cell(a + y)
      /\ Cell(a - b) = Cell(x - b) /\ Cell(a - b) = Cell(a - y)
  BY <1>4, <1>5, <1>7, CellShift
<1>9. Cell(a * b) = Cell(a * y)
  BY <1>6, CellShift
<1>. QED
  BY <1>8, <1>9 DEF x, y

-----------------------------------------------------------------------------
\* A set of numbers that is not empty and has a bound has a greatest element.
LEMMA GreatestOfBounded ==
    ASSUME NEW n \in Nat, NEW T \in SUBSET (0 .. n), T # {}
    PROVE  \E m \in T : \A k \in T : k =< m
<1>. DEFINE less == {ss \in Nat \X Nat : ss[1] < ss[2]}
            depths == {n - k : k \in T}
<1>1. IsWellFoundedOn(less, Nat)
  BY NatLessThanWellFounded, Zenon DEF OpToRel
<1>2. depths \subseteq Nat /\ depths # {}
  <2>. HIDE DEF less
  <2>1. PICK k \in T : TRUE
    OBVIOUS
  <2>2. n - k \in depths
    BY <2>1
  <2>3. \A j \in T : n - j \in Nat
    OBVIOUS
  <2>. QED
    BY <2>2, <2>3, Zenon
<1>3. \E x \in depths : \A y \in depths : <<y, x>> \notin less
  <2>. HIDE DEF less, depths
  <2>. QED
    BY <1>1, <1>2, WFMin
<1>4. PICK m \in T : \A k \in T : <<n - k, n - m>> \notin less
  BY <1>3
<1>5. \A k \in T : ~ (n - k < n - m)
  BY <1>2, <1>4
<1>. QED
  BY <1>5

\* A set of natural numbers that is not empty has a least element.
LEMMA LeastOfNat ==
    ASSUME NEW T \in SUBSET Nat, T # {}
    PROVE  \E m \in T : \A k \in T : m =< k
<1>. DEFINE less == {ss \in Nat \X Nat : ss[1] < ss[2]}
<1>1. IsWellFoundedOn(less, Nat)
  BY NatLessThanWellFounded, Zenon DEF OpToRel
<1>2. PICK m \in T : \A k \in T : <<k, m>> \notin less
  <2>. HIDE DEF less
  <2>. QED
    BY <1>1, WFMin
<1>3. \A k \in T : ~ (k < m)
  BY <1>2
<1>. QED
  BY <1>3

\* What holds of a, and of each number up to b if it holds of the one before, holds
\* of all from a to b.
LEMMA UpTo ==
    ASSUME NEW a \in Int, NEW b \in Int, NEW S, a \in S,
           \A k \in (a + 1) .. b : k - 1 \in S => k \in S
    PROVE  \A k \in a .. b : k \in S
<1>. DEFINE wrong == {m \in Nat : a + m =< b /\ a + m \notin S}
<1>1. wrong = {}
  <2>. SUFFICES ASSUME wrong # {} PROVE FALSE
    OBVIOUS
  <2>1. PICK m \in wrong : \A k \in wrong : m =< k
    <3>. wrong \in SUBSET Nat
      OBVIOUS
    <3>. HIDE DEF wrong
    <3>. QED
      BY LeastOfNat
  <2>2. m # 0
    BY <2>1
  <2>3. m - 1 \in Nat /\ m - 1 \notin wrong
    BY <2>1, <2>2
  <2>4. a + (m - 1) \in S /\ (a + m) - 1 = a + (m - 1)
    BY <2>1, <2>3
  <2>. QED
    BY <2>1, <2>2, <2>4
<1>2. ASSUME NEW k \in a .. b PROVE k \in S
  <2>1. k - a \in Nat /\ a + (k - a) = k /\ k =< b
    BY <1>2
  <2>2. k - a \notin wrong
    BY <1>1
  <2>. QED
    BY <2>1, <2>2
<1>. QED
  BY <1>2

\* step[<<k, s>>] is the value at k if s is the one at k - 1.
IsRun(f, S, base, a, b, step) ==
    /\ f \in [a .. b -> S]
    /\ f[a] = base
    /\ \A k \in (a + 1) .. b : f[k - 1] \in S /\ f[k] = step[<<k, f[k - 1]>>]

\* A definition that gives the value at k from the value at k - 1 has a solution.
LEMMA StepsHaveRun ==
    ASSUME NEW S, NEW base \in S, NEW a \in Int, NEW b \in Int, a =< b,
           NEW step \in [((a + 1) .. b) \X S -> S]
    PROVE  \E f : IsRun(f, S, base, a, b, step)
<1>. DEFINE n == b - a
<1>0. n \in Nat /\ b = a + n
  OBVIOUS
<1>. DEFINE Run(m, f) == /\ f \in [a .. (a + m) -> S]
                         /\ f[a] = base
                         /\ \A k \in (a + 1) .. (a + m) : f[k] = step[<<k, f[k - 1]>>]
            short == {m \in Nat : m =< n /\ ~ \E f : Run(m, f)}
<1>1. short = {}
  <2>. SUFFICES ASSUME short # {} PROVE FALSE
    OBVIOUS
  <2>1. PICK m \in short : \A k \in short : m =< k
    <3>. short \in SUBSET Nat
      OBVIOUS
    <3>. HIDE DEF short
    <3>. QED
      BY LeastOfNat
  <2>2. CASE m = 0
    <3>1. Run(0, [k \in a .. (a + 0) |-> base])
      OBVIOUS
    <3>. QED
      BY <2>1, <2>2, <3>1
  <2>3. CASE m # 0
    <3>1. m - 1 \in Nat /\ m - 1 =< n /\ m - 1 \notin short
      <4>. m \in Nat /\ m =< n
        BY <2>1
      <4>. HIDE DEF Run
      <4>. QED
        BY <2>1, <2>3
    <3>2. PICK f : Run(m - 1, f)
      <4>. HIDE DEF Run
      <4>. QED
        BY <3>1
    <3>. DEFINE g == [k \in a .. (a + m) |->
                        IF k = a + m THEN step[<<k, f[k - 1]>>] ELSE f[k]]
    <3>3. g \in [a .. (a + m) -> S]
      <4>1. ASSUME NEW k \in a .. (a + m) PROVE g[k] \in S
        <5>1. CASE k = a + m
          <6>1. f[k - 1] \in S /\ k \in (a + 1) .. (a + n)
            BY <2>1, <2>3, <3>2, <5>1
          <6>. QED
            BY <5>1, <6>1
        <5>2. CASE k # a + m
          BY <3>2, <4>1, <5>2
        <5>. QED
          BY <5>1, <5>2
      <4>. QED
        BY <4>1
    <3>4. g[a] = base
      BY <2>1, <2>3, <3>2
    <3>5. ASSUME NEW k \in (a + 1) .. (a + m) PROVE g[k] = step[<<k, g[k - 1]>>]
      <4>1. g[k - 1] = f[k - 1]
        BY <2>1, <3>5
      <4>2. CASE k = a + m
        BY <3>5, <4>1, <4>2
      <4>3. CASE k # a + m
        <5>1. k \in (a + 1) .. (a + (m - 1)) /\ g[k] = f[k]
          BY <2>1, <3>5, <4>3
        <5>. QED
          BY <3>2, <4>1, <5>1
      <4>. QED
        BY <4>2, <4>3
    <3>6. Run(m, g)
      BY <3>3, <3>4, <3>5
    <3>. QED
      <4>. HIDE DEF g, Run
      <4>. QED
        BY <2>1, <3>6
  <2>. QED
    BY <2>2, <2>3
<1>2. \E f : Run(n, f)
  <2>. HIDE DEF Run
  <2>1. n \notin short /\ n \in Nat /\ n =< n
    BY <1>1
  <2>. QED
    BY <2>1
<1>3. PICK f : Run(n, f)
  BY <1>2
<1>4. \A k \in (a + 1) .. b : f[k - 1] \in S
  BY <1>0, <1>3
<1>. QED
  BY <1>0, <1>3, <1>4 DEF IsRun

\* Whatever satisfies such a definition is its solution.
LEMMA RunIsUnique ==
    ASSUME NEW S, NEW base, NEW a \in Int, NEW b \in Int, a =< b, NEW step,
           NEW f, IsRun(f, S, base, a, b, step),
           NEW g, g = [k \in a .. b |-> g[k]], g[a] = base,
           \A k \in (a + 1) .. b : g[k - 1] \in S => g[k] = step[<<k, g[k - 1]>>]
    PROVE  IsRun(g, S, base, a, b, step)
<1>. DEFINE same == {k \in a .. b : g[k] = f[k]}
<1>1. a \in same
  BY DEF IsRun
<1>2. \A k \in (a + 1) .. b : k - 1 \in same => k \in same
  <2>1. ASSUME NEW k \in (a + 1) .. b, k - 1 \in same PROVE k \in same
    <3>1. f[k - 1] \in S /\ f[k] = step[<<k, f[k - 1]>>]
      BY DEF IsRun
    <3>2. g[k - 1] = f[k - 1]
      BY <2>1
    <3>3. g[k] = step[<<k, g[k - 1]>>]
      BY <3>1, <3>2
    <3>4. g[k] = f[k] /\ k \in a .. b
      BY <3>1, <3>2, <3>3
    <3>. QED
      BY <3>4
  <2>. HIDE DEF same
  <2>. QED
    BY <2>1
<1>3. \A k \in a .. b : k \in same
  <2>. HIDE DEF same
  <2>. QED
    BY <1>1, <1>2, UpTo
<1>4. g = [k \in a .. b |-> f[k]]
  BY <1>3
<1>5. f = [k \in a .. b |-> f[k]]
  BY DEF IsRun
<1>6. g = f
  BY <1>4, <1>5
<1>. QED
  BY <1>6

-----------------------------------------------------------------------------
\* A sequence that is written step by step, each adding to its end.
Growing(f, S, a, b) ==
    /\ f \in [a .. b -> Seq(S)]
    /\ \A k \in (a + 1) .. b : \E t \in Seq(S) : f[k] = f[k - 1] \o t

\* What was written stays.
LEMMA GrowingKeeps ==
    ASSUME NEW S, NEW a \in Int, NEW b \in Int, NEW f, Growing(f, S, a, b),
           NEW i \in a .. b, NEW j \in i .. b
    PROVE  /\ Len(f[i]) \in Nat /\ Len(f[j]) \in Nat /\ Len(f[i]) =< Len(f[j])
           /\ \A q \in 1 .. Len(f[i]) : f[j][q] = f[i][q]
<1>. DEFINE Kept(m) == /\ Len(f[i]) =< Len(f[m])
                       /\ \A q \in 1 .. Len(f[i]) : f[m][q] = f[i][q]
            kept == {m \in i .. b : Kept(m)}
<1>1. \A m \in a .. b : f[m] \in Seq(S) /\ Len(f[m]) \in Nat
  BY LenProperties DEF Growing
<1>2. i \in kept
  BY <1>1
<1>3. ASSUME NEW m \in (i + 1) .. b, m - 1 \in kept PROVE m \in kept
  <2>1. m \in (a + 1) .. b /\ m - 1 \in a .. b
    OBVIOUS
  <2>2. PICK t \in Seq(S) : f[m] = f[m - 1] \o t
    BY <2>1 DEF Growing
  <2>3. /\ Len(f[m]) >= Len(f[m - 1])
        /\ \A q \in 1 .. Len(f[m - 1]) : f[m][q] = f[m - 1][q]
    BY <1>1, <2>1, <2>2, ConcatProperties, LenProperties
  <2>. QED
    BY <1>1, <1>3, <2>1, <2>3
<1>4. \A m \in i .. b : m \in kept
  <2>. HIDE DEF kept
  <2>. QED
    BY <1>2, <1>3, UpTo
<1>. QED
  BY <1>1, <1>4

\* Every place was written by one of the steps.
LEMMA GrowingCovers ==
    ASSUME NEW S, NEW a \in Int, NEW b \in Int, a =< b, NEW f, Growing(f, S, a, b),
           NEW q \in Nat, Len(f[a]) < q, q =< Len(f[b])
    PROVE  \E k \in (a + 1) .. b : Len(f[k - 1]) < q /\ q =< Len(f[k])
<1>. DEFINE before == {m \in a .. b : Len(f[m]) < q}
<1>1. CASE \A k \in (a + 1) .. b : k - 1 \in before => k \in before
  <2>1. a \in before
    OBVIOUS
  <2>2. b \in before
    <3>. HIDE DEF before
    <3>1. \A k \in a .. b : k \in before
      BY <1>1, <2>1, UpTo
    <3>. QED
      BY <3>1
  <2>3. Len(f[b]) \in Nat
    BY LenProperties DEF Growing
  <2>. QED
    BY <2>2, <2>3
<1>2. CASE \E k \in (a + 1) .. b : k - 1 \in before /\ k \notin before
  <2>1. PICK k \in (a + 1) .. b : k - 1 \in before /\ k \notin before
    BY <1>2
  <2>2. Len(f[k]) \in Nat
    BY <2>1, LenProperties DEF Growing
  <2>. QED
    BY <2>1, <2>2
<1>. QED
  BY <1>1, <1>2

-----------------------------------------------------------------------------
\* What can be reached from a number by steps that lead from one to the next has
\* a recursive definition.
Reachable(f, N, G, next) ==
    /\ f = [c \in 0 .. N |-> f[c]]
    /\ \A c \in 0 .. N : f[c] = {c} \cup IF c \in G THEN f[next[c]] ELSE {}

\* What can be reached from each number in a finite range is a function.
LEMMA WayUnfolds ==
    ASSUME NEW N \in Nat, NEW G \in SUBSET (0 .. N), NEW next \in [G -> 0 .. N]
    PROVE  \E f : Reachable(f, N, G, next)
<1>. DEFINE Numbers == 0 .. N
            Closed(T) == \A c \in T : c \in G => next[c] \in T
            Reached(c) == {d \in Numbers : \A T \in SUBSET Numbers :
                                                c \in T /\ Closed(T) => d \in T}
            reached == [c \in Numbers |-> Reached(c)]
<1>1. ASSUME NEW c \in Numbers
      PROVE  Reached(c) = {c} \cup IF c \in G THEN Reached(next[c]) ELSE {}
  <2>. DEFINE step == {c} \cup IF c \in G THEN Reached(next[c]) ELSE {}
  <2>1. c \in G => next[c] \in Numbers
    OBVIOUS
  <2>. HIDE DEF Numbers
  <2>2. step \subseteq Numbers /\ c \in step
    BY <1>1
  <2>3. Closed(step)
    <3>1. ASSUME NEW d \in step, d \in G PROVE next[d] \in step
      <4>1. CASE d = c
        BY <2>1, <3>1, <4>1
      <4>2. CASE d # c
        <5>1. c \in G /\ d \in Reached(next[c])
          BY <4>2
        <5>2. next[d] \in Reached(next[c])
          <6>1. next[d] \in Numbers
            BY <3>1 DEF Numbers
          <6>. QED
            BY <3>1, <5>1, <6>1
        <5>. QED
          BY <5>1, <5>2
      <4>. QED
        BY <4>1, <4>2
    <3>. QED
      BY <3>1
  <2>4. Reached(c) \subseteq step
    <3>. HIDE DEF step
    <3>. QED
      BY <2>2, <2>3
  <2>5. step \subseteq Reached(c)
    BY <1>1, <2>1
  <2>. QED
    BY <2>4, <2>5
<1>2. Reachable(reached, N, G, next)
  <2>1. ASSUME NEW c \in Numbers
        PROVE  Reached(c) = {c} \cup IF c \in G THEN reached[next[c]] ELSE {}
    <3>1. c \in G => next[c] \in Numbers
      OBVIOUS
    <3>2. c \in G => reached[next[c]] = Reached(next[c])
      <4>. HIDE DEF Reached, Numbers
      <4>. QED
        BY <3>1
    <3>. HIDE DEF Reached, reached, Numbers
    <3>. QED
      BY <1>1, <2>1, <3>2
  <2>. HIDE DEF Reached
  <2>. QED
    BY <2>1 DEF Reachable
<1>. HIDE DEF reached
<1>. QED
  BY <1>2

-----------------------------------------------------------------------------
(* Where a function leads, step by step, and one that simulates another.      *)

ClosedUnder(T, G, next) == \A c \in T : c \in G => next[c] \in T

\* What next leads to from x as long as it is in G.
Way(S, G, next, x) ==
    {y \in S : \A T \in SUBSET S : x \in T /\ ClosedUnder(T, G, next) => y \in T}

\* What is closed under the steps holds all that is on the way from one of its states.
LEMMA WayInSet ==
    ASSUME NEW S, NEW G, NEW next, NEW x, NEW y \in Way(S, G, next, x),
           NEW T \in SUBSET S, x \in T, ClosedUnder(T, G, next)
    PROVE  y \in T
BY DEF Way

\* The way from a state starts there and is closed under the steps.
LEMMA WayGoesOn ==
    ASSUME NEW S, NEW G \in SUBSET S, NEW next \in [G -> S], NEW x \in S
    PROVE  /\ x \in Way(S, G, next, x) /\ Way(S, G, next, x) \subseteq S
           /\ ClosedUnder(Way(S, G, next, x), G, next)
<1>1. x \in Way(S, G, next, x) /\ Way(S, G, next, x) \subseteq S
  BY DEF Way
<1>2. ASSUME NEW c \in Way(S, G, next, x), c \in G PROVE next[c] \in Way(S, G, next, x)
  <2>1. next[c] \in S
    BY <1>2
  <2>2. ASSUME NEW T \in SUBSET S, x \in T, ClosedUnder(T, G, next) PROVE next[c] \in T
    <3>1. c \in T
      BY <2>2, WayInSet
    <3>. QED
      BY <1>2, <2>2, <3>1 DEF ClosedUnder
  <2>. QED
    BY <2>1, <2>2 DEF Way
<1>. QED
  BY <1>1, <1>2 DEF ClosedUnder

\* The way from x goes through x and on from the state after it.
LEMMA WayFirst ==
    ASSUME NEW S, NEW G \in SUBSET S, NEW next \in [G -> S], NEW x \in S,
           NEW y \in Way(S, G, next, x)
    PROVE  y = x \/ (x \in G /\ y \in Way(S, G, next, next[x]))
<1>. DEFINE T == {x} \cup (IF x \in G THEN Way(S, G, next, next[x]) ELSE {})
<1>1. x \in G => next[x] \in S
  OBVIOUS
<1>2. x \in G => /\ next[x] \in Way(S, G, next, next[x])
                 /\ Way(S, G, next, next[x]) \subseteq S
                 /\ ClosedUnder(Way(S, G, next, next[x]), G, next)
  BY <1>1, WayGoesOn
<1>3. T \in SUBSET S /\ x \in T
  BY <1>2
<1>4. ClosedUnder(T, G, next)
  BY <1>2 DEF ClosedUnder
<1>. HIDE DEF T
<1>5. y \in T
  BY <1>3, <1>4, WayInSet
<1>. QED
  BY <1>5 DEF T

\* From a state on the way the way goes on as before.
LEMMA WayOnward ==
    ASSUME NEW S, NEW G \in SUBSET S, NEW next \in [G -> S], NEW x \in S,
           NEW y \in Way(S, G, next, x)
    PROVE  Way(S, G, next, y) \subseteq Way(S, G, next, x)
<1>1. Way(S, G, next, x) \in SUBSET S /\ ClosedUnder(Way(S, G, next, x), G, next)
  BY WayGoesOn
<1>2. ASSUME NEW z \in Way(S, G, next, y) PROVE z \in Way(S, G, next, x)
  BY <1>1, <1>2, WayInSet
<1>. QED
  BY <1>2

\* Where the way ends is the same from everywhere on it.
LEMMA WayEnds ==
    ASSUME NEW S, NEW G \in SUBSET S, NEW next \in [G -> S], NEW x \in S,
           NEW w \in Way(S, G, next, x), w \notin G, NEW y \in Way(S, G, next, x)
    PROVE  w \in Way(S, G, next, y)
<1>. DEFINE T == {z \in Way(S, G, next, x) : w \in Way(S, G, next, z)}
<1>1. Way(S, G, next, x) \subseteq S /\ ClosedUnder(Way(S, G, next, x), G, next)
      /\ x \in Way(S, G, next, x)
  BY WayGoesOn
<1>2. T \in SUBSET S /\ x \in T
  BY <1>1
<1>3. ASSUME NEW z \in T, z \in G PROVE next[z] \in T
  <2>1. z \in S /\ w \in Way(S, G, next, z) /\ z # w
    BY <1>1, <1>3
  <2>2. w \in Way(S, G, next, next[z])
    BY <2>1, WayFirst
  <2>3. next[z] \in Way(S, G, next, x)
    BY <1>1, <1>3 DEF ClosedUnder
  <2>. QED
    BY <2>2, <2>3
<1>. HIDE DEF T
<1>4. y \in T
  BY <1>2, <1>3, WayInSet DEF ClosedUnder
<1>. QED
  BY <1>4 DEF T

\* A way has at most one end.
LEMMA WayEndsOnce ==
    ASSUME NEW S, NEW G \in SUBSET S, NEW next \in [G -> S], NEW x \in S,
           NEW w \in Way(S, G, next, x), w \notin G, NEW u \in Way(S, G, next, x), u \notin G
    PROVE  w = u
<1>1. u \in S /\ w \in Way(S, G, next, u)
  BY WayEnds, WayGoesOn
<1>. QED
  BY <1>1, WayFirst

\* R relates each end of the first to an end of the second on the way, and from a state
\* that goes on both get to related states again.
Simulates(R, S, G, next, SS, GG, nn) ==
    /\ R \in SUBSET (S \X SS)
    /\ \A x \in S, y \in SS : <<x, y>> \in R /\ x \notin G =>
          \E u \in Way(SS, GG, nn, y) : u \notin GG /\ <<x, u>> \in R
    /\ \A x \in S, y \in SS : <<x, y>> \in R /\ x \in G =>
          \E z \in Way(S, G, next, next[x]) :
             \E u \in Way(SS, GG, nn, y) : <<z, u>> \in R

\* Then the second comes to an end where the first does.
LEMMA SimulatesToEnd ==
    ASSUME NEW S, NEW G \in SUBSET S, NEW next \in [G -> S],
           NEW SS, NEW GG \in SUBSET SS, NEW nn \in [GG -> SS],
           NEW R, Simulates(R, S, G, next, SS, GG, nn),
           NEW x \in S, NEW y \in SS, <<x, y>> \in R,
           NEW w \in Way(S, G, next, x), w \notin G
    PROVE  \E u \in Way(SS, GG, nn, y) : u \notin GG /\ <<w, u>> \in R
<1>. DEFINE Ahead(z) == \E a \in Way(S, G, next, z) : \E b \in Way(SS, GG, nn, y) : <<a, b>> \in R
            T == {z \in S : Ahead(z)}
<1>1. x \in Way(S, G, next, x) /\ y \in Way(SS, GG, nn, y) /\ Way(SS, GG, nn, y) \subseteq SS
  BY WayGoesOn
<1>2. x \in T
  BY <1>1
<1>3. ASSUME NEW z \in T, z \in G PROVE next[z] \in T
  <2>1. PICK a \in Way(S, G, next, z) : \E b \in Way(SS, GG, nn, y) : <<a, b>> \in R
    BY <1>3, Zenon
  <2>2. PICK b \in Way(SS, GG, nn, y) : <<a, b>> \in R
    BY <2>1
  <2>3. next[z] \in S
    BY <1>3
  <2>4. CASE a \in Way(S, G, next, next[z])
    BY <2>2, <2>3, <2>4
  <2>5. CASE a = z
    <3>1. PICK p \in Way(S, G, next, next[z]) :
             \E u \in Way(SS, GG, nn, b) : <<p, u>> \in R
      BY <1>1, <1>3, <2>2, <2>5, Zenon DEF Simulates
    <3>2. PICK u \in Way(SS, GG, nn, b) : <<p, u>> \in R
      BY <3>1
    <3>3. u \in Way(SS, GG, nn, y)
      BY WayOnward
    <3>. QED
      BY <2>3, <3>2, <3>3
  <2>6. a = z \/ a \in Way(S, G, next, next[z])
    BY <1>3, WayFirst
  <2>. QED
    BY <2>4, <2>5, <2>6, Zenon
<1>4. T \in SUBSET S
  OBVIOUS
<1>5. w \in T
  <2>. HIDE DEF T
  <2>. QED
    BY <1>2, <1>3, <1>4, WayInSet DEF ClosedUnder
<1>6. PICK a \in Way(S, G, next, w) : \E b \in Way(SS, GG, nn, y) : <<a, b>> \in R
  BY <1>5, Zenon
<1>7. PICK b \in Way(SS, GG, nn, y) : <<a, b>> \in R
  BY <1>6
<1>8. a = w
  BY <1>5, WayFirst
<1>9. PICK u \in Way(SS, GG, nn, b) : u \notin GG /\ <<w, u>> \in R
  BY <1>1, <1>5, <1>7, <1>8, Zenon DEF Simulates
<1>10. u \in Way(SS, GG, nn, y)
  BY WayOnward
<1>. QED
  BY <1>9, <1>10, Zenon

-----------------------------------------------------------------------------
(* A text at a place in another.                                              *)

\* The lines t are in the code from line b on.
Placed(c, b, t) ==
    /\ b \in Int /\ Len(t) \in Nat
    /\ \A q \in 1 .. Len(t) : b + q - 1 \in 1 .. Len(c) /\ c[b + q - 1] = t[q]

\* The first three lines of a text are at the line it is placed at and the next two.
LEMMA PlacedLines ==
    ASSUME NEW c, NEW b, NEW t, Placed(c, b, t)
    PROVE  /\ b \in Int /\ Len(t) \in Nat
           /\ Len(t) >= 1 => b \in 1 .. Len(c) /\ c[b] = t[1]
           /\ Len(t) >= 2 => b + 1 \in 1 .. Len(c) /\ c[b + 1] = t[2]
           /\ Len(t) >= 3 => b + 2 \in 1 .. Len(c) /\ c[b + 2] = t[3]
<1>1. b \in Int /\ Len(t) \in Nat
      /\ \A q \in 1 .. Len(t) : b + q - 1 \in 1 .. Len(c) /\ c[b + q - 1] = t[q]
  BY DEF Placed
<1>2. b + 1 - 1 = b /\ b + 2 - 1 = b + 1 /\ b + 3 - 1 = b + 2
  BY <1>1
<1>3. /\ Len(t) >= 1 => 1 \in 1 .. Len(t)
      /\ Len(t) >= 2 => 2 \in 1 .. Len(t)
      /\ Len(t) >= 3 => 3 \in 1 .. Len(t)
  BY <1>1
<1>4. /\ Len(t) >= 1 => b + 1 - 1 \in 1 .. Len(c) /\ c[b + 1 - 1] = t[1]
      /\ Len(t) >= 2 => b + 2 - 1 \in 1 .. Len(c) /\ c[b + 2 - 1] = t[2]
      /\ Len(t) >= 3 => b + 3 - 1 \in 1 .. Len(c) /\ c[b + 3 - 1] = t[3]
  BY <1>1, <1>3
<1>. QED
  BY <1>1, <1>2, <1>4

\* Of two texts one after the other each is placed.
LEMMA PlacedParts ==
    ASSUME NEW c, NEW b, NEW S, NEW f \in Seq(S), NEW g \in Seq(S), Placed(c, b, f \o g)
    PROVE  Placed(c, b, f) /\ Placed(c, b + Len(f), g) /\ Len(f \o g) = Len(f) + Len(g)
<1>1. /\ Len(f) \in Nat /\ Len(g) \in Nat /\ b \in Int
      /\ Len(f \o g) = Len(f) + Len(g)
      /\ \A q \in 1 .. Len(f) : (f \o g)[q] = f[q]
      /\ \A q \in 1 .. Len(g) : (f \o g)[Len(f) + q] = g[q]
  BY DEF Placed
<1>2. \A q \in 1 .. (Len(f) + Len(g)) : b + q - 1 \in 1 .. Len(c) /\ c[b + q - 1] = (f \o g)[q]
  BY <1>1 DEF Placed
<1>3. ASSUME NEW q \in 1 .. Len(f)
      PROVE  b + q - 1 \in 1 .. Len(c) /\ c[b + q - 1] = f[q]
  <2>1. q \in 1 .. (Len(f) + Len(g))
    BY <1>1
  <2>. QED
    BY <1>1, <1>2, <2>1
<1>4. ASSUME NEW q \in 1 .. Len(g)
      PROVE  b + Len(f) + q - 1 \in 1 .. Len(c) /\ c[b + Len(f) + q - 1] = g[q]
  <2>1. Len(f) + q \in 1 .. (Len(f) + Len(g)) /\ b + (Len(f) + q) - 1 = b + Len(f) + q - 1
    BY <1>1
  <2>2. /\ b + (Len(f) + q) - 1 \in 1 .. Len(c)
        /\ c[b + (Len(f) + q) - 1] = (f \o g)[Len(f) + q]
    BY <1>2, <2>1
  <2>. QED
    BY <1>1, <2>1, <2>2
<1>. QED
  BY <1>1, <1>3, <1>4 DEF Placed

\* So is the beginning of a text.
LEMMA PlacedPrefix ==
    ASSUME NEW c, NEW b, NEW t, Placed(c, b, t), NEW s, Len(s) \in Nat, Len(s) =< Len(t),
           \A q \in 1 .. Len(s) : t[q] = s[q]
    PROVE  Placed(c, b, s)
<1>1. \A q \in 1 .. Len(s) : q \in 1 .. Len(t)
  BY DEF Placed
<1>. QED
  BY <1>1, Zenon DEF Placed

-----------------------------------------------------------------------------
(* A cell for every byte, and what changes at offsets add to each.            *)

\* A cell holds every number modulo its range.
LEMMA CellIsMemCell ==
    /\ \A n \in Int : Cell(n) \in MemCell
    /\ \A v \in MemCell : v \in Int /\ Cell(v) = v
    /\ MemCell \subseteq Int /\ 0 \in MemCell
BY CellRangeAssumption DEF Cell, MemCell
Tape == [MemCell -> MemCell]

\* The tape with n added to the cell p.
Changed(mem, p, n) == [mem EXCEPT ![p] = Cell(@ + n)]

\* It is a tape, and every other cell is what it was.
LEMMA TapeChanges ==
    ASSUME NEW n \in Int
    PROVE  \A mem \in Tape, p \in MemCell :
              /\ Changed(mem, p, n) \in Tape /\ mem[p] \in MemCell /\ mem[p] \in Int
              /\ \A a \in MemCell : Changed(mem, p, n)[a] = IF a = p THEN Cell(mem[a] + n)
                                                            ELSE mem[a]
<1>1. ASSUME NEW mem \in Tape, NEW p \in MemCell
      PROVE  /\ Changed(mem, p, n) \in Tape /\ mem[p] \in MemCell /\ mem[p] \in Int
             /\ \A a \in MemCell : Changed(mem, p, n)[a] = IF a = p THEN Cell(mem[a] + n)
                                                           ELSE mem[a]
  <2>1. mem[p] \in MemCell /\ mem[p] \in Int
    BY CellIsMemCell DEF Tape
  <2>2. \A v \in MemCell : v \in Int /\ v + n \in Int
    BY CellIsMemCell
  <2>3. \A v \in MemCell : Cell(v + n) \in MemCell
    BY <2>2, CellIsMemCell
  <2>. QED
    BY <2>1, <2>3 DEF Changed, Tape
<1>. QED
  BY <1>1

\* The cells that are changed have a lowest and a highest offset.
Offsets == {X \in SUBSET Int : \E b \in Nat : X \subseteq (-b) .. b}
Mods == UNION {[X -> Int] : X \in Offsets}

\* What the analysis of a loop gathers is a number for each of finitely many offsets.
LEMMA ModsAre ==
    ASSUME NEW m
    PROVE  m \in Mods <=> DOMAIN m \in Offsets /\ m \in [DOMAIN m -> Int]
BY DEF Mods

\* At first it is none.
LEMMA NoMods == <<>> \in Mods
<1>1. {} \in Offsets
  <2>1. {} \subseteq (-0) .. 0
    OBVIOUS
  <2>. QED
    BY <2>1 DEF Offsets
<1>2. <<>> \in [{} -> Int]
  <2>1. <<>> \in Seq(Int) /\ Len(<<>>) = 0
    BY EmptySeq
  <2>2. <<>> \in [1 .. 0 -> Int]
    BY <2>1, LenProperties
  <2>3. 1 .. 0 = {}
    OBVIOUS
  <2>. QED
    BY <2>2, <2>3
<1>. QED
  BY <1>1, <1>2 DEF Mods

\* What was added at an offset.
Added(m, o) == IF o \in DOMAIN m THEN m[o] ELSE 0

\* What is added to the cell a at the offset o from the pointer p.
Weight(m, p, a, o) == IF Cell(p + o) = a THEN Added(m, o) ELSE 0

\* The sum of it up to each offset.
Span == (-CellRange) .. CellRange
IsSum(f, m, p, a) ==
    /\ f \in [(-CellRange - 1) .. CellRange -> Int]
    /\ f[-CellRange - 1] = 0
    /\ \A o \in Span : f[o] = f[o - 1] + Weight(m, p, a, o)
Sums(m, p, a) == CHOOSE f : IsSum(f, m, p, a)
Total(m, p, a) == Sums(m, p, a)[CellRange]

\* The ranges of cells and offsets.
LEMMA SpanBounds ==
    /\ CellRange \in Nat /\ CellRange > 1 /\ CellRange \in Int
    /\ -CellRange - 1 \in Int /\ -CellRange - 1 =< CellRange
    /\ (-CellRange - 1) + 1 = -CellRange
<1>1. CellRange \in Nat
  BY CellRangeAssumption
<1>2. CellRange > 1
  BY CellRangeAssumption
<1>. QED
  BY <1>1, <1>2

\* What was added is a number.
LEMMA AddedType ==
    ASSUME NEW m \in Mods, NEW o
    PROVE  Added(m, o) \in Int
<1>1. m \in [DOMAIN m -> Int]
  BY ModsAre
<1>. QED
  BY <1>1 DEF Added

\* The sums are defined.
LEMMA SumRuns ==
    ASSUME NEW m \in Mods, NEW p, NEW a
    PROVE  IsSum(Sums(m, p, a), m, p, a)
<1>. DEFINE low == -CellRange - 1
            step == [os \in ((low + 1) .. CellRange) \X Int |-> os[2] + Weight(m, p, a, os[1])]
<1>1. low \in Int /\ low =< CellRange /\ CellRange \in Int /\ (low + 1) .. CellRange = Span
  BY SpanBounds DEF Span
<1>2. \A o : Weight(m, p, a, o) \in Int
  BY AddedType DEF Weight
<1>3. step \in [((low + 1) .. CellRange) \X Int -> Int]
  BY <1>2
<1>4. PICK f : IsRun(f, Int, 0, low, CellRange, step)
  <2>. 0 \in Int
    OBVIOUS
  <2>. HIDE DEF low, step
  <2>. QED
    BY <1>1, <1>3, StepsHaveRun, Zenon
<1>5. \A o \in Span : \A n \in Int : step[<<o, n>>] = n + Weight(m, p, a, o)
  BY <1>1
<1>. HIDE DEF step, low
<1>6. f \in [low .. CellRange -> Int] /\ f[low] = 0
  BY <1>4 DEF IsRun
<1>7. \A o \in (low + 1) .. CellRange : f[o - 1] \in Int /\ f[o] = step[<<o, f[o - 1]>>]
  BY <1>4 DEF IsRun
<1>8. \A o \in Span : f[o] = f[o - 1] + Weight(m, p, a, o)
  BY <1>1, <1>5, <1>7, Zenon
<1>9. IsSum(f, m, p, a)
  BY <1>6, <1>8 DEF IsSum, low
<1>. QED
  BY <1>9 DEF Sums

\* Where nothing is added the sum stays.
LEMMA SumFlat ==
    ASSUME NEW m, NEW p, NEW a, NEW f, IsSum(f, m, p, a),
           NEW i \in (-CellRange - 1) .. CellRange, NEW j \in i .. CellRange,
           \A o \in (i + 1) .. j : Weight(m, p, a, o) = 0
    PROVE  f[j] = f[i]
<1>. DEFINE same == {o \in i .. j : f[o] = f[i]}
<1>1. i \in Int /\ j \in Int /\ i \in same /\ i =< j
  BY SpanBounds
<1>2. ASSUME NEW o \in (i + 1) .. j, o - 1 \in same
      PROVE  o \in same
  <2>1. o \in Span /\ o - 1 \in (-CellRange - 1) .. CellRange /\ o \in i .. j
    BY SpanBounds DEF Span
  <2>2. f[o] = f[o - 1] + Weight(m, p, a, o) /\ f[o - 1] \in Int
    BY <2>1 DEF IsSum
  <2>3. Weight(m, p, a, o) = 0 /\ f[o - 1] = f[i]
    BY <1>2
  <2>4. f[o] = f[i]
    BY <2>2, <2>3
  <2>. QED
    BY <2>1, <2>4
<1>3. \A o \in i .. j : o \in same
  <2>. HIDE DEF same
  <2>. QED
    BY <1>1, <1>2, UpTo
<1>. QED
  BY <1>1, <1>3

\* A change at one offset changes the sums from there on.
LEMMA TotalChanges ==
    ASSUME NEW m \in Mods, NEW t \in Mods, NEW p, NEW a, NEW q \in Span, NEW n \in Int,
           \A o \in Int : Added(t, o) = Added(m, o) + (IF o = q THEN n ELSE 0)
    PROVE  Total(t, p, a) = Total(m, p, a) + (IF Cell(p + q) = a THEN n ELSE 0)
<1>. DEFINE f == Sums(m, p, a)
            g == Sums(t, p, a)
            d == IF Cell(p + q) = a THEN n ELSE 0
            low == -CellRange - 1
            kept == {o \in low .. CellRange : g[o] = f[o] + (IF o >= q THEN d ELSE 0)}
<1>1. IsSum(f, m, p, a) /\ IsSum(g, t, p, a)
  BY SumRuns
<1>2. low \in Int /\ CellRange \in Int /\ d \in Int /\ q \in Int /\ low < q /\ q =< CellRange
      /\ low =< CellRange
  BY SpanBounds DEF Span
<1>3. /\ f \in [low .. CellRange -> Int] /\ g \in [low .. CellRange -> Int]
      /\ f[low] = 0 /\ g[low] = 0
      /\ \A o \in Span : f[o] = f[o - 1] + Weight(m, p, a, o) /\ g[o] = g[o - 1] + Weight(t, p, a, o)
  BY <1>1 DEF IsSum
<1>4. \A o \in Int : Weight(t, p, a, o) = Weight(m, p, a, o) + (IF o = q THEN d ELSE 0)
                     /\ Weight(m, p, a, o) \in Int
  <2>1. ASSUME NEW o \in Int
        PROVE  Weight(t, p, a, o) = Weight(m, p, a, o) + (IF o = q THEN d ELSE 0)
               /\ Weight(m, p, a, o) \in Int
    <3>1. Added(t, o) = Added(m, o) + (IF o = q THEN n ELSE 0) /\ Added(m, o) \in Int
      BY AddedType
    <3>. QED
      BY <3>1 DEF Weight
  <2>. QED
    BY <2>1
<1>. HIDE DEF f, g, d
<1>5. low \in kept
  BY <1>2, <1>3
<1>6. ASSUME NEW o \in (low + 1) .. CellRange, o - 1 \in kept
      PROVE  o \in kept
  <2>1. o \in Span /\ o - 1 \in low .. CellRange /\ o \in low .. CellRange /\ o \in Int
    BY SpanBounds DEF Span
  <2>2. /\ f[o] = f[o - 1] + Weight(m, p, a, o) /\ g[o] = g[o - 1] + Weight(t, p, a, o)
        /\ f[o - 1] \in Int /\ g[o - 1] \in Int
    BY <1>3, <2>1
  <2>3. g[o - 1] = f[o - 1] + (IF o - 1 >= q THEN d ELSE 0)
    BY <1>6
  <2>. DEFINE w == Weight(m, p, a, o)
  <2>4. w \in Int /\ Weight(t, p, a, o) = w + (IF o = q THEN d ELSE 0)
    BY <1>4, <2>1
  <2>5. g[o] = (f[o - 1] + (IF o - 1 >= q THEN d ELSE 0)) + (w + (IF o = q THEN d ELSE 0))
        /\ f[o] = f[o - 1] + w
    BY <2>2, <2>3, <2>4
  <2>. HIDE DEF w, low
  <2>6. g[o] = f[o] + (IF o >= q THEN d ELSE 0)
    <3>1. CASE o < q
      BY <1>2, <2>1, <2>2, <2>4, <2>5, <3>1
    <3>2. CASE o = q
      BY <1>2, <2>1, <2>2, <2>4, <2>5, <3>2
    <3>3. CASE o > q
      BY <1>2, <2>1, <2>2, <2>4, <2>5, <3>3
    <3>. QED
      BY <1>2, <2>1, <3>1, <3>2, <3>3
  <2>. QED
    BY <2>1, <2>6
<1>7. \A o \in low .. CellRange : o \in kept
  <2>. HIDE DEF kept, low
  <2>. QED
    BY <1>2, <1>5, <1>6, UpTo
<1>8. CellRange \in kept
  BY <1>2, <1>7
<1>. QED
  BY <1>2, <1>8 DEF Total, f, g, d

\* Totals are numbers, and nothing adds up to nothing.
LEMMA TotalTypes ==
    ASSUME NEW p, NEW a
    PROVE  /\ \A m \in Mods : Total(m, p, a) \in Int
           /\ Total(<<>>, p, a) = 0
<1>1. -CellRange - 1 \in (-CellRange - 1) .. CellRange
      /\ CellRange \in (-CellRange - 1) .. CellRange
  BY SpanBounds
<1>2. ASSUME NEW m \in Mods PROVE Total(m, p, a) \in Int
  <2>1. Sums(m, p, a) \in [(-CellRange - 1) .. CellRange -> Int]
    BY SumRuns DEF IsSum
  <2>. QED
    BY <1>1, <2>1 DEF Total
<1>3. \A o : Weight(<<>>, p, a, o) = 0
  BY DEF Weight, Added
<1>4. IsSum(Sums(<<>>, p, a), <<>>, p, a)
  BY NoMods, SumRuns
<1>5. Sums(<<>>, p, a)[CellRange] = Sums(<<>>, p, a)[-CellRange - 1]
  BY <1>1, <1>3, <1>4, SumFlat
<1>. QED
  BY <1>2, <1>4, <1>5 DEF Total, IsSum

\* Different offsets of less than the range never reach the pointer's own cell.
LEMMA OtherCells ==
    ASSUME NEW p \in MemCell, NEW o \in Int, -CellRange < o, o < CellRange, o # 0
    PROVE  Cell(p + o) # p
<1>. SUFFICES ASSUME Cell(p + o) = p PROVE FALSE
  OBVIOUS
<1>1. CellRange \in Nat /\ CellRange > 1 /\ p \in Int
  BY SpanBounds, CellIsMemCell
<1>2. PICK k \in Int : p + o = CellRange * k + Cell(p + o)
  <2>. p + o \in Int
    BY <1>1
  <2>. QED
    BY CellSplits
<1>3. o = CellRange * k
  <2>. CellRange * k \in Int
    BY <1>1
  <2>. QED
    BY <1>1, <1>2
<1>4. k >= 1 => CellRange * k >= CellRange
  BY <1>1, Z3
<1>5. k =< -1 => CellRange * k =< -CellRange
  BY <1>1, Z3
<1>6. k = 0 => o = 0
  BY <1>1, <1>3
<1>. QED
  BY <1>1, <1>3, <1>4, <1>5, <1>6

\* All that the modifications add, j times over.
Spread(mem, m, p, j) == [a \in MemCell |-> Cell(mem[a] + j * Total(m, p, a))]

\* It is a tape, and nothing changes at first.
LEMMA SpreadTypes ==
    ASSUME NEW mem \in Tape, NEW p
    PROVE  /\ \A m \in Mods, j \in Int :
                 /\ Spread(mem, m, p, j) \in Tape
                 /\ \A a \in MemCell : Spread(mem, m, p, j)[a] = Cell(mem[a] + j * Total(m, p, a))
           /\ \A m \in Mods : Spread(mem, m, p, 0) = mem
           /\ \A j \in Int : Spread(mem, <<>>, p, j) = mem
<1>1. \A a \in MemCell : mem[a] \in MemCell /\ mem[a] \in Int /\ Cell(mem[a]) = mem[a]
  BY CellIsMemCell, Zenon DEF Tape
<1>2. ASSUME NEW m \in Mods, NEW j \in Int
      PROVE  /\ Spread(mem, m, p, j) \in Tape
             /\ \A a \in MemCell : Spread(mem, m, p, j)[a] = Cell(mem[a] + j * Total(m, p, a))
  <2>1. ASSUME NEW a \in MemCell PROVE Cell(mem[a] + j * Total(m, p, a)) \in MemCell
    <3>1. Total(m, p, a) \in Int
      BY TotalTypes, Zenon
    <3>2. mem[a] + j * Total(m, p, a) \in Int
      BY <1>1, <3>1
    <3>. QED
      BY <3>2, CellIsMemCell
  <2>. QED
    BY <2>1 DEF Spread, Tape
<1>3. ASSUME NEW m \in Mods PROVE Spread(mem, m, p, 0) = mem
  <2>1. ASSUME NEW a \in MemCell PROVE Cell(mem[a] + 0 * Total(m, p, a)) = mem[a]
    <3>1. Total(m, p, a) \in Int
      BY TotalTypes, Zenon
    <3>2. 0 * Total(m, p, a) = 0 /\ mem[a] + 0 = mem[a]
      BY <1>1, <3>1
    <3>. QED
      BY <1>1, <3>2
  <2>. QED
    BY <2>1 DEF Spread, Tape
<1>4. ASSUME NEW j \in Int PROVE Spread(mem, <<>>, p, j) = mem
  <2>1. ASSUME NEW a \in MemCell PROVE Cell(mem[a] + j * Total(<<>>, p, a)) = mem[a]
    <3>1. Total(<<>>, p, a) = 0
      BY TotalTypes
    <3>2. j * 0 = 0 /\ mem[a] + 0 = mem[a]
      BY <1>1
    <3>. QED
      BY <1>1, <3>1, <3>2
  <2>. QED
    BY <2>1 DEF Spread, Tape
<1>. QED
  BY <1>2, <1>3, <1>4

\* One more change at an offset, made j times.
LEMMA SpreadChanges ==
    ASSUME NEW mem \in Tape, NEW p \in MemCell, NEW m \in Mods, NEW t \in Mods,
           NEW q \in Span, NEW n \in Int, NEW j \in Int,
           \A o \in Int : Added(t, o) = Added(m, o) + (IF o = q THEN n ELSE 0)
    PROVE  Spread(mem, t, p, j) = Changed(Spread(mem, m, p, j), Cell(p + q), j * n)
<1>. DEFINE b == Cell(p + q)
            S == Spread(mem, m, p, j)
            k == j * n
<1>1. b \in MemCell /\ k \in Int
  <2>1. p + q \in Int
    BY CellIsMemCell DEF Span
  <2>. QED
    BY <2>1, CellIsMemCell
<1>2. S \in Tape /\ \A a \in MemCell : S[a] = Cell(mem[a] + j * Total(m, p, a))
  BY SpreadTypes
<1>3. \A a \in MemCell : Changed(S, b, k)[a] = IF a = b THEN Cell(S[a] + k) ELSE S[a]
  <2>. HIDE DEF S, b, k
  <2>. QED
    BY <1>1, <1>2, TapeChanges
<1>4. Changed(S, b, k) \in Tape
  <2>. HIDE DEF S, b, k
  <2>. QED
    BY <1>1, <1>2, TapeChanges
<1>5. ASSUME NEW a \in MemCell
      PROVE  Cell(mem[a] + j * Total(t, p, a)) = IF a = b THEN Cell(S[a] + k) ELSE S[a]
  <2>. DEFINE u == Total(m, p, a)
              v == Total(t, p, a)
              x == mem[a]
  <2>1. u \in Int /\ v = u + (IF b = a THEN n ELSE 0) /\ x \in Int
    <3>1. u \in Int /\ x \in Int
      BY TotalTypes, CellIsMemCell, Zenon DEF Tape
    <3>2. v = u + (IF b = a THEN n ELSE 0)
      BY TotalChanges
    <3>. QED
      BY <3>1, <3>2
  <2>2. S[a] = Cell(x + j * u)
    BY <1>2
  <2>. HIDE DEF u, v, x, S, k
  <2>3. CASE a = b
    <3>1. v = u + n
      BY <2>1, <2>3
    <3>2. j * (u + n) = j * u + j * n /\ j * u \in Int /\ j * n \in Int
      BY <2>1, Z3
    <3>3. x + j * v = (x + j * u) + k /\ x + j * u \in Int
      BY <2>1, <3>1, <3>2 DEF k
    <3>4. Cell(Cell(x + j * u) + k) = Cell((x + j * u) + k)
      BY <1>1, <3>3, CellArithmetic
    <3>. QED
      BY <2>2, <2>3, <3>3, <3>4 DEF u, v, x
  <2>4. CASE a # b
    <3>1. v = u
      BY <2>1, <2>4
    <3>. QED
      BY <2>2, <2>4, <3>1 DEF v, x
  <2>. QED
    BY <2>3, <2>4
<1>6. /\ Spread(mem, t, p, j) \in Tape
      /\ \A a \in MemCell : Spread(mem, t, p, j)[a] = Cell(mem[a] + j * Total(t, p, a))
  BY SpreadTypes
<1>. HIDE DEF S, b, k
<1>8. \A a \in MemCell : Spread(mem, t, p, j)[a] = Changed(S, b, k)[a]
  BY <1>3, <1>5, <1>6
<1>9. Spread(mem, t, p, j) = Changed(S, b, k)
  BY <1>4, <1>6, <1>8 DEF Tape
<1>. QED
  BY <1>9 DEF S, b, k

\* Once more is one time more.
LEMMA SpreadAgain ==
    ASSUME NEW mem \in Tape, NEW p \in MemCell, NEW m \in Mods, NEW j \in Int
    PROVE  Spread(Spread(mem, m, p, j), m, p, 1) = Spread(mem, m, p, j + 1)
<1>. DEFINE S == Spread(mem, m, p, j)
<1>1. /\ S \in Tape /\ \A a \in MemCell : S[a] = Cell(mem[a] + j * Total(m, p, a))
  BY SpreadTypes
<1>2. ASSUME NEW a \in MemCell
      PROVE  Cell(S[a] + 1 * Total(m, p, a)) = Cell(mem[a] + (j + 1) * Total(m, p, a))
  <2>. DEFINE u == Total(m, p, a)
              x == mem[a]
              y == j * u
  <2>1. u \in Int /\ x \in Int
    BY TotalTypes, CellIsMemCell, Zenon DEF Tape
  <2>2. y \in Int /\ (j + 1) * u = y + u /\ 1 * u = u
    <3>. HIDE DEF u
    <3>. QED
      BY <2>1, Z3
  <2>3. S[a] = Cell(x + y)
    BY <1>1
  <2>. HIDE DEF u, x, y, S
  <2>4. x + y \in Int /\ (x + y) + u = x + (y + u)
    BY <2>1, <2>2
  <2>5. Cell(Cell(x + y) + u) = Cell((x + y) + u)
    BY <2>1, <2>4, CellArithmetic
  <2>6. Cell(S[a] + 1 * u) = Cell(x + (j + 1) * u)
    BY <2>2, <2>3, <2>4, <2>5
  <2>. QED
    BY <2>6 DEF u, x
<1>. HIDE DEF S
<1>. QED
  BY <1>2 DEF Spread, S

\* What the modifications add up to each offset, j times over.
Partial(mem, m, p, j, o) == [a \in MemCell |-> Cell(mem[a] + j * Sums(m, p, a)[o])]

\* It is a tape, and sums are numbers.
LEMMA PartialTypes ==
    ASSUME NEW mem \in Tape, NEW m \in Mods, NEW p, NEW j \in Int,
           NEW o \in (-CellRange - 1) .. CellRange
    PROVE  /\ Partial(mem, m, p, j, o) \in Tape
           /\ \A a \in MemCell :
                 /\ Sums(m, p, a)[o] \in Int /\ mem[a] \in Int /\ mem[a] \in MemCell
                 /\ Partial(mem, m, p, j, o)[a] = Cell(mem[a] + j * Sums(m, p, a)[o])
<1>1. ASSUME NEW a \in MemCell
      PROVE  /\ Sums(m, p, a)[o] \in Int /\ mem[a] \in Int /\ mem[a] \in MemCell
             /\ Cell(mem[a] + j * Sums(m, p, a)[o]) \in MemCell
  <2>1. Sums(m, p, a) \in [(-CellRange - 1) .. CellRange -> Int]
    BY SumRuns DEF IsSum
  <2>2. Sums(m, p, a)[o] \in Int
    BY <2>1
  <2>3. mem[a] \in MemCell /\ mem[a] \in Int
    BY CellIsMemCell, Zenon DEF Tape
  <2>4. mem[a] + j * Sums(m, p, a)[o] \in Int
    BY <2>2, <2>3
  <2>. QED
    BY <2>2, <2>3, <2>4, CellIsMemCell
<1>. QED
  BY <1>1 DEF Partial, Tape

\* Each offset adds its own.
LEMMA PartialStep ==
    ASSUME NEW mem \in Tape, NEW m \in Mods, NEW p \in MemCell, NEW j \in Int, NEW o \in Span
    PROVE  /\ o - 1 \in (-CellRange - 1) .. CellRange /\ o \in (-CellRange - 1) .. CellRange
           /\ Cell(p + o) \in MemCell /\ Added(m, o) \in Int
           /\ Partial(mem, m, p, j, o)
                 = Changed(Partial(mem, m, p, j, o - 1), Cell(p + o), j * Added(m, o))
           /\ o \notin DOMAIN m => Partial(mem, m, p, j, o) = Partial(mem, m, p, j, o - 1)
<1>. DEFINE b == Cell(p + o)
            n == Added(m, o)
            P == Partial(mem, m, p, j, o - 1)
            Q == Partial(mem, m, p, j, o)
<1>1. o - 1 \in (-CellRange - 1) .. CellRange /\ o \in (-CellRange - 1) .. CellRange /\ o \in Int
  BY SpanBounds DEF Span
<1>2. b \in MemCell /\ n \in Int /\ j * n \in Int
  <2>1. p + o \in Int
    BY <1>1, CellIsMemCell
  <2>2. n \in Int
    BY AddedType
  <2>3. j * n \in Int
    BY <2>2
  <2>. QED
    BY <2>1, <2>2, <2>3, CellIsMemCell
<1>3. P \in Tape /\ Q \in Tape
  BY <1>1, PartialTypes
<1>4. ASSUME NEW a \in MemCell
      PROVE  /\ Q[a] = IF a = b THEN Cell(P[a] + j * n) ELSE P[a]
             /\ n = 0 => Q[a] = P[a]
  <2>. DEFINE s == Sums(m, p, a)[o - 1]
              w == Weight(m, p, a, o)
  <2>1. s \in Int /\ mem[a] \in Int /\ P[a] = Cell(mem[a] + j * s)
    BY <1>1, PartialTypes
  <2>2. Q[a] = Cell(mem[a] + j * Sums(m, p, a)[o])
    BY <1>1, PartialTypes
  <2>3. Sums(m, p, a)[o] = s + w
    BY SumRuns DEF IsSum
  <2>4. w = IF a = b THEN n ELSE 0
    BY DEF Weight
  <2>. HIDE DEF s, w, n, b, P, Q
  <2>5. Q[a] = Cell(mem[a] + j * (s + w))
    BY <2>2, <2>3
  <2>6. CASE a = b
    <3>1. w = n
      BY <2>4, <2>6
    <3>2. j * (s + n) = j * s + j * n /\ j * s \in Int
      BY <1>2, <2>1, Z3
    <3>3. Cell(Cell(mem[a] + j * s) + j * n) = Cell((mem[a] + j * s) + j * n)
      <4>1. mem[a] + j * s \in Int
        BY <2>1, <3>2
      <4>. QED
        BY <1>2, <4>1, CellArithmetic
    <3>4. (mem[a] + j * s) + j * n = mem[a] + j * (s + n)
      BY <1>2, <2>1, <3>2
    <3>5. Q[a] = Cell(P[a] + j * n)
      BY <2>1, <2>5, <3>1, <3>3, <3>4
    <3>6. n = 0 => s + w = s
      BY <2>1, <3>1
    <3>. QED
      BY <2>1, <2>5, <2>6, <3>5, <3>6
  <2>7. CASE a # b
    <3>1. s + w = s
      BY <2>1, <2>4, <2>7
    <3>. QED
      BY <2>1, <2>5, <2>7, <3>1
  <2>. QED
    BY <2>6, <2>7
<1>5. Q = Changed(P, b, j * n)
  <2>. DEFINE k == j * n
  <2>. SUFFICES Q = Changed(P, b, k)
    OBVIOUS
  <2>1. k \in Int /\ \A a \in MemCell : Q[a] = IF a = b THEN Cell(P[a] + k) ELSE P[a]
    BY <1>2, <1>4
  <2>. HIDE DEF P, Q, b, n, k
  <2>2. Changed(P, b, k) \in Tape
        /\ \A a \in MemCell : Changed(P, b, k)[a] = IF a = b THEN Cell(P[a] + k) ELSE P[a]
    BY <1>2, <1>3, <2>1, TapeChanges
  <2>. QED
    BY <1>3, <2>1, <2>2 DEF Tape
<1>6. ASSUME o \notin DOMAIN m PROVE Q = P
  <2>1. n = 0
    BY <1>6 DEF Added
  <2>. HIDE DEF P, Q, n, b
  <2>. QED
    BY <1>3, <1>4, <2>1 DEF Tape
<1>. QED
  BY <1>1, <1>2, <1>5, <1>6

\* Below the lowest offset nothing is added yet, from the highest on everything is.
LEMMA PartialEnds ==
    ASSUME NEW mem \in Tape, NEW m \in Mods, NEW p \in MemCell, NEW j \in Int,
           NEW lowest \in Span, NEW highest \in Span,
           \A o \in DOMAIN m : o \in Int /\ lowest =< o /\ o =< highest
    PROVE  /\ Partial(mem, m, p, j, lowest - 1) = mem
           /\ Partial(mem, m, p, j, highest) = Spread(mem, m, p, j)
<1>1. /\ lowest \in Int /\ highest \in Int /\ CellRange \in Int
      /\ -CellRange - 1 \in (-CellRange - 1) .. CellRange
      /\ lowest - 1 \in (-CellRange - 1) .. CellRange
      /\ highest \in (-CellRange - 1) .. CellRange /\ CellRange \in highest .. CellRange
  BY SpanBounds DEF Span
<1>2. \A a, o : o \notin DOMAIN m => Weight(m, p, a, o) = 0
  BY DEF Weight, Added
<1>3. ASSUME NEW a \in MemCell
      PROVE  Sums(m, p, a)[lowest - 1] = 0 /\ Sums(m, p, a)[highest] = Total(m, p, a)
  <2>1. IsSum(Sums(m, p, a), m, p, a)
    BY SumRuns
  <2>2. \A o \in ((-CellRange - 1) + 1) .. (lowest - 1) : Weight(m, p, a, o) = 0
    BY <1>1, <1>2
  <2>3. Sums(m, p, a)[lowest - 1] = Sums(m, p, a)[-CellRange - 1]
    <3>1. lowest - 1 \in (-CellRange - 1) .. CellRange
          /\ lowest - 1 \in (-CellRange - 1) .. CellRange
      BY <1>1
    <3>. QED
      BY <1>1, <2>1, <2>2, SumFlat
  <2>4. \A o \in (highest + 1) .. CellRange : Weight(m, p, a, o) = 0
    BY <1>1, <1>2
  <2>5. Sums(m, p, a)[CellRange] = Sums(m, p, a)[highest]
    BY <1>1, <2>1, <2>4, SumFlat
  <2>. QED
    BY <2>1, <2>3, <2>5 DEF IsSum, Total
<1>4. \A a \in MemCell : mem[a] \in Int /\ Cell(mem[a]) = mem[a]
  BY CellIsMemCell, Zenon DEF Tape
<1>5. Partial(mem, m, p, j, lowest - 1) = mem
  <2>1. ASSUME NEW a \in MemCell PROVE Cell(mem[a] + j * Sums(m, p, a)[lowest - 1]) = mem[a]
    <3>1. j * 0 = 0 /\ mem[a] + 0 = mem[a]
      BY <1>4
    <3>. QED
      BY <1>3, <1>4, <3>1
  <2>. QED
    BY <2>1 DEF Partial, Tape
<1>6. Partial(mem, m, p, j, highest) = Spread(mem, m, p, j)
  BY <1>3 DEF Partial, Spread
<1>. QED
  BY <1>5, <1>6

\* A cell that is emptied.
Emptied(mem, p) == [mem EXCEPT ![p] = 0]

\* m are modifications of other cells than the pointer's.
Apart(m) == m \in Mods /\ \A o \in DOMAIN m : o # 0 /\ -CellRange < o /\ o < CellRange

\* all are these and the one that counts down.
Counting(all, m) ==
    all \in Mods /\ \A o \in Int : Added(all, o) = Added(m, o) + (IF o = 0 THEN -1 ELSE 0)

\* Modifications of other cells leave the pointer's cell alone.
LEMMA ApartTotal ==
    ASSUME NEW m, Apart(m), NEW p \in MemCell
    PROVE  Total(m, p, p) = 0
<1>1. \A o \in Int : Weight(m, p, p, o) = 0
  <2>1. ASSUME NEW o \in Int PROVE Weight(m, p, p, o) = 0
    <3>1. CASE o \in DOMAIN m
      <4>1. Cell(p + o) # p
        BY <3>1, OtherCells DEF Apart
      <4>. QED
        BY <4>1 DEF Weight
    <3>2. CASE o \notin DOMAIN m
      BY <3>2 DEF Weight, Added
    <3>. QED
      BY <3>1, <3>2
  <2>. QED
    BY <2>1
<1>. DEFINE low == -CellRange - 1
<1>2. low \in low .. CellRange /\ CellRange \in low .. CellRange /\ low \in Int /\ CellRange \in Int
  BY SpanBounds
<1>3. IsSum(Sums(m, p, p), m, p, p)
  BY SumRuns DEF Apart
<1>4. \A o \in (low + 1) .. CellRange : Weight(m, p, p, o) = 0
  BY <1>1, <1>2
<1>5. Sums(m, p, p)[CellRange] = Sums(m, p, p)[low]
  BY <1>2, <1>3, <1>4, SumFlat
<1>6. Sums(m, p, p)[low] = 0
  BY <1>3 DEF IsSum
<1>. QED
  BY <1>5, <1>6 DEF Total

\* So a loop that counts down empties its cell and does the others as many times.
LEMMA LoopEmpties ==
    ASSUME NEW mem \in Tape, NEW p \in MemCell, NEW m, Apart(m), NEW all, Counting(all, m)
    PROVE  /\ Total(all, p, p) = -1
           /\ Emptied(mem, p) \in Tape
           /\ Spread(mem, all, p, mem[p]) = Spread(Emptied(mem, p), m, p, mem[p])
<1>. DEFINE v == mem[p]
            E == Emptied(mem, p)
<1>1. m \in Mods /\ all \in Mods /\ v \in Int /\ v \in MemCell /\ 0 \in MemCell
  BY CellIsMemCell, Zenon DEF Apart, Counting, Tape
<1>2. E \in Tape /\ E[p] = 0 /\ \A a \in MemCell : a # p => E[a] = mem[a]
  BY <1>1 DEF Emptied, Tape
<1>3. Cell(p + 0) = p
  <2>1. p \in Int /\ Cell(p) = p
    BY CellIsMemCell
  <2>. QED
    BY <2>1
<1>4. \A a \in MemCell : Total(all, p, a) = Total(m, p, a) + (IF p = a THEN -1 ELSE 0)
                         /\ Total(m, p, a) \in Int
  <2>1. ASSUME NEW a \in MemCell
        PROVE  Total(all, p, a) = Total(m, p, a) + (IF p = a THEN -1 ELSE 0)
               /\ Total(m, p, a) \in Int
    <3>1. 0 \in Span /\ -1 \in Int
      BY SpanBounds DEF Span
    <3>2. \A o \in Int : Added(all, o) = Added(m, o) + (IF o = 0 THEN -1 ELSE 0)
      BY DEF Counting
    <3>3. Total(all, p, a) = Total(m, p, a) + (IF Cell(p + 0) = a THEN -1 ELSE 0)
      BY <1>1, <3>1, <3>2, TotalChanges
    <3>4. Total(m, p, a) \in Int
      BY <1>1, TotalTypes
    <3>. QED
      BY <1>3, <3>3, <3>4
  <2>. QED
    BY <2>1
<1>5. Total(m, p, p) = 0
  BY ApartTotal
<1>6. Total(all, p, p) = -1
  BY <1>4, <1>5
<1>. HIDE DEF E, v
<1>7. ASSUME NEW a \in MemCell
      PROVE  Cell(mem[a] + v * Total(all, p, a)) = Cell(E[a] + v * Total(m, p, a))
  <2>1. CASE a = p
    <3>1. v + v * (-1) = 0 /\ 0 + v * 0 = 0
      BY <1>1
    <3>2. mem[a] = v /\ E[a] = 0
      BY <1>2, <2>1 DEF v
    <3>. QED
      BY <1>5, <1>6, <2>1, <3>1, <3>2
  <2>2. CASE a # p
    <3>1. E[a] = mem[a]
      BY <1>2, <2>2
    <3>2. Total(all, p, a) = Total(m, p, a)
      BY <1>4, <2>2
    <3>. QED
      BY <3>1, <3>2
  <2>. QED
    BY <2>1, <2>2
<1>8. Spread(mem, all, p, v) = Spread(E, m, p, v)
  BY <1>7 DEF Spread
<1>. QED
  BY <1>2, <1>6, <1>8 DEF E, v
=============================================================================
